--------------------------- MODULE PlanAlgorithms ---------------------------
(***************************************************************************)
(* The two graph algorithms of domain/long_task.rs as the code runs them,  *)
(* call by call and round by round: the depth-first search that refuses a  *)
(* circular plan, and the loop that finds the steps that can never run.    *)
(* LongTaskPlan states what they mean (Acyclic, Blocked) and the modules   *)
(* that use it rely on that meaning; here it is what they compute.         *)
(*                                                                         *)
(* find_cycle goes through the steps, and visit through the waits of the   *)
(* step it is called for, each in the order of a list: any order, here.    *)
(* blocked_steps comes after the search, as a plan is walked after it was  *)
(* checked; it is run on circular plans too.                               *)
(***************************************************************************)
EXTENDS LongTaskPlan

CONSTANT Inputs          \* the plans the algorithms are given

ASSUME InputsAssumption == Inputs \subseteq Plan

VARIABLES
    given,               \* the steps
    marks,               \* marks[k]: how far the search is with step k
    path,                \* the steps visit is in, outermost first
    starts,              \* the steps find_cycle has still to start from
    unseen,              \* unseen[k]: the waits that visit has still to follow from step k
    cycle,               \* the circle found, from a step round to itself; empty is None
    blocked,             \* the steps blocked_steps has found
    looping              \* its loop has another round to make

searchVars == <<given, marks, path, starts, unseen, cycle, blocked, looping>>

Marks == {"Unvisited", "OnPath", "Done"}

\* The keys of "index": a wait for any other step is a leaf.
Index == Present(given)

SearchInit ==
    /\ given \in Inputs
    /\ marks = [k \in Keys |-> "Unvisited"]
    /\ path = <<>>
    /\ starts = Index
    /\ unseen = [k \in Keys |-> {}]
    /\ cycle = <<>>
    /\ blocked = {}
    /\ looping = TRUE

-----------------------------------------------------------------------------
(* find_cycle and visit.                                                   *)

\* The step whose waits are being followed.
Innermost == path[Len(path)]

\* What the innermost loop has still to call visit for.
ToVisit == IF path = <<>> THEN starts ELSE unseen[Innermost]

\* The search has returned.
Searched == cycle # <<>> \/ (path = <<>> /\ starts = {})

\* The innermost loop goes on to its next call, visit(k).
Calls(k) ==
    /\ ~Searched
    /\ k \in ToVisit

StartsAfter(k) == IF path = <<>> THEN starts \ {k} ELSE starts

UnseenAfter(k) == IF path = <<>> THEN unseen ELSE [unseen EXCEPT ![Innermost] = @ \ {k}]

\* A step that is done is not entered again.
VisitDone(k) ==
    /\ Calls(k)
    /\ marks[k] = "Done"
    /\ starts' = StartsAfter(k)
    /\ unseen' = UnseenAfter(k)
    /\ UNCHANGED <<given, marks, path, cycle, blocked, looping>>

\* A step not seen before is entered.
VisitNew(k) ==
    /\ Calls(k)
    /\ marks[k] = "Unvisited"
    /\ marks' = [marks EXCEPT ![k] = "OnPath"]
    /\ path' = Append(path, k)
    /\ starts' = StartsAfter(k)
    /\ unseen' = [UnseenAfter(k) EXCEPT ![k] = given[k].waits \cap Index]
    /\ UNCHANGED <<given, cycle, blocked, looping>>

\* The part of the path from k on, back round to k.
CycleFrom(k) ==
    Append(SubSeq(path, CHOOSE i \in DOMAIN path : path[i] = k, Len(path)), k)

\* A step on the path closes a circle, and every visit returns it.
VisitOnPath(k) ==
    /\ Calls(k)
    /\ marks[k] = "OnPath"
    /\ cycle' = CycleFrom(k)
    /\ UNCHANGED <<given, marks, path, starts, unseen, blocked, looping>>

\* Fault: visit returns after the first wait it has followed.
LeaveEarly ==
    /\ ~Searched
    /\ path # <<>>
    /\ unseen[Innermost] # given[Innermost].waits \cap Index \/ unseen[Innermost] = {}
    /\ marks' = [marks EXCEPT ![Innermost] = "Done"]
    /\ path' = SubSeq(path, 1, Len(path) - 1)
    /\ UNCHANGED <<given, starts, unseen, cycle, blocked, looping>>

\* visit has followed every wait and returns None.
Leave ==
    /\ ~Searched
    /\ path # <<>>
    /\ unseen[Innermost] = {}
    /\ marks' = [marks EXCEPT ![Innermost] = "Done"]
    /\ path' = SubSeq(path, 1, Len(path) - 1)
    /\ UNCHANGED <<given, starts, unseen, cycle, blocked, looping>>

-----------------------------------------------------------------------------
(* blocked_steps.                                                          *)

\* Fault: a single round.
RoundOnce ==
    /\ Searched
    /\ looping
    /\ blocked' = blocked \cup NewlyBlocked(given, blocked)
    /\ looping' = FALSE
    /\ UNCHANGED <<given, marks, path, starts, unseen, cycle>>

\* Fault: a round counts the steps it has found before as new.
RoundCountsAgain ==
    /\ Searched
    /\ looping
    /\ LET newly == NewlyBlocked(given, {}) \cup NewlyBlocked(given, blocked)
       IN  /\ blocked' = blocked \cup newly
           /\ looping' = (newly # {})
    /\ UNCHANGED <<given, marks, path, starts, unseen, cycle>>

\* One round of the loop; one that finds nothing new is the last.
Round ==
    /\ Searched
    /\ looping
    /\ LET newly == NewlyBlocked(given, blocked) \ blocked
       IN  /\ blocked' = blocked \cup newly
           /\ looping' = (newly # {})
    /\ UNCHANGED <<given, marks, path, starts, unseen, cycle>>

\* Both have returned.
Returned == ~looping /\ UNCHANGED searchVars

SearchNext ==
    \/ \E k \in Keys : VisitDone(k) \/ VisitNew(k) \/ VisitOnPath(k)
    \/ Leave
    \/ Round
    \/ Returned

SearchSpec == SearchInit /\ [][SearchNext]_searchVars

\* A computation between two ledger calls: nothing can stop it but itself.
FairSearchSpec == SearchSpec /\ WF_searchVars(SearchNext)

-----------------------------------------------------------------------------
(* What they compute.                                                      *)

\* Each key waits for the next, and the last is the first.
IsCycle(c) ==
    /\ Len(c) > 1
    /\ c[1] = c[Len(c)]
    /\ \A i \in 1..(Len(c) - 1) : c[i] \in Index /\ c[i + 1] \in given[c[i]].waits

\* find_cycle refuses a plan exactly when some of its steps wait for each other in a circle,
\* wherever the search starts and whatever it has marked done on the way, and what it reports to
\* the planner is such a circle.
FindsExactlyTheCycles ==
    Searched => IF Acyclic(given, Index) THEN cycle = <<>> ELSE IsCycle(cycle)

\* The rounds of blocked_steps end in the least set of pending steps that can never become ready.
RoundsFindTheBlocked == ~looping => blocked = Blocked(given)

\* next_run leaves a running task waiting only if a step of it is running or parked, or if steps
\* wait in a circle, which find_cycle has then found and validate_plan stores for nobody.
WaitHasACause ==
    Searched /\ NextRun("Running", given, 0, FALSE) = "Wait" =>
        \/ \E k \in Keys : given[k].state \in {"Running", "AwaitingApproval"}
        \/ cycle # <<>>

\* Liveness: whatever the plan, a circular one too, the search and the rounds return.
AlgorithmsEnd == <>~looping

\* visit never calls itself deeper than the plan has steps, however the plan is wound: "recursion
\* is bounded by the step cap".
RecursionIsBounded == Len(path) <= Cardinality(Index)

\* The waits of k that a call of visit has not been made for.
WaitsLeft(k) == IF marks[k] = "Unvisited" THEN given[k].waits \cap Index ELSE unseen[k]

\* A step that gives nothing back, and one that uses something up: a start, a wait, a step not yet
\* done, a step not yet blocked, or the answer.
GivesNothingBack ==
    /\ given' = given
    /\ starts' \subseteq starts
    /\ \A k \in Keys : WaitsLeft(k)' \subseteq WaitsLeft(k)
    /\ \A k \in Keys : marks[k] = "Done" => marks'[k] = "Done"
    /\ blocked \subseteq blocked'
    /\ cycle # <<>> => cycle' = cycle
    /\ looping' => looping

UsesUp ==
    \/ starts' # starts
    \/ \E k \in Keys : WaitsLeft(k)' # WaitsLeft(k)
    \/ \E k \in Keys : marks[k] # "Done" /\ marks'[k] = "Done"
    \/ blocked' # blocked
    \/ cycle' # cycle
    \/ looping' # looping

\* Every call, return and round of find_cycle and blocked_steps uses up something of which there is
\* no more than the plan has and which no other gives back, so that a plan of any shape, a circular
\* one too, is searched and walked in finitely many of them.
StepsRunOut == [][GivesNothingBack /\ UsesUp]_searchVars
=============================================================================
