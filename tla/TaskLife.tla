------------------------------ MODULE TaskLife ------------------------------
(***************************************************************************)
(* What the long-task system promises whoever asked for a task, with no    *)
(* plans, planners, openers, retries or restarts in sight.  A task is      *)
(* opened once and ends once, one way.  Its results are written one step   *)
(* at a time by the one runner, to a task it took in hand while the task   *)
(* was open, and are kept until the task is deleted.  Only the runner      *)
(* completes or fails a task, and only the one it has in hand; after a     *)
(* cancel nothing is done for a task but what is in hand.                  *)
(***************************************************************************)
EXTENDS Naturals

CONSTANTS Tasks, \* the tasks ever opened; 0 is none of them
          Keys   \* the steps a task may have

VARIABLES life,  \* life[t]: not opened, open, how it ended, or deleted
          done,  \* done[t]: the steps of t with a result
          hands  \* the task the runner has in hand, or 0

vars == <<life, done, hands>>

Endings == {"Completed", "Failed", "Cancelled"}

Init ==
    /\ life = [t \in Tasks |-> "none"]
    /\ done = [t \in Tasks |-> {}]
    /\ hands = 0

Open(t) ==
    /\ life[t] = "none"
    /\ life' = [life EXCEPT ![t] = "open"]
    /\ UNCHANGED <<done, hands>>

Take(t) ==
    /\ hands = 0 /\ life[t] = "open"
    /\ hands' = t
    /\ UNCHANGED <<life, done>>

\* The runner may keep the task in hand for what follows the step.
Do(t, k) ==
    /\ hands = t /\ life[t] \in Endings \cup {"open"}
    /\ k \notin done[t]
    /\ done' = [done EXCEPT ![t] = @ \cup {k}]
    /\ hands' \in {t, 0}
    /\ UNCHANGED life

\* Whatever happened to the task meanwhile, a stop, an error and a crash included.
PutDown ==
    /\ hands # 0
    /\ hands' = 0
    /\ UNCHANGED <<life, done>>

End(t, how) ==
    /\ hands = t /\ life[t] = "open"
    /\ life' = [life EXCEPT ![t] = how]
    /\ hands' = 0
    /\ UNCHANGED done

Cancel(t) ==
    /\ life[t] = "open"
    /\ life' = [life EXCEPT ![t] = "Cancelled"]
    /\ UNCHANGED <<done, hands>>

Delete(t) ==
    /\ life[t] \in Endings
    /\ life' = [life EXCEPT ![t] = "deleted"]
    /\ done' = [done EXCEPT ![t] = {}]
    /\ UNCHANGED hands

Next ==
    \/ \E t \in Tasks : Open(t) \/ Take(t) \/ Cancel(t) \/ Delete(t)
    \/ \E t \in Tasks : \E k \in Keys : Do(t, k)
    \/ \E t \in Tasks : \E how \in {"Completed", "Failed"} : End(t, how)
    \/ PutDown

Spec == Init /\ [][Next]_vars
=============================================================================
