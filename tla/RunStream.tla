------------------------------ MODULE RunStream ------------------------------
(***************************************************************************)
(* One agent turn that outlives its connection, and the clients that       *)
(* follow it (pond-api: runs.rs RunHandle, routes.rs run_turn, drive_turn, *)
(* attach_sse).                                                            *)
(*                                                                         *)
(* The turn pushes numbered frames into a ring and onto a broadcast        *)
(* channel: two steps, since the ring's lock is released before the send.  *)
(* A client subscribes, copies the ring, then follows the channel; one     *)
(* that falls behind re-reads the ring.  Frames are their numbers and      *)
(* sizes; the last one is terminal.                                        *)
(*                                                                         *)
(* recv's Closed arm is not modelled: every attached stream holds the      *)
(* handle, and with it the channel's sender, so the arm cannot run.        *)
(***************************************************************************)
EXTENDS Integers, Sequences, SequencesExt, FiniteSets

CONSTANTS Clients,
          Policies,     \* which of "Ephemeral", "Detached" the run may have
          MaxFrames,    \* MAX_FRAMES: frames the ring holds
          MaxBytes,     \* MAX_BYTES: and bytes
          BroadcastCap, \* BROADCAST_CAP: frames the channel keeps for a slow receiver
          Sizes,        \* the payload sizes frames may have
          MaxPushed,    \* bound: frames before the last ones
          MaxReattach   \* bound: times a client comes back

ASSUME StreamAssumption ==
    /\ Policies \subseteq {"Ephemeral", "Detached"}
    /\ MaxFrames \in Nat \ {0} /\ BroadcastCap \in Nat \ {0}
    /\ BroadcastCap < MaxFrames
    /\ MaxBytes \in Nat /\ Sizes \subseteq Nat \ {0} /\ Sizes # {}
    /\ MaxPushed \in Nat /\ MaxReattach \in Nat

VARIABLES
    policy,     \* the run's RunPolicy
    first,      \* RunBuffer: lowest number still held
    ring,       \* RunBuffer: the sizes of the frames held, oldest first
    state,      \* RunBuffer: the RunState
    last,       \* the number of the terminal frame, 0 before it is pushed
    cast,       \* the number of the last frame sent on the channel
    token,      \* the cancellation token: not fired, fired before or after the last frame
    registered, \* whether the registry still holds the run
    turn,       \* where the turn's task is
    why,        \* why the turn's loop was left
    sub,        \* sub[c]: the stream serving client c
    transcript, \* transcript[c]: the numbers c has received
    gaps,       \* gaps[c]: the numbers c was told its transcript goes on from
    returns     \* returns[c]: how often c has come back

buffer  == <<first, ring, state, last, cast>>
clients == <<sub, transcript, gaps, returns>>
vars    == <<policy, buffer, token, registered, turn, why, clients>>

RunStates  == {"Running", "Finished", "Failed", "Cancelled"}
TurnStates == {"setup", "select", "event", "tail", "goodbye", "closing", "errored", "ending", "over",
               "panicked"}

\* A stream: what it does, the next number its receiver reads, the last number it has sent, and
\* the part of a snapshot it has still to send.
Stream == [pc : {"away", "opening", "attaching", "replaying", "tailing"},
           rx : Nat, sent : Nat, from : Nat, upto : Nat]

Away == [pc |-> "away", rx |-> 0, sent |-> 0, from |-> 0, upto |-> 0]

NextSeq == first + Len(ring)

Attached == {c \in Clients : sub[c].pc \notin {"away", "opening"}}

\* The oldest frame the channel still has.
Oldest == IF cast > BroadcastCap THEN cast - BroadcastCap + 1 ELSE 1

Init ==
    /\ policy \in Policies
    /\ first = 1 /\ ring = <<>> /\ state = "Running" /\ last = 0 /\ cast = 0
    /\ token = "no"
    /\ registered = (policy = "Detached")
    /\ turn = "setup" /\ why = "none"
    /\ sub \in {[c \in Clients |-> IF c = o THEN [Away EXCEPT !.pc = "opening"] ELSE Away] :
                o \in Clients}
    /\ transcript = [c \in Clients |-> <<>>]
    /\ gaps = [c \in Clients |-> {}]
    /\ returns = [c \in Clients |-> 0]

-----------------------------------------------------------------------------
(* RunHandle.                                                              *)

Bytes(s) == FoldLeft(LAMBDA total, size : total + size, 0, s)

OverFull(s) == Len(s) > MaxFrames \/ (Bytes(s) > MaxBytes /\ Len(s) > 1)

\* Fault: a frame larger than the byte cap evicts itself.
EvictedToNothing(s) ==
    LET fits == {n \in 0..Len(s) : Len(s) - n <= MaxFrames
                                   /\ Bytes(SubSeq(s, n + 1, Len(s))) <= MaxBytes}
    IN  CHOOSE n \in fits : \A k \in fits : n <= k

\* How many frames push drops from the front: as few as make the rest fit.
Evicted(s) ==
    LET fits == {n \in 0..Len(s) : ~OverFull(SubSeq(s, n + 1, Len(s)))}
    IN  CHOOSE n \in fits : \A k \in fits : n <= k

\* The half of push under the lock.  The frames are pushed by the turn alone, one at a time.
Record(size, terminal) ==
    /\ cast = NextSeq - 1
    /\ LET held == Append(ring, size)
           gone == Evicted(held)
       IN  /\ ring' = SubSeq(held, gone + 1, Len(held))
           /\ first' = first + gone
    /\ last' = IF terminal THEN NextSeq ELSE last
    /\ UNCHANGED <<state, cast>>

\* The other half of push.
Send ==
    /\ cast < NextSeq - 1
    /\ cast' = cast + 1
    /\ UNCHANGED <<policy, first, ring, state, last, token, registered, turn, why, clients>>

\* Every push is through before the turn goes on.
Pushed == cast = NextSeq - 1

\* finish: the first terminal state wins.
Finish(s) == state' = IF state = "Running" THEN s ELSE state

-----------------------------------------------------------------------------
(* run_turn and drive_turn.                                                *)

\* Frames before the loop (a status), for an event, or while the answer is finished off.
TurnPushes ==
    /\ turn \in {"setup", "event", "tail"}
    /\ NextSeq <= MaxPushed
    /\ \E size \in Sizes : Record(size, FALSE)
    /\ UNCHANGED <<policy, token, registered, turn, why, clients>>

TurnGoesOn ==
    /\ turn \in {"setup", "event"} /\ Pushed
    /\ turn' = "select"
    /\ UNCHANGED <<policy, buffer, token, registered, why, clients>>

\* Fault: the error is recorded and no frame tells of it.
TurnFailsSilently ==
    /\ \/ turn = "setup" /\ Pushed
       \/ turn = "select" /\ token = "no"
    /\ turn' = "errored"
    /\ UNCHANGED <<policy, buffer, token, registered, why, clients>>

\* An error before the stream opened, or from the stream: a terminal frame, then Failed.
TurnFails ==
    /\ \/ turn = "setup"
       \/ turn = "select" /\ token = "no"
    /\ \E size \in Sizes : Record(size, TRUE)
    /\ turn' = "errored"
    /\ UNCHANGED <<policy, token, registered, why, clients>>

TurnFailed ==
    /\ turn = "errored" /\ Pushed
    /\ Finish("Failed")
    /\ turn' = "ending"
    /\ UNCHANGED <<policy, first, ring, last, cast, token, registered, why, clients>>

\* The loop's select, biased: a cancel goes before an event, the stream's end and the timeout.
NextEvent ==
    /\ turn = "select" /\ token = "no"
    /\ turn' = "event"
    /\ UNCHANGED <<policy, buffer, token, registered, why, clients>>

LoopEnds ==
    /\ turn = "select"
    /\ why' \in IF token = "no" THEN {"none", "timeout"} ELSE {"cancelled"}
    /\ turn' = "tail"
    /\ UNCHANGED <<policy, buffer, token, registered, clients>>

\* Fault: the closing frame is pushed before the ending is recorded.
TailToClosing ==
    /\ turn = "tail" /\ Pushed
    /\ turn' = IF why = "cancelled" THEN "goodbye" ELSE "closing"
    /\ UNCHANGED <<policy, buffer, token, registered, why, clients>>

\* The answer is reviewed and stored; an interrupted turn's ending is recorded before its last frame.
TailEnds ==
    /\ turn = "tail" /\ Pushed
    /\ CASE why = "cancelled" -> Finish("Cancelled") /\ turn' = "goodbye"
         [] why = "timeout"   -> Finish("Failed")    /\ turn' = "closing"
         [] why = "none"      -> state' = state      /\ turn' = "closing"
    /\ UNCHANGED <<policy, first, ring, last, cast, token, registered, why, clients>>

\* The cancelled frame, then the terminal one.
SayCancelled ==
    /\ turn = "goodbye"
    /\ \E size \in Sizes : Record(size, FALSE)
    /\ turn' = "closing"
    /\ UNCHANGED <<policy, token, registered, why, clients>>

SayDone ==
    /\ turn = "closing"
    /\ \E size \in Sizes : Record(size, TRUE)
    /\ turn' = "ending"
    /\ UNCHANGED <<policy, token, registered, why, clients>>

\* The end of run_turn.
TurnEnds ==
    /\ turn = "ending" /\ Pushed
    /\ Finish("Finished")
    /\ turn' = "over"
    /\ UNCHANGED <<policy, first, ring, last, cast, token, registered, why, clients>>

\* A panic unwinds the spawned task between two pushes: no last frame, and nobody calls finish.
TurnPanics ==
    /\ turn \notin {"over", "panicked"} /\ Pushed
    /\ turn' = "panicked"
    /\ UNCHANGED <<policy, buffer, token, registered, why, clients>>

\* The registry drops a finished run: its retention has passed, or a new turn replaced it.
Evict ==
    /\ registered /\ state # "Running"
    /\ registered' = FALSE
    /\ UNCHANGED <<policy, buffer, token, turn, why, clients>>

Fired == IF token # "no" THEN token ELSE IF last = 0 THEN "early" ELSE "late"

\* cancel_run, cancel_session_run: only for a run the registry finds.
Cancel ==
    /\ registered /\ state = "Running" /\ token = "no"
    /\ token' = Fired
    /\ UNCHANGED <<policy, buffer, registered, turn, why, clients>>

-----------------------------------------------------------------------------
(* attach_sse.                                                             *)

\* A snapshot after the number sent: a gap when the ring has rolled past it.
Snapshot(c, s) ==
    /\ sub' = [sub EXCEPT ![c] = [s EXCEPT !.pc = "replaying",
                                           !.from = IF s.sent + 1 < first THEN first ELSE s.sent + 1,
                                           !.upto = NextSeq - 1]]
    /\ gaps' = [gaps EXCEPT ![c] = IF s.sent + 1 < first THEN @ \cup {first} ELSE @]
    /\ UNCHANGED <<transcript, returns>>

Subscribed(after) == [Away EXCEPT !.pc = "attaching", !.rx = cast + 1, !.sent = after]

\* The request that started the turn attaches to it; the task is already running.
Open(c) ==
    /\ sub[c].pc = "opening"
    /\ sub' = [sub EXCEPT ![c] = Subscribed(0)]
    /\ UNCHANGED <<policy, buffer, token, registered, turn, why, transcript, gaps, returns>>

\* A client comes back with the number it has read up to, or as a new window with none.
Reattach(c) ==
    /\ registered /\ sub[c].pc = "away" /\ returns[c] < MaxReattach
    /\ returns' = [returns EXCEPT ![c] = @ + 1]
    /\ \/ /\ sub' = [sub EXCEPT ![c] = Subscribed(IF transcript[c] = <<>> THEN 0 ELSE Last(transcript[c]))]
          /\ UNCHANGED <<transcript, gaps>>
       \/ /\ transcript[c] # <<>>
          /\ sub' = [sub EXCEPT ![c] = Subscribed(0)]
          /\ transcript' = [transcript EXCEPT ![c] = <<>>]
          /\ gaps' = [gaps EXCEPT ![c] = {}]
    /\ UNCHANGED <<policy, buffer, token, registered, turn, why>>

\* The subscription came first, in Open or Reattach.
ReadRing(c) ==
    /\ sub[c].pc = "attaching"
    /\ Snapshot(c, sub[c])
    /\ UNCHANGED <<policy, buffer, token, registered, turn, why>>

\* AttachGuard's drop: the last one out fires an ephemeral run's token.
Detached(c) ==
    /\ sub' = [sub EXCEPT ![c] = Away]
    /\ token' = IF Attached = {c} /\ policy = "Ephemeral" /\ state = "Running"
                THEN Fired ELSE token

Deliver(c, n, s) ==
    /\ transcript' = [transcript EXCEPT ![c] = Append(@, n)]
    /\ IF n = last THEN Detached(c) ELSE sub' = [sub EXCEPT ![c] = s] /\ UNCHANGED token
    /\ UNCHANGED <<gaps, returns>>

\* Fault: the channel is joined after the snapshot was sent.
ReplayThenSubscribe(c) ==
    /\ sub[c].pc = "replaying"
    /\ IF sub[c].from <= sub[c].upto
       THEN Deliver(c, sub[c].from, [sub[c] EXCEPT !.sent = sub[c].from, !.from = @ + 1])
       ELSE /\ sub' = [sub EXCEPT ![c].pc = "tailing", ![c].rx = cast + 1, ![c].from = 0, ![c].upto = 0]
            /\ UNCHANGED <<token, transcript, gaps, returns>>
    /\ UNCHANGED <<policy, buffer, registered, turn, why>>

\* The frames of a snapshot, one by one, then the tail.
Replay(c) ==
    /\ sub[c].pc = "replaying"
    /\ IF sub[c].from <= sub[c].upto
       THEN Deliver(c, sub[c].from, [sub[c] EXCEPT !.sent = sub[c].from, !.from = @ + 1])
       ELSE /\ sub' = [sub EXCEPT ![c].pc = "tailing", ![c].from = 0, ![c].upto = 0]
            /\ UNCHANGED <<token, transcript, gaps, returns>>
    /\ UNCHANGED <<policy, buffer, registered, turn, why>>

Receive(c) ==
    /\ sub[c].pc = "tailing" /\ sub[c].rx \in Oldest..cast
    /\ IF sub[c].rx <= sub[c].sent
       THEN /\ sub' = [sub EXCEPT ![c].rx = @ + 1]
            /\ UNCHANGED <<token, transcript, gaps, returns>>
       ELSE Deliver(c, sub[c].rx, [sub[c] EXCEPT !.sent = sub[c].rx, !.rx = @ + 1])
    /\ UNCHANGED <<policy, buffer, registered, turn, why>>

\* RecvError::Lagged: what the channel dropped is read from the ring again.
Lagged(c) ==
    /\ sub[c].pc = "tailing" /\ sub[c].rx < Oldest
    /\ Snapshot(c, [sub[c] EXCEPT !.rx = Oldest])
    /\ UNCHANGED <<policy, buffer, token, registered, turn, why>>

\* The connection drops.
Leave(c) ==
    /\ c \in Attached
    /\ Detached(c)
    /\ UNCHANGED <<policy, buffer, registered, turn, why, transcript, gaps, returns>>

TurnStep == \/ TurnPushes \/ Send \/ TurnGoesOn \/ TurnFails \/ TurnFailed
            \/ NextEvent \/ LoopEnds \/ TailEnds \/ SayCancelled \/ SayDone \/ TurnEnds

ServeStep(c) == Open(c) \/ ReadRing(c) \/ Replay(c) \/ Receive(c) \/ Lagged(c)

Next ==
    \/ TurnStep
    \/ TurnPanics
    \/ Evict
    \/ Cancel
    \/ \E c \in Clients : ServeStep(c) \/ Reattach(c) \/ Leave(c)

Spec == Init /\ [][Next]_vars

\* The turn's task goes on, its events come to an end (the agent's turns are budgeted and silence
\* times out), and every stream that is read goes on.  Nothing is assumed of clients, cancels,
\* panics or the registry.
FairSpec ==
    /\ Spec
    /\ WF_vars(TurnStep) /\ SF_vars(LoopEnds)
    /\ \A c \in Clients : WF_vars(ServeStep(c))

-----------------------------------------------------------------------------
TypeOK ==
    /\ policy \in Policies /\ state \in RunStates /\ turn \in TurnStates
    /\ why \in {"none", "cancelled", "timeout"} /\ token \in {"no", "early", "late"}
    /\ registered \in BOOLEAN
    /\ first \in Nat \ {0} /\ ring \in Seq(Sizes) /\ last \in Nat /\ cast \in Nat
    /\ Len(ring) <= MaxFrames /\ cast \in {NextSeq - 2, NextSeq - 1}
    /\ sub \in [Clients -> Stream]
    /\ transcript \in [Clients -> Seq(Nat)]
    /\ gaps \in [Clients -> SUBSET Nat]
    /\ returns \in [Clients -> Nat]

\* Whatever the interleaving of pushes, sends, subscriptions and re-reads, a client is sent each
\* frame once and in order, and a hole only after a replay_gap that names where it ends.
NoSilentHole ==
    \A c \in Clients : \A i \in 1..Len(transcript[c]) :
        LET before == IF i = 1 THEN 0 ELSE transcript[c][i - 1]
        IN  \/ transcript[c][i] = before + 1
            \/ transcript[c][i] > before /\ transcript[c][i] \in gaps[c]

\* However large the last frame, the ring keeps it: a client that comes back after the end can
\* still be told how the turn ended.
EndIsReplayable == last # 0 => last \in first..(NextSeq - 1)

\* The ring stays within its caps, whatever is pushed, and keeps the end.
RingIsSound == TypeOK /\ EndIsReplayable /\ ~OverFull(ring)

\* drive_turn: "Set the terminal state before the final frame, so the discovery route and frame
\* agree": once an interrupted turn's last frame can be read, its state says so.
InterruptedAgrees ==
    last # 0 /\ why = "cancelled" => state = "Cancelled"

\* Liveness: a client that follows the turn is sent its last frame, or leaves, however the turn
\* ends and however far behind the client is, unless the turn's task has panicked before that
\* frame: then nothing is ever said.
FollowerSeesTheEnd ==
    \A c \in Clients :
        LET told == last # 0 /\ sub[c].sent = last
        IN  (c \in Attached /\ ~told)
                ~> (c \notin Attached \/ told \/ (turn = "panicked" /\ last = 0))

\* runs.rs on BROADCAST_CAP: "whatever a lagging subscriber misses is still in the ring".
LaggedIsInTheRing ==
    \A c \in Clients : sub[c].pc = "tailing" /\ sub[c].rx < Oldest => sub[c].sent + 1 >= first

\* routes.rs on Closed: "The handle was dropped under an attached client; say so rather than go
\* silent."  A client still attached to a run the registry has dropped hears of it.
EvictionIsTold ==
    \A c \in Clients :
        (policy = "Detached" /\ ~registered /\ sub[c].pc = "tailing") ~> (sub[c].pc # "tailing")

\* docs/api.md on POST /chat/runs/{run_id}/cancel: "stop the run".
CancelStopsTheRun == turn = "over" /\ token = "early" => state # "Finished"
=============================================================================
