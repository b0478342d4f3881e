--------------------------- MODULE RunStreamProofs ---------------------------
(***************************************************************************)
(* Theorems about RunStream, for every set of clients, every size of the   *)
(* ring and of the channel, and every set of frame sizes.                  *)
(***************************************************************************)
EXTENDS RunStream, SequenceTheorems, WellFoundedInduction, TLAPS

\* A set of numbers that is not empty has a least one.
LEMMA LeastOf ==
  ASSUME NEW S \in SUBSET Nat, S # {}
  PROVE  \E n \in S : \A k \in S : n <= k
<1>1. PICK n \in S : \A k \in S : ~(<<k, n>> \in OpToRel(<, Nat))
  BY WFMin, NatLessThanWellFounded
<1>2. ASSUME NEW k \in S PROVE n <= k
  <2>1. n \in Nat /\ k \in Nat /\ ~(k < n)
    BY <1>1 DEF OpToRel
  <2> QED
    BY <2>1
<1> QED
  BY <1>2

\* push evicts until the ring fits, and never the frame it has just pushed.
LEMMA EvictionFits ==
  ASSUME NEW s \in Seq(Sizes), Len(s) >= 1
  PROVE  /\ Evicted(s) \in 0..(Len(s) - 1)
         /\ SubSeq(s, Evicted(s) + 1, Len(s)) \in Seq(Sizes)
         /\ Len(SubSeq(s, Evicted(s) + 1, Len(s))) = Len(s) - Evicted(s)
         /\ ~OverFull(SubSeq(s, Evicted(s) + 1, Len(s)))
<1> DEFINE Rest(n) == SubSeq(s, n + 1, Len(s))
           fits    == {n \in 0..Len(s) : ~OverFull(Rest(n))}
<1>0. Len(s) \in Nat
  BY LenProperties
<1>1. ASSUME NEW n \in 0..Len(s) PROVE Rest(n) \in Seq(Sizes) /\ Len(Rest(n)) = Len(s) - n
  <2>1. \A i \in (n + 1)..Len(s) : s[i] \in Sizes
    BY <1>0, ElementOfSeq
  <2> QED
    BY <1>0, <2>1, SubSeqProperties
<1> HIDE DEF Rest
<1>2. Len(s) - 1 \in fits
  <2>a. Len(s) - 1 \in 0..Len(s)
    BY <1>0
  <2>b. Len(Rest(Len(s) - 1)) = Len(s) - (Len(s) - 1)
    BY <1>1, <2>a
  <2>1. Len(s) - 1 \in 0..Len(s) /\ Len(Rest(Len(s) - 1)) = 1
    BY <1>0, <2>a, <2>b
  <2>c. ASSUME NEW x, Len(x) = 1 PROVE ~OverFull(x)
    BY <2>c, StreamAssumption DEF OverFull
  <2>2. ~OverFull(Rest(Len(s) - 1))
    BY <2>1, <2>c
  <2> QED
    BY <2>1, <2>2
<1>3. fits \subseteq 0..Len(s) /\ fits \subseteq Nat
  BY <1>0
<1>4. Evicted(s) = CHOOSE n \in fits : \A k \in fits : n <= k
  BY DEF Evicted, Rest
<1>5. (\A n \in fits : ~OverFull(Rest(n)))
  OBVIOUS
<1> HIDE DEF fits
<1>6. \E n \in fits : \A k \in fits : n <= k
  BY <1>2, <1>3, LeastOf
<1>7. Evicted(s) \in fits /\ \A k \in fits : Evicted(s) <= k
  BY <1>4, <1>6
<1>8. Evicted(s) \in 0..Len(s) /\ Evicted(s) <= Len(s) - 1
  BY <1>2, <1>3, <1>7
<1>9. Evicted(s) \in 0..(Len(s) - 1)
  BY <1>0, <1>8
<1> QED
  BY <1>1, <1>5, <1>7, <1>8, <1>9 DEF Rest

-----------------------------------------------------------------------------
(* The ring and the turn.                                                  *)

\* A ring that has rolled is not empty, and the channel is at most one frame behind it.
RingOK ==
  /\ first \in Nat \ {0} /\ ring \in Seq(Sizes) /\ last \in Nat /\ cast \in Nat
  /\ ~OverFull(ring)
  /\ cast \in {NextSeq - 2, NextSeq - 1}
  /\ first > 1 => Len(ring) > 0

\* What the turn's task knows of the ending, place by place.
TurnOK ==
  /\ policy \in Policies /\ state \in RunStates /\ turn \in TurnStates
  /\ why \in {"none", "cancelled", "timeout"} /\ token \in {"no", "early", "late"}
  /\ turn \in {"setup", "select", "event", "tail", "goodbye", "closing"} => last = 0
  /\ turn \in {"errored", "ending", "over"} => last \in first..(NextSeq - 1)
  /\ turn \in {"setup", "select", "event", "tail", "errored"} => state = "Running"
  /\ turn \in {"setup", "select", "event", "errored"} => why = "none"
  /\ why = "cancelled" /\ turn \in {"goodbye", "closing", "ending", "over"} => state = "Cancelled"
  /\ turn = "panicked" => \/ last = 0
                          \/ last \in first..(NextSeq - 1) /\ (why = "cancelled" => state = "Cancelled")

LEMMA RingInit == Init => RingOK /\ TurnOK
<1> SUFFICES ASSUME Init PROVE RingOK /\ TurnOK
  OBVIOUS
<1>1. ring \in Seq(Sizes) /\ Len(ring) = 0
  BY EmptySeq DEF Init
<1>2. ~OverFull(ring)
  BY <1>1, StreamAssumption DEF OverFull
<1>3. RingOK
  BY <1>1, <1>2 DEF Init, RingOK, NextSeq
<1>4. TurnOK
  BY <1>1 DEF Init, TurnOK, RunStates, TurnStates
<1> QED
  BY <1>3, <1>4

\* The half of push under the lock.
LEMMA RecordKeeps ==
  ASSUME RingOK, NEW size \in Sizes, NEW terminal \in BOOLEAN, Record(size, terminal)
  PROVE  /\ RingOK' /\ NextSeq' = NextSeq + 1 /\ first' >= first
         /\ last' = IF terminal THEN NextSeq ELSE last
         /\ NextSeq \in first'..(NextSeq' - 1) /\ UNCHANGED <<state, cast>>
<1> DEFINE held == Append(ring, size)
           gone == Evicted(held)
<1>1. held \in Seq(Sizes) /\ Len(held) = Len(ring) + 1 /\ Len(ring) \in Nat
  BY AppendProperties, LenProperties DEF RingOK
<1>2. /\ gone \in 0..(Len(held) - 1)
      /\ SubSeq(held, gone + 1, Len(held)) \in Seq(Sizes)
      /\ Len(SubSeq(held, gone + 1, Len(held))) = Len(held) - gone
      /\ ~OverFull(SubSeq(held, gone + 1, Len(held)))
  <2> HIDE DEF held
  <2> QED
    BY <1>1, EvictionFits
<1>3. /\ ring' = SubSeq(held, gone + 1, Len(held)) /\ first' = first + gone
      /\ last' = (IF terminal THEN NextSeq ELSE last) /\ UNCHANGED <<state, cast>>
      /\ cast = NextSeq - 1
  BY DEF Record
<1> HIDE DEF held, gone
<1>4. ring' \in Seq(Sizes) /\ Len(ring') = Len(ring) + 1 - gone /\ gone \in Nat /\ gone <= Len(ring)
  BY <1>1, <1>2, <1>3
<1>5. /\ first \in Nat \ {0} /\ first' \in Nat \ {0} /\ first' >= first /\ Len(ring') > 0
      /\ NextSeq' = NextSeq + 1 /\ NextSeq \in Nat
  BY <1>1, <1>3, <1>4 DEF RingOK, NextSeq
<1>6. NextSeq \in first'..(NextSeq' - 1)
  BY <1>1, <1>3, <1>4, <1>5 DEF NextSeq
<1>7. (~OverFull(ring))'
  BY <1>2, <1>3, Zenon DEF OverFull, Bytes, FoldLeft, MapThenFoldSet
<1>8. last' \in Nat /\ cast' \in Nat /\ cast' \in {NextSeq' - 2, NextSeq' - 1}
  BY <1>3, <1>5 DEF RingOK
<1> QED
  BY <1>3, <1>4, <1>5, <1>6, <1>7, <1>8 DEF RingOK

\* A step that records a frame and goes to another place.
LEMMA TurnRecords ==
  ASSUME RingOK, TurnOK, TurnPushes \/ TurnFails \/ SayCancelled \/ SayDone
  PROVE  RingOK' /\ TurnOK' /\ NextSeq' >= NextSeq /\ first' >= first
<1>0. NextSeq \in Nat \ {0}
  BY LenProperties DEF RingOK, NextSeq
<1> DEFINE Grown(terminal) ==
             /\ RingOK' /\ NextSeq' = NextSeq + 1 /\ first' >= first
             /\ last' = IF terminal THEN NextSeq ELSE last
             /\ NextSeq \in first'..(NextSeq' - 1) /\ UNCHANGED <<state, cast>>
<1>1. ASSUME NEW size \in Sizes, NEW terminal \in BOOLEAN, Record(size, terminal) PROVE Grown(terminal)
  BY <1>1, RecordKeeps
<1> HIDE DEF Grown
<1>2. CASE TurnPushes
  <2>1. Grown(FALSE)
    BY <1>1, <1>2 DEF TurnPushes
  <2>2. UNCHANGED <<policy, token, turn, why>> /\ turn \in {"setup", "event", "tail"}
    BY <1>2 DEF TurnPushes
  <2> QED
    BY <1>0, <2>1, <2>2 DEF Grown, TurnOK
<1>3. CASE TurnFails
  <2>1. Grown(TRUE)
    BY <1>1, <1>3 DEF TurnFails
  <2>2. UNCHANGED <<policy, token, why>> /\ turn \in {"setup", "select"} /\ turn' = "errored"
    BY <1>3 DEF TurnFails
  <2> QED
    BY <1>0, <2>1, <2>2 DEF Grown, TurnOK, TurnStates
<1>4. CASE SayCancelled
  <2>1. Grown(FALSE)
    BY <1>1, <1>4 DEF SayCancelled
  <2>2. UNCHANGED <<policy, token, why>> /\ turn = "goodbye" /\ turn' = "closing"
    BY <1>4 DEF SayCancelled
  <2> QED
    BY <1>0, <2>1, <2>2 DEF Grown, TurnOK, TurnStates
<1>5. CASE SayDone
  <2>1. Grown(TRUE)
    BY <1>1, <1>5 DEF SayDone
  <2>2. UNCHANGED <<policy, token, why>> /\ turn = "closing" /\ turn' = "ending"
    BY <1>5 DEF SayDone
  <2> QED
    BY <1>0, <2>1, <2>2 DEF Grown, TurnOK, TurnStates
<1> QED
  BY <1>2, <1>3, <1>4, <1>5

\* The ring keeps as long as its variables do.
LEMMA RingStays ==
  ASSUME RingOK, UNCHANGED <<first, ring, last, cast>>
  PROVE  RingOK' /\ NextSeq' = NextSeq /\ NextSeq \in Nat
<1>1. NextSeq' = NextSeq /\ NextSeq \in Nat
  BY LenProperties DEF RingOK, NextSeq
<1>2. (~OverFull(ring))'
  BY Zenon DEF RingOK, OverFull, Bytes, FoldLeft, MapThenFoldSet
<1> QED
  BY <1>1, <1>2 DEF RingOK

\* Every step keeps the ring and what the turn knows; frames are numbered upwards.
LEMMA RingNext ==
  ASSUME RingOK, TurnOK, [Next]_vars
  PROVE  RingOK' /\ TurnOK' /\ NextSeq' >= NextSeq /\ first' >= first
<1>0. NextSeq \in Nat /\ NextSeq >= NextSeq /\ first >= first
  BY LenProperties DEF RingOK, NextSeq
<1>1. CASE TurnPushes \/ TurnFails \/ SayCancelled \/ SayDone
  BY <1>1, TurnRecords
<1>2. CASE Send
  <2>1. UNCHANGED <<policy, first, ring, state, last, token, turn, why>>
    BY <1>2 DEF Send
  <2>2. NextSeq' = NextSeq
    BY <2>1 DEF NextSeq
  <2>3. cast' \in Nat /\ cast' \in {NextSeq' - 2, NextSeq' - 1}
    BY <1>0, <1>2, <2>2 DEF Send, RingOK
  <2>4. (~OverFull(ring))'
    BY <2>1, Zenon DEF RingOK, OverFull, Bytes, FoldLeft, MapThenFoldSet
  <2> QED
    BY <1>0, <2>1, <2>2, <2>3, <2>4 DEF RingOK, TurnOK
<1>3. ASSUME UNCHANGED <<first, ring, last, cast>>, TurnOK' PROVE RingOK' /\ TurnOK' /\ NextSeq' >= NextSeq /\ first' >= first
  BY <1>0, <1>3, RingStays
<1>4. CASE TurnGoesOn \/ NextEvent \/ TurnPanics
  <2>1. UNCHANGED <<first, ring, last, cast>>
    BY <1>4 DEF TurnGoesOn, NextEvent, TurnPanics, buffer
  <2>2. NextSeq' = NextSeq
    BY <2>1 DEF NextSeq
  <2>3. TurnOK'
    BY <1>4, <2>2 DEF TurnGoesOn, NextEvent, TurnPanics, TurnOK, TurnStates, buffer
  <2> QED
    BY <1>3, <2>1, <2>3
<1>5. CASE LoopEnds
  <2>1. UNCHANGED <<first, ring, last, cast>>
    BY <1>5 DEF LoopEnds, buffer
  <2>2. TurnOK'
    BY <1>5 DEF LoopEnds, TurnOK, TurnStates, buffer
  <2> QED
    BY <1>3, <2>1, <2>2
<1>6. CASE TailEnds
  <2>1. UNCHANGED <<first, ring, last, cast, policy, token, why>> /\ turn = "tail"
    BY <1>6 DEF TailEnds
  <2>2. \/ why = "cancelled" /\ state' = "Cancelled" /\ turn' = "goodbye"
        \/ why = "timeout" /\ state' = "Failed" /\ turn' = "closing"
        \/ why = "none" /\ state' = state /\ turn' = "closing"
    BY <1>6, <2>1 DEF TailEnds, Finish, TurnOK
  <2>3. TurnOK'
    BY <2>1, <2>2 DEF TurnOK, TurnStates, RunStates
  <2> QED
    BY <1>3, <2>1, <2>3
<1>7. CASE TurnFailed \/ TurnEnds
  <2>1. UNCHANGED <<first, ring, last, cast, policy, token, why>>
    BY <1>7 DEF TurnFailed, TurnEnds
  <2>2. NextSeq' = NextSeq
    BY <2>1 DEF NextSeq
  <2>3. TurnOK'
    BY <1>7, <2>1, <2>2 DEF TurnFailed, TurnEnds, Finish, TurnOK, TurnStates, RunStates
  <2> QED
    BY <1>3, <2>1, <2>3
<1>8. ASSUME UNCHANGED <<policy, buffer, turn, why>>, token' \in {"no", "early", "late"}
      PROVE  RingOK' /\ TurnOK' /\ NextSeq' >= NextSeq /\ first' >= first
  <2>1. UNCHANGED <<first, ring, last, cast, state>>
    BY <1>8 DEF buffer
  <2>2. NextSeq' = NextSeq
    BY <2>1 DEF NextSeq
  <2>3. TurnOK'
    BY <1>8, <2>1, <2>2 DEF TurnOK
  <2> QED
    BY <1>3, <2>1, <2>3
<1>9. ASSUME \/ Evict \/ Cancel \/ UNCHANGED vars
             \/ \E c \in Clients : ServeStep(c) \/ Reattach(c) \/ Leave(c)
      PROVE  UNCHANGED <<policy, buffer, turn, why>> /\ token' \in {"no", "early", "late"}
  <2>1. token \in {"no", "early", "late"} /\ Fired \in {"no", "early", "late"}
    BY DEF TurnOK, Fired
  <2>2. ASSUME NEW c \in Clients, Detached(c) PROVE token' \in {"no", "early", "late"}
    BY <2>1, <2>2 DEF Detached
  <2>3. ASSUME NEW c \in Clients, NEW n, NEW s, Deliver(c, n, s) PROVE token' \in {"no", "early", "late"}
    BY <2>1, <2>2, <2>3 DEF Deliver
  <2>4. ASSUME NEW c \in Clients, ServeStep(c) \/ Reattach(c) \/ Leave(c)
        PROVE  UNCHANGED <<policy, buffer, turn, why>> /\ token' \in {"no", "early", "late"}
    BY <2>1, <2>2, <2>3, <2>4 DEF ServeStep, Open, ReadRing, Replay, Receive, Lagged, Reattach, Leave
  <2> QED
    BY <1>9, <2>1, <2>4 DEF Evict, Cancel, vars
<1> QED
  BY <1>1, <1>2, <1>4, <1>5, <1>6, <1>7, <1>8, <1>9 DEF Next, TurnStep

-----------------------------------------------------------------------------
(* The clients.                                                            *)

\* The last number of a transcript, 0 for none.
LastOf(tr) == IF tr = <<>> THEN 0 ELSE Last(tr)

\* NoSilentHole for one transcript.
HoleFree(tr, g) ==
  \A i \in 1..Len(tr) :
    LET before == IF i = 1 THEN 0 ELSE tr[i - 1]
    IN  tr[i] = before + 1 \/ (tr[i] > before /\ tr[i] \in g)

\* What holds between a stream, its client's transcript and the next number of the ring: the
\* stream has sent exactly the transcript; what it will send next goes on from there or from a gap
\* it has announced; and its receiver has missed nothing that the ring does not yet give it.
Follows(x, tr, g, next) ==
  /\ x.pc # "away" => x.sent = LastOf(tr)
  /\ x.pc = "opening" => x.sent = 0
  /\ x.pc = "attaching" => x.rx <= next
  /\ x.pc = "replaying" => /\ x.rx <= x.upto + 1
                           /\ \/ x.from = x.sent + 1
                              \/ x.from > x.sent /\ x.from \in g /\ x.from <= x.upto
  /\ x.pc = "tailing" => x.rx <= x.sent + 1

ClientsOK ==
  /\ sub \in [Clients -> Stream]
  /\ transcript \in [Clients -> Seq(Nat)]
  /\ gaps \in [Clients -> SUBSET Nat]
  /\ returns \in [Clients -> Nat]
  /\ \A c \in Clients : HoleFree(transcript[c], gaps[c]) /\ Follows(sub[c], transcript[c], gaps[c], NextSeq)

\* A frame that goes on from the transcript, or from an announced gap, leaves no silent hole.
LEMMA AppendKeeps ==
  ASSUME NEW tr \in Seq(Nat), NEW g \in SUBSET Nat, NEW n \in Nat, HoleFree(tr, g),
         n = LastOf(tr) + 1 \/ (n > LastOf(tr) /\ n \in g)
  PROVE  Append(tr, n) \in Seq(Nat) /\ HoleFree(Append(tr, n), g) /\ LastOf(Append(tr, n)) = n
<1> DEFINE s == Append(tr, n)
<1>1. /\ s \in Seq(Nat) /\ Len(s) = Len(tr) + 1 /\ Len(tr) \in Nat
      /\ \A i \in 1..Len(tr) : s[i] = tr[i]
      /\ s[Len(tr) + 1] = n
  BY AppendProperties, LenProperties
<1>2. LastOf(tr) = IF Len(tr) = 0 THEN 0 ELSE tr[Len(tr)]
  BY EmptySeq DEF LastOf, Last
<1> HIDE DEF s
<1>3. LastOf(s) = n
  <2>1. s # <<>>
    BY <1>1, EmptySeq
  <2> QED
    BY <1>1, <2>1 DEF LastOf, Last
<1>4. HoleFree(s, g)
  <2> SUFFICES ASSUME NEW i \in 1..Len(s)
               PROVE  LET before == IF i = 1 THEN 0 ELSE s[i - 1]
                      IN  s[i] = before + 1 \/ (s[i] > before /\ s[i] \in g)
    BY DEF HoleFree
  <2>1. CASE i \in 1..Len(tr)
    <3>0. i # 1 => i - 1 \in 1..Len(tr)
      BY <1>1, <2>1
    <3>1. s[i] = tr[i] /\ (i # 1 => s[i - 1] = tr[i - 1])
      BY <1>1, <2>1, <3>0
    <3> QED
      BY <2>1, <3>1 DEF HoleFree
  <2>2. CASE i = Len(tr) + 1
    <3>1. (IF i = 1 THEN 0 ELSE s[i - 1]) = LastOf(tr)
      BY <1>1, <1>2, <2>2
    <3> QED
      BY <1>1, <2>2, <3>1
  <2> QED
    BY <1>1, <2>1, <2>2
<1> QED
  BY <1>1, <1>3, <1>4 DEF s

\* A step that touches one client's stream keeps the others as they are, while frames are numbered
\* upwards.
LEMMA OneClient ==
  ASSUME ClientsOK, NEW c \in Clients, NEW x \in Stream, NEW tr \in Seq(Nat), NEW g \in SUBSET Nat,
         HoleFree(tr, g), Follows(x, tr, g, NextSeq),
         sub' = [sub EXCEPT ![c] = x], transcript' = [transcript EXCEPT ![c] = tr],
         gaps' = [gaps EXCEPT ![c] = g], returns' \in [Clients -> Nat], NextSeq' = NextSeq
  PROVE  ClientsOK'
<1>1. /\ sub' \in [Clients -> Stream] /\ transcript' \in [Clients -> Seq(Nat)]
      /\ gaps' \in [Clients -> SUBSET Nat]
  BY DEF ClientsOK
<1>2. ASSUME NEW d \in Clients
      PROVE  HoleFree(transcript'[d], gaps'[d]) /\ Follows(sub'[d], transcript'[d], gaps'[d], NextSeq')
  <2>1. CASE d = c
    BY <2>1 DEF ClientsOK
  <2>2. CASE d # c
    <3>1. sub'[d] = sub[d] /\ transcript'[d] = transcript[d] /\ gaps'[d] = gaps[d]
      BY <2>2 DEF ClientsOK
    <3> QED
      BY <3>1 DEF ClientsOK
  <2> QED
    BY <2>1, <2>2
<1> QED
  BY <1>1, <1>2 DEF ClientsOK, HoleFree, Follows, LastOf, Last

\* Steps of the turn, the registry and the operator leave the clients alone.
LEMMA ClientsStay ==
  ASSUME ClientsOK, UNCHANGED clients, NextSeq \in Nat, NextSeq' \in Nat, NextSeq' >= NextSeq
  PROVE  ClientsOK'
<1>1. \A c \in Clients : sub[c].rx \in Nat
  BY DEF ClientsOK, Stream
<1>2. ASSUME NEW c \in Clients PROVE Follows(sub[c], transcript[c], gaps[c], NextSeq')
  <2>1. Follows(sub[c], transcript[c], gaps[c], NextSeq) /\ sub[c].rx \in Nat
    BY <1>1 DEF ClientsOK
  <2>2. sub[c].pc = "attaching" => sub[c].rx <= NextSeq'
    BY <2>1 DEF Follows
  <2> QED
    BY <2>1, <2>2 DEF Follows
<1>3. UNCHANGED <<sub, transcript, gaps, returns>>
  BY DEF clients
<1> QED
  BY <1>2, <1>3 DEF ClientsOK, HoleFree, Follows, LastOf, Last

\* A snapshot goes on from what was sent, or announces the gap it starts after.
LEMMA SnapshotKeeps ==
  ASSUME RingOK, ClientsOK, NEW c \in Clients, NEW s \in Stream, Snapshot(c, s), NextSeq' = NextSeq,
         s.sent = LastOf(transcript[c]), s.rx <= NextSeq
  PROVE  ClientsOK'
<1>0. /\ first \in Nat \ {0} /\ NextSeq \in Nat \ {0} /\ (first > 1 => first <= NextSeq - 1)
      /\ s.sent \in Nat /\ s.rx \in Nat
  BY LenProperties DEF RingOK, NextSeq, Stream
<1> DEFINE from == IF s.sent + 1 < first THEN first ELSE s.sent + 1
           x    == [s EXCEPT !.pc = "replaying", !.from = from, !.upto = NextSeq - 1]
           g    == IF s.sent + 1 < first THEN gaps[c] \cup {first} ELSE gaps[c]
<1>1. /\ transcript[c] \in Seq(Nat) /\ gaps[c] \in SUBSET Nat /\ g \in SUBSET Nat
      /\ HoleFree(transcript[c], gaps[c])
  BY <1>0 DEF ClientsOK
<1>a. from \in Nat /\ NextSeq - 1 \in Nat
  BY <1>0
<1>2. /\ x \in Stream
      /\ x.pc = "replaying" /\ x.from = from /\ x.upto = NextSeq - 1 /\ x.sent = s.sent /\ x.rx = s.rx
  <2> DEFINE upto == NextSeq - 1
  <2>1. x = [s EXCEPT !.pc = "replaying", !.from = from, !.upto = upto] /\ upto \in Nat
    BY <1>a
  <2> HIDE DEF from, x, upto
  <2>2. x \in Stream
    BY <1>a, <2>1 DEF Stream
  <2> QED
    BY <1>a, <2>1, <2>2 DEF Stream, upto
<1>3. x.pc = "replaying" /\ x.from = from /\ x.upto = NextSeq - 1 /\ x.sent = s.sent /\ x.rx = s.rx
  BY <1>2
<1>4. gaps[c] \subseteq g
  OBVIOUS
<1>5. HoleFree(transcript[c], g)
  <2> HIDE DEF g
  <2> QED
    BY <1>1, <1>4 DEF HoleFree
<1>6. from = s.sent + 1 \/ (from > s.sent /\ from \in g /\ from <= NextSeq - 1)
  BY <1>0
<1>7. /\ sub' = [sub EXCEPT ![c] = x] /\ gaps' = [gaps EXCEPT ![c] = g]
      /\ transcript' = [transcript EXCEPT ![c] = transcript[c]] /\ returns' \in [Clients -> Nat]
  BY DEF Snapshot, ClientsOK
<1> HIDE DEF x, g, from
<1>8. Follows(x, transcript[c], g, NextSeq)
  BY <1>0, <1>3, <1>6 DEF Follows
<1> QED
  BY <1>1, <1>2, <1>5, <1>7, <1>8, OneClient

\* A frame that follows on is delivered; after the last one the client is away.
LEMMA DeliverKeeps ==
  ASSUME ClientsOK, NEW c \in Clients, NEW n \in Nat, NEW s \in Stream, Deliver(c, n, s),
         NextSeq' = NextSeq,
         n = LastOf(transcript[c]) + 1 \/ (n > LastOf(transcript[c]) /\ n \in gaps[c]),
         s.sent = n, s.pc = "replaying" => s.rx <= s.upto + 1 /\ s.from = n + 1,
         s.pc = "tailing" => s.rx <= n + 1, s.pc \in {"replaying", "tailing"}
  PROVE  ClientsOK'
<1> DEFINE tr == Append(transcript[c], n)
<1>1. /\ transcript[c] \in Seq(Nat) /\ gaps[c] \in SUBSET Nat
      /\ HoleFree(transcript[c], gaps[c])
  BY DEF ClientsOK
<1>2. tr \in Seq(Nat) /\ HoleFree(tr, gaps[c]) /\ LastOf(tr) = n
  BY <1>1, AppendKeeps
<1>3. /\ transcript' = [transcript EXCEPT ![c] = tr] /\ gaps' = [gaps EXCEPT ![c] = gaps[c]]
      /\ returns' \in [Clients -> Nat]
  BY DEF Deliver, ClientsOK
<1>4. sub' = [sub EXCEPT ![c] = Away] \/ sub' = [sub EXCEPT ![c] = s]
  BY DEF Deliver, Detached
<1> HIDE DEF tr
<1>5. Away \in Stream /\ Follows(Away, tr, gaps[c], NextSeq)
  BY DEF Away, Stream, Follows
<1>6. Follows(s, tr, gaps[c], NextSeq)
  BY <1>2 DEF Follows
<1> QED
  BY <1>1, <1>2, <1>3, <1>4, <1>5, <1>6, OneClient

\* What a stream sends keeps the transcript whole.
LEMMA ServeKeeps ==
  ASSUME RingOK, ClientsOK, NEW c \in Clients, ServeStep(c) \/ Reattach(c) \/ Leave(c)
  PROVE  ClientsOK'
<1>0. NextSeq' = NextSeq /\ NextSeq \in Nat \ {0} /\ cast \in Nat /\ cast + 1 <= NextSeq
  BY LenProperties DEF ServeStep, Open, ReadRing, Replay, Receive, Lagged, Reattach, Leave, buffer, RingOK,
                       NextSeq
<1> DEFINE x == sub[c]
<1>1. /\ x \in Stream /\ transcript[c] \in Seq(Nat) /\ gaps[c] \in SUBSET Nat
      /\ HoleFree(transcript[c], gaps[c]) /\ Follows(x, transcript[c], gaps[c], NextSeq)
      /\ x.rx \in Nat /\ x.sent \in Nat /\ x.from \in Nat /\ x.upto \in Nat
  BY DEF ClientsOK, Stream
<1>2. CASE ReadRing(c)
  BY <1>0, <1>1, <1>2, SnapshotKeeps DEF ReadRing, Follows
<1>3. CASE Replay(c)
  <2>1. CASE x.from <= x.upto
    <3> DEFINE s == [x EXCEPT !.sent = x.from, !.from = @ + 1]
    <3>1. s \in Stream /\ s.sent = x.from /\ s.from = x.from + 1 /\ s.pc = "replaying" /\ s.rx = x.rx /\ s.upto = x.upto
      <4>1. x.pc = "replaying" /\ x.from + 1 \in Nat /\ s = [x EXCEPT !.sent = x.from, !.from = x.from + 1]
        BY <1>1, <1>3 DEF Replay
      <4> DEFINE n == x.from
                 m == x.from + 1
      <4>2. s = [x EXCEPT !.sent = n, !.from = m] /\ n \in Nat /\ m \in Nat
        BY <1>1, <4>1
      <4> HIDE DEF s, x, n, m
      <4>3. s \in Stream
        BY <1>1, <4>2 DEF Stream
      <4>4. s.sent = n /\ s.from = m /\ s.pc = x.pc /\ s.rx = x.rx /\ s.upto = x.upto
        BY <1>1, <4>2 DEF Stream
      <4> QED
        BY <4>1, <4>3, <4>4 DEF n, m
    <3>2. Deliver(c, x.from, s)
      BY <1>3, <2>1 DEF Replay
    <3>3. /\ x.from = LastOf(transcript[c]) + 1 \/ (x.from > LastOf(transcript[c]) /\ x.from \in gaps[c])
          /\ x.rx <= x.upto + 1
      BY <1>1, <1>3 DEF Follows, Replay
    <3> HIDE DEF s
    <3> QED
      BY <1>0, <1>1, <3>1, <3>2, <3>3, DeliverKeeps
  <2>2. CASE ~(x.from <= x.upto)
    <3> DEFINE s == [x EXCEPT !.pc = "tailing", !.from = 0, !.upto = 0]
    <3>1. s \in Stream /\ s.pc = "tailing" /\ s.rx = x.rx /\ s.sent = x.sent
      BY <1>1 DEF Stream
    <3>2. /\ sub' = [sub EXCEPT ![c] = s] /\ transcript' = [transcript EXCEPT ![c] = transcript[c]]
          /\ gaps' = [gaps EXCEPT ![c] = gaps[c]] /\ returns' \in [Clients -> Nat]
      BY <1>3, <2>2 DEF Replay, ClientsOK
    <3>3. x.sent = LastOf(transcript[c]) /\ x.rx <= x.upto + 1 /\ x.from = x.sent + 1
      BY <1>1, <1>3, <2>2 DEF Follows, Replay
    <3> HIDE DEF s
    <3>4. Follows(s, transcript[c], gaps[c], NextSeq)
      BY <1>1, <2>2, <3>1, <3>3 DEF Follows
    <3> QED
      BY <1>0, <1>1, <3>1, <3>2, <3>4, OneClient
  <2> QED
    BY <2>1, <2>2
<1>4. CASE Receive(c)
  <2>0. x.pc = "tailing" /\ x.sent = LastOf(transcript[c]) /\ x.rx <= x.sent + 1
    BY <1>1, <1>4 DEF Receive, Follows
  <2>1. CASE x.rx <= x.sent
    <3> DEFINE s == [x EXCEPT !.rx = @ + 1]
    <3>1. s \in Stream /\ s.pc = "tailing" /\ s.rx = x.rx + 1 /\ s.sent = x.sent
      BY <1>1, <2>0 DEF Stream
    <3>2. /\ sub' = [sub EXCEPT ![c] = s] /\ transcript' = [transcript EXCEPT ![c] = transcript[c]]
          /\ gaps' = [gaps EXCEPT ![c] = gaps[c]] /\ returns' \in [Clients -> Nat]
      BY <1>4, <2>1 DEF Receive, ClientsOK
    <3> HIDE DEF s
    <3>3. Follows(s, transcript[c], gaps[c], NextSeq)
      BY <1>1, <2>0, <2>1, <3>1 DEF Follows
    <3> QED
      BY <1>0, <1>1, <3>1, <3>2, <3>3, OneClient
  <2>2. CASE ~(x.rx <= x.sent)
    <3> DEFINE s == [x EXCEPT !.sent = x.rx, !.rx = @ + 1]
    <3>1. s \in Stream /\ s.pc = "tailing" /\ s.rx = x.rx + 1 /\ s.sent = x.rx
      <4>1. x.rx + 1 \in Nat /\ s = [x EXCEPT !.sent = x.rx, !.rx = x.rx + 1]
        BY <1>1
      <4> DEFINE n == x.rx
                 m == x.rx + 1
      <4>2. s = [x EXCEPT !.sent = n, !.rx = m] /\ n \in Nat /\ m \in Nat
        BY <1>1, <4>1
      <4> HIDE DEF s, x, n, m
      <4>3. s \in Stream
        BY <1>1, <4>2 DEF Stream
      <4>4. s.sent = n /\ s.rx = m /\ s.pc = x.pc
        BY <1>1, <4>2 DEF Stream
      <4> QED
        BY <2>0, <4>3, <4>4 DEF n, m
    <3>2. Deliver(c, x.rx, s)
      BY <1>4, <2>2 DEF Receive
    <3>3. x.rx = LastOf(transcript[c]) + 1
      BY <1>1, <2>0, <2>2
    <3> HIDE DEF s
    <3> QED
      BY <1>0, <1>1, <3>1, <3>2, <3>3, DeliverKeeps
  <2> QED
    BY <2>1, <2>2
<1>5. CASE Lagged(c)
  <2> DEFINE s == [x EXCEPT !.rx = Oldest]
  <2>1. Oldest \in Nat /\ Oldest <= NextSeq
    BY <1>0, StreamAssumption DEF Oldest
  <2>2. s \in Stream /\ s.sent = x.sent /\ s.rx = Oldest
    BY <1>1, <2>1 DEF Stream
  <2>3. Snapshot(c, s) /\ x.sent = LastOf(transcript[c])
    BY <1>1, <1>5 DEF Lagged, Follows
  <2> HIDE DEF s
  <2> QED
    BY <1>0, <2>1, <2>2, <2>3, SnapshotKeeps
<1>6. CASE Leave(c)
  <2>1. Away \in Stream /\ Follows(Away, transcript[c], gaps[c], NextSeq)
    BY DEF Away, Stream, Follows
  <2>2. /\ sub' = [sub EXCEPT ![c] = Away] /\ transcript' = [transcript EXCEPT ![c] = transcript[c]]
        /\ gaps' = [gaps EXCEPT ![c] = gaps[c]] /\ returns' \in [Clients -> Nat]
    BY <1>6 DEF Leave, Detached, ClientsOK
  <2> QED
    BY <1>0, <1>1, <2>1, <2>2, OneClient
<1>s. ASSUME NEW n \in Nat PROVE /\ Subscribed(n) \in Stream /\ Subscribed(n).pc = "attaching"
                                 /\ Subscribed(n).rx = cast + 1 /\ Subscribed(n).sent = n
  <2>1. cast + 1 \in Nat
    BY <1>0
  <2>2. ASSUME NEW m \in Nat
        PROVE  LET y == [Away EXCEPT !.pc = "attaching", !.rx = m, !.sent = n]
               IN  y \in Stream /\ y.pc = "attaching" /\ y.rx = m /\ y.sent = n
    BY DEF Away, Stream
  <2> QED
    BY <2>1, <2>2 DEF Subscribed
<1>7. CASE Open(c)
  <2> DEFINE s == Subscribed(0)
  <2>1. s \in Stream /\ s.pc = "attaching" /\ s.rx = cast + 1 /\ s.sent = 0
    BY <1>s
  <2>2. LastOf(transcript[c]) = 0
    BY <1>1, <1>7 DEF Open, Follows
  <2>3. /\ sub' = [sub EXCEPT ![c] = s] /\ transcript' = [transcript EXCEPT ![c] = transcript[c]]
        /\ gaps' = [gaps EXCEPT ![c] = gaps[c]] /\ returns' \in [Clients -> Nat]
    BY <1>7 DEF Open, ClientsOK
  <2> HIDE DEF s
  <2>4. Follows(s, transcript[c], gaps[c], NextSeq)
    BY <1>0, <2>1, <2>2 DEF Follows
  <2> QED
    BY <1>0, <1>1, <2>1, <2>3, <2>4, OneClient
<1>8. CASE Reattach(c)
  <2>1. returns' \in [Clients -> Nat]
    BY <1>8 DEF Reattach, ClientsOK
  <2>3. LastOf(transcript[c]) \in Nat
    <3>1. transcript[c] # <<>> => Len(transcript[c]) \in 1..Len(transcript[c])
      BY <1>1, EmptySeq
    <3> QED
      BY <1>1, <3>1, ElementOfSeq DEF LastOf, Last
  <2>4. CASE /\ sub' = [sub EXCEPT ![c] = Subscribed(IF transcript[c] = <<>> THEN 0 ELSE Last(transcript[c]))]
             /\ UNCHANGED <<transcript, gaps>>
    <3> DEFINE s == Subscribed(LastOf(transcript[c]))
    <3>1. /\ sub' = [sub EXCEPT ![c] = s] /\ transcript' = [transcript EXCEPT ![c] = transcript[c]]
          /\ gaps' = [gaps EXCEPT ![c] = gaps[c]]
      BY <2>4 DEF LastOf, ClientsOK
    <3>2. s \in Stream /\ s.pc = "attaching" /\ s.rx = cast + 1 /\ s.sent = LastOf(transcript[c])
      BY <1>s, <2>3
    <3> HIDE DEF s
    <3>3. Follows(s, transcript[c], gaps[c], NextSeq)
      BY <1>0, <3>2 DEF Follows
    <3> QED
      BY <1>0, <1>1, <2>1, <3>1, <3>2, <3>3, OneClient
  <2>5. CASE /\ sub' = [sub EXCEPT ![c] = Subscribed(0)]
             /\ transcript' = [transcript EXCEPT ![c] = <<>>]
             /\ gaps' = [gaps EXCEPT ![c] = {}]
    <3> DEFINE s == Subscribed(0)
    <3>1. s \in Stream /\ s.pc = "attaching" /\ s.rx = cast + 1 /\ s.sent = 0
      BY <1>s
    <3>2. <<>> \in Seq(Nat) /\ {} \in SUBSET Nat /\ HoleFree(<<>>, {})
      BY EmptySeq DEF HoleFree
    <3>3. sub' = [sub EXCEPT ![c] = s]
      BY <2>5
    <3> HIDE DEF s
    <3>4. Follows(s, <<>>, {}, NextSeq)
      BY <1>0, <3>1 DEF Follows, LastOf
    <3> QED
      BY <1>0, <2>1, <2>5, <3>1, <3>2, <3>3, <3>4, OneClient
  <2> QED
    BY <1>8, <2>4, <2>5 DEF Reattach
<1> QED
  BY <1>2, <1>3, <1>4, <1>5, <1>6, <1>7, <1>8 DEF ServeStep

-----------------------------------------------------------------------------
(* The theorems.                                                           *)

StreamInv == RingOK /\ TurnOK /\ ClientsOK /\ registered \in BOOLEAN

\* The conjunction is inductive.
LEMMA StreamInvHolds == Spec => []StreamInv
<1>1. Init => StreamInv
  <2> SUFFICES ASSUME Init PROVE StreamInv
    OBVIOUS
  <2>1. RingOK /\ TurnOK
    BY RingInit
  <2>2. NextSeq = 1
    BY EmptySeq DEF Init, NextSeq
  <2>3. PICK o \in Clients : sub = [c \in Clients |-> IF c = o THEN [Away EXCEPT !.pc = "opening"] ELSE Away]
    BY DEF Init
  <2>4. ASSUME NEW c \in Clients
        PROVE  sub[c] \in Stream /\ sub[c].sent = 0 /\ sub[c].rx <= 1 /\ sub[c].pc \in {"opening", "away"}
    <3>1. Away \in Stream /\ Away.sent = 0 /\ Away.rx <= 1 /\ Away.pc = "away"
      BY DEF Away, Stream
    <3> DEFINE x == [Away EXCEPT !.pc = "opening"]
    <3>2. x \in Stream
      BY DEF Away, Stream
    <3>3. x.sent = 0 /\ x.rx = 0 /\ x.pc = "opening"
      BY DEF Away
    <3>4. sub[c] = x \/ sub[c] = Away
      BY <2>3
    <3> HIDE DEF x
    <3> QED
      BY <3>1, <3>2, <3>3, <3>4
  <2>5. <<>> \in Seq(Nat) /\ HoleFree(<<>>, {}) /\ LastOf(<<>>) = 0
    BY EmptySeq DEF HoleFree, LastOf
  <2>6. ASSUME NEW c \in Clients
        PROVE  HoleFree(transcript[c], gaps[c]) /\ Follows(sub[c], transcript[c], gaps[c], NextSeq)
    <3>1. transcript[c] = <<>> /\ gaps[c] = {}
      BY DEF Init
    <3> QED
      BY <2>2, <2>4, <2>5, <3>1 DEF Follows
  <2>7. ClientsOK
    BY <2>3, <2>4, <2>5, <2>6 DEF ClientsOK, Init
  <2>8. registered \in BOOLEAN
    BY Zenon DEF Init
  <2> QED
    BY <2>1, <2>7, <2>8 DEF StreamInv
<1>2. StreamInv /\ [Next]_vars => StreamInv'
  <2> SUFFICES ASSUME StreamInv, [Next]_vars PROVE StreamInv'
    OBVIOUS
  <2>1. RingOK' /\ TurnOK' /\ NextSeq' >= NextSeq
    BY RingNext DEF StreamInv
  <2>3. registered' \in BOOLEAN
    <3>1. registered' = registered \/ registered' = FALSE
      BY DEF Next, TurnStep, TurnPushes, Send, TurnGoesOn, TurnFails, TurnFailed, NextEvent, LoopEnds,
             TailEnds, SayCancelled, SayDone, TurnEnds, TurnPanics, Evict, Cancel, ServeStep, Open, ReadRing, Replay,
             Receive, Lagged, Reattach, Leave, vars
    <3> QED
      BY <3>1, Zenon DEF StreamInv
  <2>4. ClientsOK'
    <3>1. CASE \E c \in Clients : ServeStep(c) \/ Reattach(c) \/ Leave(c)
      BY <3>1, ServeKeeps DEF StreamInv
    <3>2. CASE UNCHANGED clients
      <4>1. NextSeq \in Nat /\ NextSeq' \in Nat
        <5>1. first \in Nat /\ first' \in Nat /\ ring \in Seq(Sizes) /\ ring' \in Seq(Sizes)
          BY <2>1 DEF StreamInv, RingOK
        <5>2. Len(ring) \in Nat /\ Len(ring') \in Nat
          BY <5>1, LenProperties
        <5> QED
          BY <5>1, <5>2 DEF NextSeq
      <4> QED
        BY <2>1, <3>2, <4>1, ClientsStay DEF StreamInv
    <3>3. ASSUME TurnStep \/ TurnPanics \/ Evict \/ Cancel \/ UNCHANGED vars PROVE UNCHANGED clients
      BY <3>3 DEF TurnStep, TurnPushes, Send, TurnGoesOn, TurnFails, TurnFailed, NextEvent, LoopEnds,
                  TailEnds, SayCancelled, SayDone, TurnEnds, TurnPanics, Evict, Cancel, vars
    <3> QED
      BY <3>1, <3>2, <3>3 DEF Next
  <2> QED
    BY <2>1, <2>3, <2>4 DEF StreamInv
<1> QED
  BY <1>1, <1>2, PTL DEF Spec

\* The ring stays within its caps and keeps the last frame, however large the frames are.
THEOREM RingStaysSound == Spec => []RingIsSound
<1>1. StreamInv => RingIsSound
  <2> SUFFICES ASSUME StreamInv PROVE RingIsSound
    OBVIOUS
  <2>1. Len(ring) \in Nat /\ Len(ring) <= MaxFrames
    BY LenProperties, StreamAssumption DEF StreamInv, RingOK, OverFull
  <2>2. TypeOK
    BY <2>1 DEF StreamInv, RingOK, TurnOK, ClientsOK, TypeOK
  <2>3. EndIsReplayable
    BY DEF StreamInv, TurnOK, TurnStates, EndIsReplayable
  <2> QED
    BY <2>2, <2>3 DEF StreamInv, RingOK, RingIsSound
<1> QED
  BY <1>1, StreamInvHolds, PTL

\* Whatever the turn, the channel and the client's comings and goings do, a client misses no frame
\* it was not told of.
THEOREM NothingIsMissed == Spec => []NoSilentHole
<1>1. StreamInv => NoSilentHole
  BY DEF StreamInv, ClientsOK, HoleFree, NoSilentHole
<1> QED
  BY <1>1, StreamInvHolds, PTL

\* The state and the last frame of an interrupted turn agree.
THEOREM EndingsAgree == Spec => []InterruptedAgrees
<1>1. StreamInv => InterruptedAgrees
  BY DEF StreamInv, TurnOK, TurnStates, InterruptedAgrees
<1> QED
  BY <1>1, StreamInvHolds, PTL
=============================================================================
