------------------------- MODULE CronSchedulerProofs -------------------------
(***************************************************************************)
(* Theorems about CronScheduler, for every set of schedules and rules,     *)
(* every first file, every set of calls in flight and every bound: the     *)
(* state is sound, the file follows the map, an occurrence of a schedule   *)
(* runs once, and rules keep their cooldown.                               *)
(*                                                                         *)
(* Every action is first shown to be of one of a few kinds (Steady, and    *)
(* what it does to the tickets; Idles; a crash; a boot), with what it does *)
(* to the map, the jobs and the copies.  The invariants are about the      *)
(* copies that may still reach the file from a given ticket on             *)
(* (CopiesFrom): a fact about the map that every step preserves is known   *)
(* to all of them once the map was copied after it.                        *)
(***************************************************************************)
EXTENDS CronScheduler, FiniteSetTheorems, FunctionTheorems, TLAPS

-----------------------------------------------------------------------------
(* Copies of the map and their order.                                      *)

Pcs == {"idle", "stamp", "publish", "exec", "remove", "ticket", "start", "insert", "unjob", "save",
        "rearm", "restate", "settle"}

\* Saved maps.
Maps == UNION {[S -> Record] : S \in SUBSET Tasks}

Proc == [op : {"none", "call", "edit", "chain", "once", "spent", "late", "now", "rule", "answer"},
         pc : Pcs, task : Tasks \cup {""}, job : Nat, at : Times \cup {0}, shape : Shapes \cup {SameShape},
         ask : SUBSET BOOLEAN, snap : Maps, seq : Nat]

Job == [id : Nat \ {NoJob}, task : Timed, once : BOOLEAN, at : Nat \ {0}]

Types ==
  /\ now \in Times
  /\ tasks \in [DOMAIN tasks -> [rec : Record, job : Nat]] /\ DOMAIN tasks \subseteq Tasks
  /\ jobs \subseteq Job /\ IsFiniteSet(jobs)
  /\ proc \in [Procs -> Proc]
  /\ nextSeq \in Nat \ {0} /\ published \in Nat /\ disk \in Maps
  /\ cooldowns \in [Rules -> Times \cup {0}]
  /\ ran \in [Tasks -> [Times -> Nat]]
  /\ calls \in 0..MaxCalls /\ crashes \in 0..MaxCrashes

Flags == up \in BOOLEAN /\ overtook \in BOOLEAN /\ unwritten \in BOOLEAN /\ unsaved \in BOOLEAN

\* What a call or a run knows at each place.
Shaped(c) ==
  /\ c.pc \in {"stamp", "exec", "start", "remove", "insert", "unjob", "rearm", "restate", "settle"} => c.task \in Tasks
  /\ c.op \in {"chain", "late", "rule", "now", "once", "answer"} => c.task \in Tasks
  /\ c.op \in {"chain", "once", "spent", "late", "answer"} => c.task \in Timed
  /\ c.op = "rule" => c.task \in Rules
  /\ c.op \in {"chain", "late", "rule", "answer"} => c.at \in 1..now
  /\ c.pc \in {"rearm", "restate", "insert"} => c.shape \in Shapes
  /\ c.pc = "rearm" => c.task \in Timed
  /\ c.pc = "insert" => <<"create", c.task>> \in Requests
  /\ c.pc = "remove" => c.op = "spent"
  /\ c.pc = "stamp" => c.op \in {"chain", "late", "now", "rule", "once"}
  /\ c.pc = "exec" => c.op \in {"chain", "late", "now", "rule", "once"}
  /\ c.pc = "start" => c.op \in {"late", "rule"}
  /\ c.pc = "save" => c.op \in {"call", "edit", "answer"}
  /\ c.pc \in {"unjob", "rearm", "restate", "settle", "insert"} => c.op \in {"call", "edit"}
  /\ c.pc = "ticket" => c.op = "spent"
  /\ c.pc = "idle" => c.op = "none"

RunsShaped == (\A p \in Procs : Shaped(proc[p])) /\ (~up => \A p \in Procs : proc[p].pc = "idle")

\* Tickets are held by those about to publish, one each, and none is the one on disk.
TicketsHeld ==
  /\ published < nextSeq
  /\ \A p \in Procs : /\ proc[p].pc = "publish" => proc[p].seq \in 1..(nextSeq - 1)
                      /\ proc[p].pc # "publish" => proc[p].seq = 0
                      /\ proc[p].pc = "publish" => proc[p].seq # published
  /\ \A p, q \in Procs : p # q /\ proc[p].pc = "publish" /\ proc[q].pc = "publish" => proc[p].seq # proc[q].seq

\* Nothing in a map lies ahead of the clock, and nobody is asked about a rule.
Past(recs) ==
  \A t \in DOMAIN recs :
    /\ {recs[t].missed, recs[t].asked, recs[t].last, recs[t].made} \subseteq 0..now
    /\ t \in Rules => recs[t].missed = 0

Waiting(p) == proc[p].pc \in {"ticket", "publish"}

AllPast == Past(Records) /\ Past(disk) /\ \A p \in Procs : Waiting(p) => Past(proc[p].snap)

BaseInv == Types /\ Flags /\ RunsShaped /\ TicketsHeld /\ AllPast

\* The map, and the copies of it that may still replace a file of ticket n.
CopiesFrom(n) ==
  {Records} \cup {proc[q].snap : q \in {p \in Procs : proc[p].pc = "ticket"}}
            \cup {proc[q].snap : q \in {p \in Procs : proc[p].pc = "publish" /\ proc[p].seq >= n}}
            \cup {d \in {disk} : published >= n}

\* From where on the copies know of what p did last.
Level(p) == IF proc[p].pc = "publish" THEN proc[p].seq ELSE published

-----------------------------------------------------------------------------
(* What a step of the running process does.                                *)

\* A record after a step: nothing is forgotten, and what is new is of this instant.
Edited(old, new) ==
  /\ new \in Record
  /\ new.missed \in {old.missed, 0} /\ new.made = old.made
  /\ new.last \in {old.last, now} /\ new.asked \in {old.asked, now}
  /\ new.ask /\ ~old.ask => new.asked = now

Fresh(rec) == rec \in Record /\ rec.missed = 0 /\ rec.asked = 0 /\ rec.last = 0 /\ rec.made = now

MapMoves ==
  /\ tasks' \in [DOMAIN tasks' -> [rec : Record, job : Nat]] /\ DOMAIN tasks' \subseteq Tasks
  /\ \A t \in DOMAIN tasks' :
       /\ \/ t \in DOMAIN tasks /\ Edited(tasks[t].rec, tasks'[t].rec)
          \/ <<"create", t>> \in Requests /\ Fresh(tasks'[t].rec)
       /\ \/ t \in DOMAIN tasks /\ tasks'[t].job = tasks[t].job
          \/ tasks'[t].job \in {NoJob, FreshJob}
  /\ \A t \in DOMAIN tasks \ DOMAIN tasks' : t \in Timed \/ <<"delete", t>> \in Requests

JobsMove ==
  /\ jobs' \subseteq Job /\ IsFiniteSet(jobs')
  /\ \A k \in jobs' : k \in jobs \/ (k.id = FreshJob /\ now' = now /\ (~k.once => k.at = now + 1))

\* What a step does to the tickets and the file.
Loose == {"ticket", "publish"}
Plain(p, x) == /\ proc[p].pc \notin Loose /\ x.pc \notin Loose /\ x.seq = 0
               /\ UNCHANGED file /\ overtook' = overtook /\ (unsaved => unsaved')
Copies(p, x) == /\ proc[p].pc \notin Loose /\ x.pc = "publish" /\ x.seq = nextSeq /\ x.snap = Records'
                /\ nextSeq' = nextSeq + 1 /\ published' = published /\ disk' = disk /\ NoteRead
Spends(p, x) == /\ proc[p].pc \notin Loose /\ x.pc = "ticket" /\ x.seq = 0 /\ x.snap = Records'
                /\ UNCHANGED file /\ NoteRead
Tickets(p, x) == /\ proc[p].pc = "ticket" /\ x.pc = "publish" /\ x.seq = nextSeq /\ x.snap = proc[p].snap
                 /\ x.op = "spent"
                 /\ nextSeq' = nextSeq + 1 /\ published' = published /\ disk' = disk
                 /\ tasks' = tasks /\ overtook' = overtook /\ unsaved' = unsaved
Writes(p, x) == /\ proc[p].pc = "publish" /\ x.pc \notin Loose /\ x.seq = 0
                /\ \/ published > proc[p].seq /\ Published(p, published) /\ disk' = disk
                   \/ ~(published > proc[p].seq) /\ Published(p, proc[p].seq) /\ disk' = proc[p].snap
                /\ tasks' = tasks /\ overtook' = overtook /\ unsaved' = unsaved

Steady(p, x) ==
  /\ up /\ now' = now /\ up' = up /\ crashes' = crashes
  /\ x \in Proc /\ Shaped(x) /\ Becomes(p, x)
  /\ MapMoves /\ JobsMove
  /\ Plain(p, x) \/ Copies(p, x) \/ Spends(p, x) \/ Tickets(p, x) \/ Writes(p, x)
  /\ cooldowns' \in [Rules -> Times \cup {0}] /\ ran' \in [Tasks -> [Times -> Nat]]
  /\ calls' \in 0..MaxCalls /\ unwritten' \in BOOLEAN /\ unsaved' \in BOOLEAN

\* The copies that count are those that counted, and the map.
CopyMoves ==
  ~overtook' =>
    /\ ~overtook
    /\ \A c \in CopiesFrom(published)' : c = Records' \/ c \in CopiesFrom(published)
    /\ \A q \in Procs : \A c \in CopiesFrom(Level(q))' : c = Records' \/ c \in CopiesFrom(Level(q))

-----------------------------------------------------------------------------
(* The file.                                                               *)

\* The record and the map agree on what the file must not lose, but for a question that a run
\* about to be stamped has closed.
Stamping(t) == \E p \in Procs : proc[p].pc = "stamp" /\ proc[p].task = t
Same(t, old, new) ==
  /\ old.fireAt = new.fireAt /\ old.paused = new.paused /\ old.ask = new.ask
  /\ old.asked = new.asked /\ old.made = new.made
  /\ Durable(t, new) =>
        /\ old.last = new.last
        /\ old.missed = new.missed \/ Stamping(t)

Agrees(recs) == DOMAIN recs = DOMAIN tasks /\ \A t \in DOMAIN tasks : Same(t, recs[t], tasks[t].rec)

Unsaved == {"unjob", "rearm", "restate", "settle", "save"}
Busy == \E p \in Procs : proc[p].pc \in Unsaved
NoTicket == \A p \in Procs : proc[p].pc # "ticket"
Topmost(p) == /\ proc[p].pc = "publish" /\ proc[p].seq > published
              /\ \A q \in Procs : proc[q].pc = "publish" => proc[q].seq <= proc[p].seq

\* The copy that will be on disk in the end: one that waits for its ticket, the latest of those about
\* to be written, or the file.
IsNewest(f) ==
  \/ \E p \in Procs : proc[p].pc = "ticket" /\ f = proc[p].snap
  \/ NoTicket /\ \E p \in Procs : Topmost(p) /\ f = proc[p].snap
  \/ NoTicket /\ (\A p \in Procs : proc[p].pc = "publish" => proc[p].seq < published) /\ f = disk

NewestAgrees == \A f : IsNewest(f) => Agrees(f)

\* A refused call may leave the map ahead of every copy.
FileInv == ~overtook /\ up /\ ~Busy /\ ~unsaved => NewestAgrees

-----------------------------------------------------------------------------
(* Occurrences.                                                            *)

Since(rec) == Later(IF rec.last # 0 THEN rec.last ELSE rec.made, rec.asked)

\* A map that will not ask about occurrence i of t.
Closed(recs, t, i) ==
  t \in DOMAIN recs => recs[t].missed # i /\ (recs[t].ask => Since(recs[t]) >= i)

\* A call or a run that is to run an occurrence of t, and whether the maps know it.
RunsOne(c) == c.op \in {"chain", "late"} \/ (c.op = "answer" /\ c.ask = {TRUE})
Noted(c) ==
  \/ c.op = "late" \/ (c.op = "answer" /\ c.pc = "publish")
  \/ c.pc \in {"publish", "exec"}

\* The timer's job that the entry of its task names.
Named(k) == k \in jobs /\ ~k.once /\ k.task \in DOMAIN tasks /\ tasks[k.task].job = k.id

\* The occurrence q is to run has not run, comes before those of the named job, and once it is noted
\* no copy that counts will ask about it.
RunOK(q) ==
  RunsOne(proc[q]) =>
    /\ ran[proc[q].task][proc[q].at] = 0
    /\ Noted(proc[q]) => \A c \in CopiesFrom(Level(q)) : Closed(c, proc[q].task, proc[q].at)
    /\ proc[q].op = "answer" => Closed(Records, proc[q].task, proc[q].at)
    /\ \A k : Named(k) /\ k.task = proc[q].task => proc[q].at < k.at

\* Nobody is asked about occurrence n of t, or a later one.
AskedBefore(t, n) == \A c \in CopiesFrom(published) : t \in DOMAIN c => c[t].missed < n

\* The occurrences a timer will run, or runs, come after those somebody may be asked about.
ChainOK(q) == proc[q].op = "chain" => AskedBefore(proc[q].task, proc[q].at)
JobsOK == \A k \in jobs : ~k.once => AskedBefore(k.task, k.at)

Settled(t, i) ==
  /\ i <= now /\ \A c \in CopiesFrom(published) : Closed(c, t, i)
  /\ \A k : Named(k) /\ k.task = t => i < k.at
RanOK == \A t \in Timed, i \in Times : ran[t][i] <= 1 /\ (ran[t][i] > 0 => Settled(t, i))

Distinct ==
  \A p, q \in Procs : p # q /\ RunsOne(proc[p]) /\ RunsOne(proc[q]) /\ proc[p].task = proc[q].task
                         => proc[p].at # proc[q].at

\* A question is about an occurrence the schedule was asked about.
Seen == \A c \in CopiesFrom(published) : \A t \in DOMAIN c : c[t].missed # 0 => Since(c[t]) >= c[t].missed

RunsHold == (\A q \in Procs : RunOK(q) /\ ChainOK(q)) /\ JobsOK /\ RanOK /\ Distinct /\ Seen

RunsInv == ~overtook /\ ~unwritten => RunsHold

-----------------------------------------------------------------------------
(* Cooldowns.                                                              *)

Stamped(recs, t, i) == t \in DOMAIN recs => recs[t].last >= i

Fires(p, t) == proc[p].op = "rule" /\ proc[p].task = t

Apart(i, j) == (Cooldown > 0 => i # j) /\ (i < j => j - i >= Cooldown) /\ (j < i => i - j >= Cooldown)

\* The copies that count know of the runs of rule t, and of those that are stamped.
Stamps(t) ==
  /\ \A i \in Times : ran[t][i] > 0 => i <= now /\ \A c \in CopiesFrom(published) : Stamped(c, t, i)
  /\ \A p \in Procs : Fires(p, t) =>
        /\ t \in DOMAIN tasks /\ cooldowns[t] >= proc[p].at
        /\ proc[p].pc \in {"publish", "exec"} => \A c \in CopiesFrom(Level(p)) : Stamped(c, t, proc[p].at)

\* The runs of rule t, made and to be made, are its cooldown apart.
Spaced(t) ==
  /\ \A i \in Times : Cooldown > 0 => ran[t][i] <= 1
  /\ \A i, j \in Times : i # j /\ ran[t][i] > 0 /\ ran[t][j] > 0 => Apart(i, j)
  /\ \A p \in Procs, i \in Times : Fires(p, t) /\ ran[t][i] > 0 => Apart(proc[p].at, i)
  /\ \A p, q \in Procs : p # q /\ Fires(p, t) /\ Fires(q, t) => Apart(proc[p].at, proc[q].at)

RuleInv(t) == Stamps(t) /\ Spaced(t)

CooldownInv == ~overtook /\ Cooldown > 0 => \A t \in KeptRules : RuleInv(t)

-----------------------------------------------------------------------------
(* Kinds of steps, by what they leave alone.                               *)

\* p starts no run, and learns of none.
KeepsRuns(p, x) ==
  /\ RunsOne(x) => /\ RunsOne(proc[p]) /\ x.task = proc[p].task /\ x.at = proc[p].at
                   /\ Noted(x) => Noted(proc[p])
                   /\ x.op = "answer" => proc[p].op = "answer"
  /\ x.op = "chain" => proc[p].op = "chain"
  /\ ran' = ran /\ unwritten' = unwritten

\* p fires no rule and stamps none.
KeepsRules(p, x) ==
  /\ x.op = "rule" => /\ proc[p].op = "rule" /\ x.task = proc[p].task /\ x.at = proc[p].at
                      /\ x.pc \in {"publish", "exec"} => proc[p].pc \in {"publish", "exec"}
  /\ ran' = ran /\ cooldowns' = cooldowns

\* An edit that is still to be saved, or was refused, and a step the file takes no notice of.
Edits(p, x) == Steady(p, x) /\ KeepsRules(p, x) /\ (x.pc \in Unsaved \/ unsaved')
Passes(p, x) ==
  /\ Steady(p, x) /\ Plain(p, x) /\ tasks' = tasks /\ proc[p].pc \notin Unsaved
  /\ proc[p].pc = "stamp" /\ proc[p].task \in DOMAIN tasks => x.pc = "stamp" /\ x.task = proc[p].task


-----------------------------------------------------------------------------
(* Types.                                                                  *)

\* A saved map is a function from some of the ids to records.
LEMMA MapsAre == \A f : f \in Maps <=> DOMAIN f \subseteq Tasks /\ f \in [DOMAIN f -> Record]
BY DEF Maps

\* A process with nothing to do is well formed.
LEMMA IdleIsProc == Idle \in Proc /\ Shaped(Idle)
<1>1. Empty \in Maps
  BY MapsAre DEF Empty
<1> QED
  BY <1>1, SchedulerAssumption DEF Idle, Proc, Shaped, Pcs, NoJob, Shapes, SameShape

\* The values of a function with a finite domain are finitely many.
LEMMA ImageIsFinite ==
  ASSUME NEW S, IsFiniteSet(S), NEW f, DOMAIN f = S, f = [x \in S |-> f[x]]
  PROVE  IsFiniteSet({f[x] : x \in S})
<1>1. f \in Surjection(S, {f[x] : x \in S})
  BY DEF Surjection
<1> QED
  BY <1>1, FS_Surjection

\* There is always an id nothing refers to.
LEMMA FreshIsFresh ==
  ASSUME Types
  PROVE  FreshJob \in Nat \ {0} /\ FreshJob \notin UsedJobs
<1>1. IsFiniteSet(DOMAIN tasks) /\ IsFiniteSet(jobs) /\ IsFiniteSet(Procs)
  BY SchedulerAssumption, FS_Subset DEF Types
<1>2. IsFiniteSet({k.id : k \in jobs}) /\ IsFiniteSet({tasks[t].job : t \in DOMAIN tasks})
      /\ IsFiniteSet({proc[p].job : p \in Procs})
  <2>1. IsFiniteSet({k.id : k \in jobs})
    <3> DEFINE f == [k \in jobs |-> k.id]
    <3>1. IsFiniteSet({f[x] : x \in jobs})
      <4> HIDE DEF f
      <4>1. DOMAIN f = jobs /\ f = [x \in jobs |-> f[x]]
        BY DEF f
      <4> QED
        BY <1>1, <4>1, ImageIsFinite
    <3>2. {f[x] : x \in jobs} = {k.id : k \in jobs}
      OBVIOUS
    <3> QED
      BY <3>1, <3>2
  <2>2. IsFiniteSet({tasks[t].job : t \in DOMAIN tasks})
    <3> DEFINE f == [t \in DOMAIN tasks |-> tasks[t].job]
    <3>1. IsFiniteSet({f[x] : x \in DOMAIN tasks})
      <4> HIDE DEF f
      <4>1. DOMAIN f = DOMAIN tasks /\ f = [x \in DOMAIN tasks |-> f[x]]
        BY DEF f
      <4> QED
        BY <1>1, <4>1, ImageIsFinite
    <3>2. {f[x] : x \in DOMAIN tasks} = {tasks[t].job : t \in DOMAIN tasks}
      OBVIOUS
    <3> QED
      BY <3>1, <3>2
  <2>3. IsFiniteSet({proc[p].job : p \in Procs})
    <3> DEFINE f == [p \in Procs |-> proc[p].job]
    <3>1. IsFiniteSet({f[x] : x \in Procs})
      <4> HIDE DEF f
      <4>1. DOMAIN f = Procs /\ f = [x \in Procs |-> f[x]]
        BY DEF f
      <4> QED
        BY <1>1, <4>1, ImageIsFinite
    <3>2. {f[x] : x \in Procs} = {proc[p].job : p \in Procs}
      OBVIOUS
    <3> QED
      BY <3>1, <3>2
  <2> QED
    BY <2>1, <2>2, <2>3
<1>3. IsFiniteSet(UsedJobs)
  BY <1>2, FS_Union DEF UsedJobs
<1> DEFINE n == Cardinality(UsedJobs)
<1>4. n \in Nat
  BY <1>3, FS_CardinalityType
<1>5. \E j \in 1..n + 1 : j \notin UsedJobs
  <2> SUFFICES ASSUME 1..n + 1 \subseteq UsedJobs PROVE FALSE
    OBVIOUS
  <2>1. Cardinality(1..n + 1) <= n
    BY <1>3, FS_Subset
  <2>2. Cardinality(1..n + 1) = n + 1
    BY <1>4, FS_Interval
  <2> QED
    BY <1>4, <2>1, <2>2
<1>6. FreshJob \in 1..n + 1 /\ FreshJob \notin UsedJobs
  BY <1>5 DEF FreshJob
<1> QED
  BY <1>4, <1>6

-----------------------------------------------------------------------------
(* Moves of the map and of the jobs.                                       *)

\* What is to be saved is the record of every entry.
LEMMA TheRecords ==
  ASSUME Types
  PROVE  /\ Records \in Maps /\ DOMAIN Records = DOMAIN tasks
         /\ \A t \in DOMAIN tasks : Records[t] = tasks[t].rec /\ tasks[t].rec \in Record /\ tasks[t].job \in Nat
BY MapsAre DEF Types, Records

\* The same, after a step.
LEMMA TheNewRecords ==
  ASSUME MapMoves
  PROVE  /\ Records' \in Maps /\ DOMAIN Records' = DOMAIN tasks'
         /\ \A t \in DOMAIN tasks' : Records'[t] = tasks'[t].rec /\ tasks'[t].rec \in Record
BY MapsAre DEF MapMoves, Records

\* A record that stays as it is counts as edited.
LEMMA EditedSelf ==
  ASSUME NEW rec \in Record
  PROVE  Edited(rec, rec)
BY DEF Edited

\* A step may leave the map alone.
LEMMA SameMoves ==
  ASSUME Types, tasks' = tasks
  PROVE  MapMoves /\ Records' = Records
<1>1. Records' = Records
  BY DEF Records
<1> QED
  BY <1>1, TheRecords, EditedSelf DEF Types, MapMoves

\* Put changes the entry of one id.
LEMMA PutMoves ==
  ASSUME Types, NEW t \in Tasks, NEW rec \in Record, NEW job, Put(t, rec, job),
         \/ t \in DOMAIN tasks /\ job = tasks[t].job
         \/ job \in {NoJob, FreshJob},
         \/ t \in DOMAIN tasks /\ Edited(tasks[t].rec, rec)
         \/ <<"create", t>> \in Requests /\ Fresh(rec)
  PROVE  /\ MapMoves /\ DOMAIN tasks' = DOMAIN tasks \cup {t}
         /\ tasks'[t].rec = rec /\ tasks'[t].job = job
         /\ \A u \in DOMAIN tasks \ {t} : tasks'[u] = tasks[u]
<1>1. job \in Nat
  BY FreshIsFresh DEF Types, NoJob
<1>2. /\ DOMAIN tasks' = DOMAIN tasks \cup {t}
      /\ tasks'[t] = [rec |-> rec, job |-> job]
      /\ \A u \in DOMAIN tasks \ {t} : tasks'[u] = tasks[u]
  BY DEF Put
<1>3. tasks' = [u \in DOMAIN tasks' |-> tasks'[u]]
  BY DEF Put
<1>4. \A u \in DOMAIN tasks' : tasks'[u] \in [rec : Record, job : Nat]
  BY <1>1, <1>2 DEF Types
<1>5. tasks' \in [DOMAIN tasks' -> [rec : Record, job : Nat]] /\ DOMAIN tasks' \subseteq Tasks
  BY <1>2, <1>3, <1>4 DEF Types
<1>6. ASSUME NEW u \in DOMAIN tasks'
      PROVE  /\ \/ u \in DOMAIN tasks /\ Edited(tasks[u].rec, tasks'[u].rec)
                \/ <<"create", u>> \in Requests /\ Fresh(tasks'[u].rec)
             /\ \/ u \in DOMAIN tasks /\ tasks'[u].job = tasks[u].job
                \/ tasks'[u].job \in {NoJob, FreshJob}
  <2>1. CASE u = t
    BY <1>2, <2>1
  <2>2. CASE u # t
    <3>1. u \in DOMAIN tasks /\ tasks'[u] = tasks[u] /\ tasks[u].rec \in Record
      BY <1>2, <2>2 DEF Types
    <3> QED
      BY <3>1, EditedSelf
  <2> QED
    BY <2>1, <2>2
<1> QED
  BY <1>2, <1>5, <1>6 DEF MapMoves

\* A timed or deleted id may leave the map.
LEMMA WithoutMoves ==
  ASSUME Types, NEW t, t \in Timed \/ <<"delete", t>> \in Requests, tasks' = Without(tasks, t)
  PROVE  MapMoves /\ Records' = Without(Records, t)
<1>1. /\ DOMAIN tasks' = DOMAIN tasks \ {t}
      /\ \A u \in DOMAIN tasks' : tasks'[u] = tasks[u]
      /\ tasks' = [u \in DOMAIN tasks' |-> tasks'[u]]
  BY DEF Without
<1>2. tasks' \in [DOMAIN tasks' -> [rec : Record, job : Nat]] /\ DOMAIN tasks' \subseteq Tasks
  BY <1>1 DEF Types
<1>3. \A u \in DOMAIN tasks' : u \in DOMAIN tasks /\ Edited(tasks[u].rec, tasks'[u].rec) /\ tasks'[u].job = tasks[u].job
  BY <1>1, EditedSelf DEF Types
<1>4. MapMoves
  BY <1>1, <1>2, <1>3 DEF MapMoves
<1>5. Records' = Without(Records, t)
  BY <1>1 DEF Records, Without
<1> QED
  BY <1>4, <1>5

\* Jobs may go at any time.
LEMMA FewerJobs ==
  ASSUME Types, jobs' \subseteq jobs
  PROVE  JobsMove
BY FS_Subset DEF Types, JobsMove

\* A new job is well formed, and a recurring one's is for the next occurrence.
LEMMA JobForIsJob ==
  ASSUME Types, NEW j \in Nat \ {0}, NEW t \in Timed, NEW shape \in Shapes
  PROVE  JobFor(j, t, shape) \in Job /\ JobFor(j, t, shape).id = j
         /\ (~JobFor(j, t, shape).once => JobFor(j, t, shape).at = now + 1)
BY SchedulerAssumption DEF JobFor, Job, Types, Shapes, Times, NoJob

\* Arming a task adds a job under a fresh id.
LEMMA ArmedMoves ==
  ASSUME Types, now' = now, NEW t \in Tasks, NEW shape \in Shapes, jobs' \subseteq jobs \cup Armed(t, shape)
  PROVE  JobsMove
<1>1. IsFiniteSet(Armed(t, shape))
  BY FS_EmptySet, FS_Singleton DEF Armed
<1>2. IsFiniteSet(jobs')
  BY <1>1, FS_Union, FS_Subset DEF Types
<1>3. FreshJob \in Nat \ {0}
  BY FreshIsFresh
<1>4. \A k \in Armed(t, shape) : k \in Job /\ k.id = FreshJob /\ (~k.once => k.at = now + 1)
  BY <1>3, JobForIsJob DEF Armed, Tasks
<1> QED
  BY <1>2, <1>4 DEF Types, JobsMove

-----------------------------------------------------------------------------
(* A steady step keeps the tickets in order and the copies in the past.    *)

\* A step changes one process.
LEMMA OneMoves ==
  ASSUME BaseInv, NEW p \in Procs, NEW x, Steady(p, x)
  PROVE  /\ proc' \in [Procs -> Proc] /\ proc'[p] = x
         /\ \A q \in Procs \ {p} : proc'[q] = proc[q]
BY DEF BaseInv, Types, Steady, Becomes

\* No record gets ahead of the clock.
LEMMA RecordsStayPast ==
  ASSUME Types, MapMoves, Past(Records), now' = now
  PROVE  Past(Records)'
<1> SUFFICES ASSUME NEW t \in DOMAIN Records'
             PROVE  /\ {Records'[t].missed, Records'[t].asked, Records'[t].last, Records'[t].made} \subseteq 0..now
                    /\ t \in Rules => Records'[t].missed = 0
  BY DEF Past
<1>0. now \in Nat /\ now \in 0..now /\ 0 \in 0..now
  BY SchedulerAssumption DEF Types, Times
<1>1. t \in DOMAIN tasks' /\ Records'[t] = tasks'[t].rec
  BY TheNewRecords
<1>2. CASE t \in DOMAIN tasks /\ Edited(tasks[t].rec, tasks'[t].rec)
  <2>1. /\ {tasks[t].rec.missed, tasks[t].rec.asked, tasks[t].rec.last, tasks[t].rec.made} \subseteq 0..now
        /\ t \in Rules => tasks[t].rec.missed = 0
    BY <1>2, TheRecords DEF Past
  <2> QED
    BY <1>0, <1>1, <1>2, <2>1 DEF Edited
<1>3. CASE Fresh(tasks'[t].rec)
  BY <1>0, <1>1, <1>3 DEF Fresh
<1> QED
  BY <1>1, <1>2, <1>3 DEF MapMoves

\* Steps keep the types.
LEMMA SteadyTypes ==
  ASSUME BaseInv, NEW p \in Procs, NEW x, Steady(p, x)
  PROVE  Types' /\ Flags' /\ RunsShaped'
<1>1. proc' \in [Procs -> Proc] /\ proc'[p] = x /\ \A q \in Procs \ {p} : proc'[q] = proc[q]
  BY OneMoves
<1>2. nextSeq' \in Nat \ {0} /\ published' \in Nat
  <2>1. proc[p].seq \in Nat /\ nextSeq \in Nat \ {0} /\ published \in Nat
    BY DEF BaseInv, Types, Proc
  <2> QED
    BY <2>1 DEF Steady, Plain, Copies, Spends, Tickets, Writes, Published, file
<1>3. disk' \in Maps
  <2>1. disk \in Maps /\ proc[p].snap \in Maps
    BY DEF BaseInv, Types, Proc
  <2>2. disk' \in {disk, proc[p].snap}
    BY DEF Steady, Plain, Copies, Spends, Tickets, Writes, file
  <2> QED
    BY <2>1, <2>2
<1>4. Types'
  BY <1>1, <1>2, <1>3 DEF BaseInv, Types, Steady, MapMoves, JobsMove
<1>5. Flags'
  <2>1. overtook' \in BOOLEAN
    <3>1. CASE overtook' = overtook
      BY <3>1 DEF BaseInv, Flags
    <3>2. CASE NoteRead
      BY <3>2 DEF NoteRead
    <3> QED
      BY <3>1, <3>2 DEF Steady, Plain, Copies, Spends, Tickets, Writes
  <2> QED
    BY <2>1 DEF BaseInv, Flags, Steady
<1>6. \A q \in Procs : Shaped(proc[q])'
  <2> SUFFICES ASSUME NEW q \in Procs PROVE Shaped(proc'[q])
    BY DEF Shaped, Steady
  <2> QED
    BY <1>1 DEF BaseInv, RunsShaped, Steady
<1> QED
  BY <1>4, <1>5, <1>6 DEF RunsShaped, Steady

\* Steps keep one ticket to each writer.
LEMMA SteadyTickets ==
  ASSUME BaseInv, NEW p \in Procs, NEW x, Steady(p, x)
  PROVE  TicketsHeld'
<1>1. proc' \in [Procs -> Proc] /\ proc'[p] = x /\ \A q \in Procs \ {p} : proc'[q] = proc[q]
  BY OneMoves
<1>2. \A q \in Procs : proc[q].seq \in Nat
  BY DEF BaseInv, Types, Proc
<1>3. nextSeq \in Nat /\ published \in Nat /\ TicketsHeld
  BY DEF BaseInv, Types
<1>4. CASE Plain(p, x) \/ Spends(p, x)
  BY <1>1, <1>2, <1>3, <1>4 DEF TicketsHeld, Plain, Spends, file, Loose
<1>5. CASE Copies(p, x) \/ Tickets(p, x)
  <2>1. nextSeq' = nextSeq + 1 /\ published' = published /\ x.pc = "publish" /\ x.seq = nextSeq
    BY <1>5 DEF Copies, Tickets
  <2> QED
    BY <1>1, <1>2, <1>3, <2>1 DEF TicketsHeld
<1>6. CASE Writes(p, x)
  <2>1. x.pc # "publish" /\ x.seq = 0 /\ proc[p].pc = "publish"
    BY <1>6 DEF Writes, Loose
  <2>2. CASE Alone(p)
    <3>1. published' = 0 /\ nextSeq' = 1
      BY <1>6, <2>2 DEF Writes, Published
    <3>2. \A q \in Procs \ {p} : proc[q].pc # "publish"
      BY <1>3, <2>2 DEF Alone, TicketsHeld
    <3> QED
      BY <1>1, <1>2, <1>3, <2>1, <3>1, <3>2 DEF TicketsHeld
  <2>3. CASE ~Alone(p)
    <3>1. nextSeq' = nextSeq /\ published' \in {published, proc[p].seq}
      BY <1>6, <2>3 DEF Writes, Published
    <3> QED
      BY <1>1, <1>2, <1>3, <2>1, <3>1 DEF TicketsHeld
  <2> QED
    BY <2>2, <2>3
<1> QED
  BY <1>4, <1>5, <1>6 DEF Steady

\* Steps keep every copy behind the clock.
LEMMA SteadyPast ==
  ASSUME BaseInv, NEW p \in Procs, NEW x, Steady(p, x)
  PROVE  AllPast'
<1>1. proc' \in [Procs -> Proc] /\ proc'[p] = x /\ \A q \in Procs \ {p} : proc'[q] = proc[q]
  BY OneMoves
<1>2. now' = now
  BY DEF Steady
<1>3. Past(Records)'
  BY <1>2, RecordsStayPast DEF BaseInv, AllPast, Steady
<1>4. \A f : Past(f) => Past(f)'
  BY <1>2 DEF Past
<1>5. Past(Records')
  BY <1>2, <1>3 DEF Past
<1>6. Past(disk')
  BY DEF BaseInv, AllPast, Waiting, Steady, Plain, Copies, Spends, Tickets, Writes, file
<1>7. ASSUME NEW q \in Procs, proc'[q].pc \in Loose
      PROVE  Past(proc'[q].snap)
  <2>1. CASE q # p
    BY <1>1, <1>7, <2>1 DEF BaseInv, AllPast, Waiting, Loose
  <2>2. CASE q = p
    BY <1>1, <1>5, <1>7, <2>2 DEF BaseInv, AllPast, Waiting, Loose, Steady, Plain, Copies, Spends, Tickets, Writes
  <2> QED
    BY <2>1, <2>2
<1>8. \A q \in Procs : Waiting(q)' => Past(proc[q].snap)'
  <2> SUFFICES ASSUME NEW q \in Procs, Waiting(q)' PROVE Past(proc[q].snap)'
    OBVIOUS
  <2>1. proc'[q].pc \in Loose
    BY DEF Waiting, Loose
  <2> QED
    BY <1>7, <2>1, <1>2 DEF Past
<1>9. Past(disk)'
  BY <1>2, <1>6 DEF Past
<1> QED
  BY <1>3, <1>8, <1>9 DEF AllPast

\* Steps keep the state sound.
LEMMA SteadyBase ==
  ASSUME BaseInv, NEW p \in Procs, NEW x, Steady(p, x)
  PROVE  BaseInv'
BY SteadyTypes, SteadyTickets, SteadyPast DEF BaseInv

\* The copies that count, one kind at a time.
LEMMA CopiesAre ==
  ASSUME NEW n, NEW c
  PROVE  c \in CopiesFrom(n) <=>
           \/ c = Records
           \/ \E q \in Procs : proc[q].pc = "ticket" /\ c = proc[q].snap
           \/ \E q \in Procs : proc[q].pc = "publish" /\ proc[q].seq >= n /\ c = proc[q].snap
           \/ c = disk /\ published >= n
BY DEF CopiesFrom

\* The order of the copies, across a steady step.
LEMMA CopiesMove ==
  ASSUME BaseInv, NEW p \in Procs, NEW x, Steady(p, x), NEW n \in Nat, NEW m \in Nat, NEW c,
         \/ c = Records'
         \/ \E q \in Procs : proc'[q].pc = "ticket" /\ c = proc'[q].snap
         \/ \E q \in Procs : proc'[q].pc = "publish" /\ proc'[q].seq >= n /\ c = proc'[q].snap
         \/ c = disk' /\ published' >= n,
         \A q \in Procs \ {p} : proc[q].pc = "publish" /\ proc[q].seq >= n => proc[q].seq >= m,
         published' >= n => \/ disk' = disk /\ published >= m
                            \/ proc[p].pc = "publish" /\ disk' = proc[p].snap /\ proc[p].seq >= m
  PROVE  c = Records' \/ c \in CopiesFrom(m)
<1>1. proc' \in [Procs -> Proc] /\ proc'[p] = x /\ \A q \in Procs \ {p} : proc'[q] = proc[q]
  BY OneMoves
<1>2. CASE \E q \in Procs : proc'[q].pc = "ticket" /\ c = proc'[q].snap
  <2> PICK q \in Procs : proc'[q].pc = "ticket" /\ c = proc'[q].snap
    BY <1>2
  <2>1. CASE q # p
    BY <1>1, <2>1, CopiesAre
  <2>2. CASE q = p
    BY <1>1, <2>2 DEF Steady, Plain, Copies, Spends, Tickets, Writes, Loose
  <2> QED
    BY <2>1, <2>2
<1>3. CASE \E q \in Procs : proc'[q].pc = "publish" /\ proc'[q].seq >= n /\ c = proc'[q].snap
  <2> PICK q \in Procs : proc'[q].pc = "publish" /\ proc'[q].seq >= n /\ c = proc'[q].snap
    BY <1>3
  <2>1. CASE q # p
    BY <1>1, <2>1, CopiesAre
  <2>2. CASE q = p
    <3>1. c = Records' \/ (proc[p].pc = "ticket" /\ c = proc[p].snap)
      BY <1>1, <2>2 DEF Steady, Plain, Copies, Spends, Tickets, Writes, Loose
    <3> QED
      BY <3>1, CopiesAre
  <2> QED
    BY <2>1, <2>2
<1>4. CASE c = disk' /\ published' >= n
  BY <1>4, CopiesAre
<1> QED
  BY <1>2, <1>3, <1>4

\* As long as no late ticket overtakes a reader, no copy comes back that was superseded.
LEMMA SteadyCopies ==
  ASSUME BaseInv, NEW p \in Procs, NEW x, Steady(p, x)
  PROVE  CopyMoves
<1>1. proc' \in [Procs -> Proc] /\ proc'[p] = x /\ \A q \in Procs \ {p} : proc'[q] = proc[q]
  BY OneMoves
<1>2. \A q \in Procs : proc[q].seq \in Nat
  BY DEF BaseInv, Types, Proc
<1>3. nextSeq \in Nat /\ published \in Nat /\ TicketsHeld
  BY DEF BaseInv, Types
<1>4. published' \in Nat /\ \A q \in Procs : proc'[q].seq \in Nat
  BY SteadyTypes DEF Types, Proc
\* A writer is alone, or leaves the later of the two tickets on the file.
<1>5. ASSUME Writes(p, x)
      PROVE  /\ Alone(p) => \A q \in Procs \ {p} : proc[q].pc # "publish"
             /\ ~Alone(p) => published' >= published /\ published' >= proc[p].seq
             /\ \/ disk' = disk /\ published >= proc[p].seq
                \/ disk' = proc[p].snap /\ proc[p].seq >= published
             /\ proc[p].pc = "publish" /\ proc'[p].pc # "publish"
             /\ ~Alone(p) => \/ disk' = disk /\ published >= proc[p].seq /\ published' = published
                             \/ disk' = proc[p].snap /\ proc[p].seq >= published /\ published' = proc[p].seq
  <2>1. Alone(p) => \A q \in Procs \ {p} : proc[q].pc # "publish"
    BY <1>3 DEF Alone, TicketsHeld
  <2>2. \/ published > proc[p].seq /\ Published(p, published) /\ disk' = disk
        \/ ~(published > proc[p].seq) /\ Published(p, proc[p].seq) /\ disk' = proc[p].snap
    BY <1>5 DEF Writes
  <2>3. proc[p].pc = "publish" /\ proc'[p].pc # "publish"
    BY <1>1, <1>5 DEF Writes, Loose
  <2>4. proc[p].seq \in Nat /\ published \in Nat
    BY <1>2, <1>3
  <2>5. CASE published > proc[p].seq /\ Published(p, published) /\ disk' = disk
    BY <2>1, <2>3, <2>4, <2>5 DEF Published
  <2>6. CASE ~(published > proc[p].seq) /\ Published(p, proc[p].seq) /\ disk' = proc[p].snap
    BY <2>1, <2>3, <2>4, <2>6 DEF Published
  <2> QED
    BY <2>2, <2>5, <2>6
<1>6. ~Writes(p, x) => published' = published /\ disk' = disk /\ proc[p].pc # "publish"
  BY DEF Steady, Plain, Copies, Spends, Tickets, file, Loose
<1>7. ASSUME NEW c \in CopiesFrom(published)'
      PROVE  c = Records' \/ c \in CopiesFrom(published)
  <2>1. \/ c = Records'
        \/ \E q \in Procs : proc'[q].pc = "ticket" /\ c = proc'[q].snap
        \/ \E q \in Procs : proc'[q].pc = "publish" /\ proc'[q].seq >= published' /\ c = proc'[q].snap
        \/ c = disk' /\ published' >= published'
    BY <1>7 DEF CopiesFrom
  <2>2. \A q \in Procs \ {p} : proc[q].pc = "publish" /\ proc[q].seq >= published' => proc[q].seq >= published
    BY <1>2, <1>3, <1>4, <1>5, <1>6
  <2>3. \/ disk' = disk /\ published >= published
        \/ proc[p].pc = "publish" /\ disk' = proc[p].snap /\ proc[p].seq >= published
    BY <1>2, <1>3, <1>4, <1>5, <1>6
  <2> QED
    BY <1>3, <1>4, <2>1, <2>2, <2>3, CopiesMove
<1>8. ASSUME NEW q \in Procs, NEW c \in CopiesFrom(Level(q))'
      PROVE  c = Records' \/ c \in CopiesFrom(Level(q))
  <2>1. CASE proc'[q].pc = "publish"
    <3>1. Level(q)' = proc'[q].seq
      BY <2>1 DEF Level
    <3>2. \/ c = Records'
          \/ \E r \in Procs : proc'[r].pc = "ticket" /\ c = proc'[r].snap
          \/ \E r \in Procs : proc'[r].pc = "publish" /\ proc'[r].seq >= proc'[q].seq /\ c = proc'[r].snap
          \/ c = disk' /\ published' >= proc'[q].seq
      BY <1>8, <3>1 DEF CopiesFrom
    <3>3. CASE q # p
      <4>1. Level(q) = proc[q].seq /\ proc'[q].seq = proc[q].seq /\ proc[q].pc = "publish"
        BY <1>1, <2>1, <3>3 DEF Level
      <4>2. published' >= proc[q].seq =>
              \/ disk' = disk /\ published >= proc[q].seq
              \/ proc[p].pc = "publish" /\ disk' = proc[p].snap /\ proc[p].seq >= proc[q].seq
        <5>1. CASE Writes(p, x)
          <6>1. ~Alone(p)
            BY <1>5, <3>3, <4>1, <5>1
          <6> QED
            BY <1>5, <5>1, <6>1
        <5>2. CASE ~Writes(p, x)
          BY <1>6, <5>2
        <5> QED
          BY <5>1, <5>2
      <4> QED
        BY <1>2, <3>2, <4>1, <4>2, CopiesMove
    <3>4. CASE q = p
      <4>1. x.seq = nextSeq /\ published' = published /\ disk' = disk /\ proc[p].pc # "publish"
        BY <1>1, <2>1, <3>4 DEF Steady, Plain, Copies, Spends, Tickets, Writes, Loose
      <4>2. Level(q) = published
        BY <3>4, <4>1 DEF Level
      <4>3. \A r \in Procs \ {p} : proc[r].pc = "publish" /\ proc[r].seq >= nextSeq => proc[r].seq >= published
        BY <1>2, <1>3 DEF TicketsHeld
      <4>4. published' >= nextSeq => disk' = disk /\ published >= published
        BY <1>3, <4>1
      <4> QED
        BY <1>1, <1>3, <3>2, <3>4, <4>1, <4>2, <4>3, <4>4, CopiesMove
    <3> QED
      BY <3>3, <3>4
  <2>2. CASE proc'[q].pc # "publish"
    <3>1. Level(q)' = published'
      BY <2>2 DEF Level
    <3>2. c \in CopiesFrom(published)'
      BY <1>8, <3>1 DEF CopiesFrom
    <3>3. CASE proc[q].pc # "publish"
      BY <1>7, <3>2, <3>3 DEF Level
    <3>4. CASE proc[q].pc = "publish"
      <4>1. q = p /\ Writes(p, x) /\ Level(q) = proc[p].seq
        BY <1>1, <1>6, <2>2, <3>4 DEF Level
      <4>2. \/ c = Records'
            \/ \E r \in Procs : proc'[r].pc = "ticket" /\ c = proc'[r].snap
            \/ \E r \in Procs : proc'[r].pc = "publish" /\ proc'[r].seq >= published' /\ c = proc'[r].snap
            \/ c = disk' /\ published' >= published'
        BY <3>2 DEF CopiesFrom
      <4>3. \A r \in Procs \ {p} : proc[r].pc = "publish" /\ proc[r].seq >= published' => proc[r].seq >= proc[p].seq
        BY <1>2, <1>3, <1>4, <1>5, <4>1
      <4>4. \/ disk' = disk /\ published >= proc[p].seq
            \/ proc[p].pc = "publish" /\ disk' = proc[p].snap /\ proc[p].seq >= proc[p].seq
        BY <1>2, <1>5, <4>1
      <4> QED
        BY <1>2, <1>3, <1>4, <4>1, <4>2, <4>3, <4>4, CopiesMove
    <3> QED
      BY <3>3, <3>4
  <2> QED
    BY <2>1, <2>2
<1>9. ~overtook' => ~overtook
  BY DEF Steady, Plain, Copies, Spends, Tickets, Writes, NoteRead
<1> QED
  BY <1>7, <1>8, <1>9 DEF CopyMoves

\* Nothing but the map counts beside a copy just made.
LEMMA CopyIsTheMap ==
  ASSUME BaseInv, NEW p \in Procs, NEW x, Steady(p, x), Copies(p, x), ~overtook'
  PROVE  \A c \in CopiesFrom(Level(p))' : c = Records'
<1>1. proc' \in [Procs -> Proc] /\ proc'[p] = x /\ \A q \in Procs \ {p} : proc'[q] = proc[q]
  BY OneMoves
<1>2. \A q \in Procs : proc[q].seq \in Nat
  BY DEF BaseInv, Types, Proc
<1>3. nextSeq \in Nat /\ published \in Nat /\ TicketsHeld
  BY DEF BaseInv, Types
<1>4. \A q \in Procs : proc[q].pc # "ticket"
  BY DEF Copies, NoteRead
<1>5. Level(p)' = nextSeq
  BY <1>1 DEF Level, Copies
<1> SUFFICES ASSUME NEW c \in CopiesFrom(Level(p))' PROVE c = Records'
  OBVIOUS
<1>6. \/ c = Records'
      \/ \E r \in Procs : proc'[r].pc = "ticket" /\ c = proc'[r].snap
      \/ \E r \in Procs : proc'[r].pc = "publish" /\ proc'[r].seq >= nextSeq /\ c = proc'[r].snap
      \/ c = disk' /\ published' >= nextSeq
  BY <1>5 DEF CopiesFrom
<1>7. x.pc = "publish" /\ x.snap = Records' /\ published' = published
  BY DEF Copies
<1>8. \A r \in Procs : proc'[r].pc # "ticket"
  BY <1>1, <1>4, <1>7
<1>9. \A r \in Procs : proc'[r].pc = "publish" /\ proc'[r].seq >= nextSeq => r = p
  BY <1>1, <1>2, <1>3 DEF TicketsHeld
<1> QED
  BY <1>1, <1>3, <1>6, <1>7, <1>8, <1>9 DEF TicketsHeld

-----------------------------------------------------------------------------
(* The steps of the running process, one by one.                           *)

\* The clock, and where numbers and ids lie.
LEMMA Here ==
  ASSUME BaseInv
  PROVE  /\ now \in Times /\ now \in Nat /\ now >= 1 /\ Times \subseteq Nat /\ 0 \in Shapes
         /\ calls \in 0..MaxCalls /\ MaxCalls \in Nat
         /\ Timed \subseteq Tasks /\ Rules \subseteq Tasks
BY SchedulerAssumption DEF BaseInv, Types, Times, Tasks, Shapes

\* A process in flight is well formed.
LEMMA TheProc ==
  ASSUME BaseInv, NEW p \in Procs
  PROVE  proc[p] \in Proc /\ Shaped(proc[p]) /\ (proc[p].pc # "publish" => proc[p].seq = 0)
BY DEF BaseInv, Types, RunsShaped, TicketsHeld

\* A step of p that leaves the tickets, the file and the history alone.
LEMMA Turns ==
  ASSUME BaseInv, NEW p \in Procs, NEW x \in Proc, Shaped(x), Becomes(p, x),
         proc[p].pc \notin Loose, x.pc \notin Loose, x.seq = 0, up, MapMoves, JobsMove,
         UNCHANGED <<file, cooldowns, env, history>>, calls' \in 0..MaxCalls
  PROVE  Steady(p, x) /\ Plain(p, x) /\ ran' = ran /\ unwritten' = unwritten /\ cooldowns' = cooldowns
<1>1. unwritten' \in BOOLEAN /\ unsaved' \in BOOLEAN
  BY DEF BaseInv, Flags, history
<1>2. Plain(p, x)
  BY DEF Plain, history
<1>3. ran' = ran /\ unwritten' = unwritten /\ cooldowns' = cooldowns /\ now' = now /\ up' = up /\ crashes' = crashes
  BY DEF history, env
<1>4. cooldowns \in [Rules -> Times \cup {0}] /\ ran \in [Tasks -> [Times -> Nat]]
  BY DEF BaseInv, Types
<1> QED
  BY <1>1, <1>2, <1>3, <1>4 DEF Steady

\* A call is counted, and begins with an idle process.
LEMMA CallCounts ==
  ASSUME BaseInv, NEW p, NEW op, NEW t, Call(p, op, t)
  PROVE  /\ calls' \in 0..MaxCalls /\ up /\ proc[p].pc = "idle" /\ proc[p].pc \notin Loose
         /\ proc[p].pc \notin Unsaved
BY Here DEF Call, Loose, Unsaved

\* A call that has only to save.
Saver == [Idle EXCEPT !.op = "call", !.pc = "save"]

\* A call that has only to save is well formed.
LEMMA SaverIsProc ==
  /\ Saver \in Proc /\ Shaped(Saver) /\ Saver.op = "call" /\ Saver.pc = "save" /\ Saver.seq = 0
<1>1. /\ Idle.op = "none" /\ Idle.pc = "idle" /\ Idle.task = "" /\ Idle.seq = 0 /\ Idle \in Proc
  BY IdleIsProc DEF Idle
<1> QED
  BY <1>1 DEF Saver, Proc, Pcs, Shaped

\* What ends in SaveNext is an edit still to be saved.
LEMMA SavesNext ==
  ASSUME BaseInv, NEW p \in Procs, SaveNext(p), up, proc[p].pc \notin Loose, MapMoves, JobsMove,
         UNCHANGED <<file, cooldowns, env, history>>, calls' \in 0..MaxCalls
  PROVE  \E x : Edits(p, x) /\ KeepsRuns(p, x)
<1>1. Becomes(p, Saver)
  BY DEF SaveNext, Saver
<1>2. Saver.pc \notin Loose /\ Saver.seq = 0 /\ Saver.pc \in Unsaved
  BY SaverIsProc DEF Loose, Unsaved
<1>3. Steady(p, Saver) /\ ran' = ran /\ unwritten' = unwritten /\ cooldowns' = cooldowns
  BY <1>1, <1>2, SaverIsProc, Turns
<1>4. Edits(p, Saver) /\ KeepsRuns(p, Saver)
  BY <1>2, <1>3, SaverIsProc DEF Edits, KeepsRuns, KeepsRules, RunsOne
<1> QED
  BY <1>4

\* So is what ends in an error, for good: nobody is left to save it.
LEMMA Refuses ==
  ASSUME BaseInv, NEW p \in Procs, Refuse(p), up, proc[p].pc \notin Loose, MapMoves, JobsMove,
         UNCHANGED <<file, cooldowns, env, ran, overtook, unwritten>>, calls' \in 0..MaxCalls
  PROVE  \E x : Edits(p, x) /\ KeepsRuns(p, x)
<1>1. Becomes(p, Idle) /\ unsaved' = TRUE
  BY DEF Refuse, Return
<1>2. Idle \in Proc /\ Shaped(Idle) /\ Idle.seq = 0 /\ Idle.pc = "idle" /\ Idle.op = "none"
  BY IdleIsProc DEF Idle
<1>3. Plain(p, Idle)
  BY <1>1, <1>2 DEF Plain, Loose
<1>4. unwritten' \in BOOLEAN /\ unsaved' \in BOOLEAN
  BY <1>1 DEF BaseInv, Flags
<1>5. /\ cooldowns' \in [Rules -> Times \cup {0}] /\ ran' \in [Tasks -> [Times -> Nat]]
      /\ now' = now /\ up' = up /\ crashes' = crashes
  BY DEF BaseInv, Types, env
<1>6. Steady(p, Idle)
  BY <1>1, <1>2, <1>3, <1>4, <1>5 DEF Steady
<1>7. Edits(p, Idle) /\ KeepsRuns(p, Idle)
  BY <1>1, <1>2, <1>6 DEF Edits, KeepsRuns, KeepsRules, RunsOne
<1> QED
  BY <1>7

\* And what goes on to settle the question, or to save.
LEMMA OnwardNext ==
  ASSUME BaseInv, NEW p \in Procs, Onward(p), up, proc[p].pc \in {"unjob", "restate"}, MapMoves, JobsMove,
         UNCHANGED <<file, cooldowns, env, history>>, calls' \in 0..MaxCalls
  PROVE  \E x : Edits(p, x) /\ KeepsRuns(p, x)
<1>1. proc[p].pc \notin Loose
  BY DEF Loose
<1>2. CASE proc[p].ask # {FALSE}
  BY <1>1, <1>2, SavesNext DEF Onward
<1>3. CASE proc[p].ask = {FALSE}
  <2> DEFINE c == proc[p]
             x == [c EXCEPT !.pc = "settle"]
  <2>1. c \in Proc /\ c.seq = 0 /\ c.op \in {"call", "edit"} /\ c.task \in Tasks
    BY TheProc DEF Shaped
  <2>2. Becomes(p, x)
    BY <1>3 DEF Onward, Goto
  <2> HIDE DEF c
  <2>3. x \in Proc /\ x.pc = "settle" /\ x.op \in {"call", "edit"} /\ x.task \in Tasks /\ x.seq = 0
    BY <2>1 DEF Proc, Pcs
  <2> HIDE DEF x
  <2>4. Shaped(x) /\ x.pc \notin Loose /\ x.pc \in Unsaved
    BY <2>3 DEF Shaped, Loose, Unsaved
  <2>5. Steady(p, x) /\ ran' = ran /\ unwritten' = unwritten /\ cooldowns' = cooldowns
    BY <1>1, <2>2, <2>3, <2>4, Turns
  <2>6. Edits(p, x) /\ KeepsRuns(p, x)
    BY <2>3, <2>4, <2>5 DEF Edits, KeepsRuns, KeepsRules, RunsOne
  <2> QED
    BY <2>6
<1> QED
  BY <1>2, <1>3

\* create_task's insert is an edit.
LEMMA InsertSteady ==
  ASSUME BaseInv, NEW p \in Procs, Insert(p)
  PROVE  \E x : Edits(p, x) /\ KeepsRuns(p, x)
<1> DEFINE t == proc[p].task
           rec == [fireAt |-> proc[p].shape, paused |-> FALSE, ask |-> t \notin Rules,
                   missed |-> 0, asked |-> 0, last |-> 0, made |-> now]
<1>1. t \in Tasks /\ proc[p].shape \in Shapes /\ <<"create", t>> \in Requests /\ proc[p].pc = "insert" /\ up
  BY TheProc DEF Shaped, Insert, At
<1>2. rec \in Record /\ Fresh(rec)
  BY <1>1, Here DEF Record, Fresh
<1>3. Put(t, rec, ArmedId(t)) /\ jobs' = jobs \cup Armed(t, proc[p].shape) /\ SaveNext(p)
      /\ UNCHANGED <<file, cooldowns, env, history, calls>>
  BY DEF Insert
<1> HIDE DEF t, rec
<1>4. ArmedId(t) \in {NoJob, FreshJob}
  BY DEF ArmedId
<1>5. Types /\ now' = now
  BY <1>3 DEF BaseInv, env
<1>6. MapMoves
  BY <1>1, <1>2, <1>3, <1>4, <1>5, PutMoves
<1>7. JobsMove
  BY <1>1, <1>3, <1>5, ArmedMoves
<1> QED
  BY <1>1, <1>3, <1>6, <1>7, Here, SavesNext DEF Loose

\* Dropping a job is an edit.
LEMMA UnjobSteady ==
  ASSUME BaseInv, NEW p \in Procs, Unjob(p)
  PROVE  \E x : Edits(p, x) /\ KeepsRuns(p, x)
<1>1. proc[p].pc = "unjob" /\ up /\ Onward(p) /\ UNCHANGED <<tasks, file, cooldowns, env, history, calls>>
  BY DEF Unjob, At
<1>2. MapMoves
  BY <1>1, SameMoves DEF BaseInv
<1>3. jobs' \subseteq jobs
  BY DEF Unjob
<1>4. JobsMove
  BY <1>3, FewerJobs DEF BaseInv
<1> QED
  BY <1>1, <1>2, <1>4, Here, OnwardNext

\* So is failing to: the call goes on, or is refused.
LEMMA UnjobFailsSteady ==
  ASSUME BaseInv, NEW p \in Procs, UnjobFails(p)
  PROVE  \E x : Edits(p, x) /\ KeepsRuns(p, x)
<1>1. /\ proc[p].pc = "unjob" /\ proc[p].pc \notin Loose /\ up /\ tasks' = tasks /\ jobs' = jobs
      /\ UNCHANGED <<file, cooldowns, env, ran, overtook, unwritten, calls>>
      /\ Refuse(p) \/ (Onward(p) /\ UNCHANGED unsaved)
  BY DEF UnjobFails, At, Loose
<1>2. MapMoves /\ JobsMove
  BY <1>1, SameMoves, FewerJobs DEF BaseInv
<1>3. CASE Refuse(p)
  BY <1>1, <1>2, <1>3, Here, Refuses
<1>4. CASE Onward(p) /\ UNCHANGED unsaved
  <2>1. UNCHANGED history
    BY <1>1, <1>4 DEF history
  <2> QED
    BY <1>1, <1>2, <1>4, <2>1, Here, OnwardNext
<1> QED
  BY <1>1, <1>3, <1>4

\* update_task's second lock, without a job, is an edit.
LEMMA RestateSteady ==
  ASSUME BaseInv, NEW p \in Procs, Restate(p)
  PROVE  \E x : Edits(p, x) /\ KeepsRuns(p, x)
<1> DEFINE t == proc[p].task
           rec == [tasks[t].rec EXCEPT !.fireAt = proc[p].shape]
<1>1. /\ proc[p].pc = "restate" /\ up /\ Onward(p)
      /\ jobs' = jobs /\ UNCHANGED <<file, cooldowns, env, history, calls>>
      /\ t \in Tasks /\ proc[p].shape \in Shapes
      /\ IF t \in DOMAIN tasks THEN Put(t, rec, tasks[t].job) ELSE UNCHANGED tasks
  BY TheProc DEF Shaped, Restate, At
<1>2. t \in DOMAIN tasks => rec \in Record /\ Edited(tasks[t].rec, rec)
  <2>1. t \in DOMAIN tasks => tasks[t].rec \in Record
    BY TheRecords DEF BaseInv
  <2>2. proc[p].shape \in Shapes
    BY <1>1
  <2> QED
    BY <2>1, <2>2 DEF Record, Edited
<1> HIDE DEF t, rec
<1>3. MapMoves
  BY <1>1, <1>2, SameMoves, PutMoves DEF BaseInv
<1>4. JobsMove
  BY <1>1, FewerJobs DEF BaseInv
<1> QED
  BY <1>1, <1>3, <1>4, Here, OnwardNext

\* Settling the question is an edit.
LEMMA SettleSteady ==
  ASSUME BaseInv, NEW p \in Procs, Settle(p)
  PROVE  \E x : Edits(p, x) /\ KeepsRuns(p, x)
<1> DEFINE t == proc[p].task
           rec == [tasks[t].rec EXCEPT !.missed = 0]
<1>1. /\ proc[p].pc \notin Loose /\ up /\ SaveNext(p)
      /\ jobs' = jobs /\ UNCHANGED <<file, cooldowns, env, history, calls>>
      /\ t \in Tasks
      /\ IF t \in DOMAIN tasks THEN Put(t, rec, tasks[t].job) ELSE UNCHANGED tasks
  BY TheProc DEF Shaped, Settle, At, Loose
<1>2. t \in DOMAIN tasks => rec \in Record /\ Edited(tasks[t].rec, rec)
  <2>1. t \in DOMAIN tasks => tasks[t].rec \in Record
    BY TheRecords DEF BaseInv
  <2> QED
    BY <2>1 DEF Record, Edited
<1> HIDE DEF t, rec
<1>3. MapMoves
  BY <1>1, <1>2, SameMoves, PutMoves DEF BaseInv
<1>4. JobsMove
  BY <1>1, FewerJobs DEF BaseInv
<1> QED
  BY <1>1, <1>3, <1>4, Here, SavesNext

\* resume_task is an edit.
LEMMA ResumeSteady ==
  ASSUME BaseInv, NEW p \in Procs, NEW t \in Tasks, Resume(p, t)
  PROVE  \E x : Edits(p, x) /\ KeepsRuns(p, x)
<1> DEFINE rec == [tasks[t].rec EXCEPT !.paused = FALSE, !.asked = now]
<1>1. /\ Call(p, "resume", t) /\ SaveNext(p) /\ t \in DOMAIN tasks
      /\ jobs' = jobs \cup Armed(t, tasks[t].rec.fireAt) /\ UNCHANGED <<file, cooldowns, env, history>>
      /\ Put(t, rec, ArmedId(t))
  BY DEF Resume
<1>2. rec \in Record /\ Edited(tasks[t].rec, rec) /\ tasks[t].rec.fireAt \in Shapes
  <2>1. tasks[t].rec \in Record
    BY <1>1, TheRecords DEF BaseInv
  <2>2. now \in Times
    BY Here
  <2> QED
    BY <2>1, <2>2 DEF Record, Edited
<1> HIDE DEF rec
<1>3. ArmedId(t) \in {NoJob, FreshJob} /\ now' = now
  BY <1>1 DEF ArmedId, env
<1>4. MapMoves
  BY <1>1, <1>2, <1>3, PutMoves DEF BaseInv
<1>5. JobsMove
  BY <1>1, <1>2, <1>3, ArmedMoves DEF BaseInv
<1> QED
  BY <1>1, <1>4, <1>5, CallCounts, SavesNext

\* update_task's second lock, with a new job, is an edit.
LEMMA RearmSteady ==
  ASSUME BaseInv, NEW p \in Procs, Rearm(p)
  PROVE  \E x : Edits(p, x) /\ KeepsRuns(p, x)
<1> DEFINE t == proc[p].task
           rec == [tasks[t].rec EXCEPT !.fireAt = proc[p].shape]
           x == [proc[p] EXCEPT !.pc = "unjob"]
<1>1. /\ proc[p].pc \notin Loose /\ proc[p].pc = "rearm" /\ up /\ Becomes(p, x)
      /\ jobs' = jobs \cup Armed(t, proc[p].shape) /\ UNCHANGED <<file, cooldowns, env, history, calls>>
      /\ t \in Tasks /\ proc[p].shape \in Shapes /\ proc[p].op \in {"call", "edit"}
      /\ IF t \in DOMAIN tasks THEN Put(t, rec, ArmedId(t)) ELSE UNCHANGED tasks
  BY TheProc DEF Shaped, Rearm, At, Loose, Goto
<1>2. t \in DOMAIN tasks => rec \in Record /\ Edited(tasks[t].rec, rec)
  <2>1. t \in DOMAIN tasks => tasks[t].rec \in Record
    BY TheRecords DEF BaseInv
  <2>2. proc[p].shape \in Shapes
    BY <1>1
  <2> QED
    BY <2>1, <2>2 DEF Record, Edited
<1>3. x \in Proc /\ Shaped(x) /\ x.pc = "unjob" /\ x.op \in {"call", "edit"} /\ x.seq = 0
  <2>1. proc[p] \in Proc /\ proc[p].task \in Tasks /\ proc[p].seq = 0 /\ proc[p].op \in {"call", "edit"}
    BY <1>1, TheProc
  <2>2. x \in Proc /\ x.pc = "unjob" /\ x.task \in Tasks /\ x.op \in {"call", "edit"} /\ x.seq = 0
    BY <2>1 DEF Proc, Pcs
  <2> HIDE DEF x
  <2> QED
    BY <2>2 DEF Shaped
<1> HIDE DEF t, rec, x
<1>4. ArmedId(t) \in {NoJob, FreshJob} /\ now' = now
  BY <1>1 DEF ArmedId, env
<1>5. MapMoves
  BY <1>1, <1>2, <1>4, SameMoves, PutMoves DEF BaseInv
<1>6. JobsMove
  BY <1>1, <1>4, ArmedMoves DEF BaseInv
<1>7. x.pc \notin Loose /\ x.pc \in Unsaved
  BY <1>3 DEF Loose, Unsaved
<1>8. Steady(p, x) /\ ran' = ran /\ unwritten' = unwritten /\ cooldowns' = cooldowns
  BY <1>1, <1>3, <1>5, <1>6, <1>7, Here, Turns
<1>9. Edits(p, x) /\ KeepsRuns(p, x)
  BY <1>3, <1>7, <1>8 DEF Edits, KeepsRuns, KeepsRules, RunsOne
<1> QED
  BY <1>9

\* A refused one leaves what the first lock changed.
LEMMA RearmRefusedSteady ==
  ASSUME BaseInv, NEW p \in Procs, RearmRefused(p)
  PROVE  \E x : Edits(p, x) /\ KeepsRuns(p, x)
<1>1. /\ proc[p].pc \notin Loose /\ up /\ Refuse(p) /\ tasks' = tasks /\ jobs' = jobs
      /\ UNCHANGED <<file, cooldowns, env, ran, overtook, unwritten, calls>>
  BY DEF RearmRefused, At, Loose
<1>2. MapMoves /\ JobsMove
  BY <1>1, SameMoves, FewerJobs DEF BaseInv
<1> QED
  BY <1>1, <1>2, Here, Refuses

\* What goes on to drop a job is an edit still to be saved.
LEMMA UnjobNext ==
  ASSUME BaseInv, NEW p \in Procs, NEW t \in Tasks, NEW job \in Nat, up, proc[p].pc \notin Loose,
         Becomes(p, [Idle EXCEPT !.op = "call", !.pc = "unjob", !.task = t, !.job = job]),
         MapMoves, JobsMove, UNCHANGED <<file, cooldowns, env, history>>, calls' \in 0..MaxCalls
  PROVE  \E x : Edits(p, x) /\ KeepsRuns(p, x)
<1> DEFINE x == [Idle EXCEPT !.op = "call", !.pc = "unjob", !.task = t, !.job = job]
<1>1. x \in Proc /\ Shaped(x) /\ x.pc = "unjob" /\ x.op = "call" /\ x.seq = 0
  <2>1. Idle \in Proc /\ Idle.seq = 0
    BY IdleIsProc DEF Idle
  <2>2. x \in Proc /\ x.pc = "unjob" /\ x.task \in Tasks /\ x.op = "call" /\ x.seq = 0
    BY <2>1 DEF Proc, Pcs
  <2> HIDE DEF x
  <2> QED
    BY <2>2 DEF Shaped
<1> HIDE DEF x
<1>2. x.pc \notin Loose /\ x.pc \in Unsaved
  BY <1>1 DEF Loose, Unsaved
<1>3. Becomes(p, x)
  BY DEF x
<1>4. Steady(p, x) /\ ran' = ran /\ unwritten' = unwritten /\ cooldowns' = cooldowns
  BY <1>1, <1>2, <1>3, Turns
<1>5. Edits(p, x) /\ KeepsRuns(p, x)
  BY <1>1, <1>2, <1>4 DEF Edits, KeepsRuns, KeepsRules, RunsOne
<1> QED
  BY <1>5

\* delete_task is an edit.
LEMMA DeleteSteady ==
  ASSUME BaseInv, NEW p \in Procs, NEW t \in Tasks, Delete(p, t)
  PROVE  \E x : Edits(p, x) /\ KeepsRuns(p, x)
<1>1. /\ Call(p, "delete", t) /\ t \in DOMAIN tasks /\ tasks' = Without(tasks, t)
      /\ jobs' = jobs /\ UNCHANGED <<file, cooldowns, env, history>>
      /\ Becomes(p, [Idle EXCEPT !.op = "call", !.pc = "unjob", !.task = t, !.job = tasks[t].job])
  BY DEF Delete
<1>2. <<"delete", t>> \in Requests /\ tasks[t].job \in Nat
  BY <1>1, TheRecords DEF Call, BaseInv
<1>3. MapMoves
  BY <1>1, <1>2, WithoutMoves DEF BaseInv
<1>4. JobsMove
  BY <1>1, FewerJobs DEF BaseInv
<1> QED
  BY <1>1, <1>2, <1>3, <1>4, CallCounts, UnjobNext

\* pause_task is an edit.
LEMMA PauseSteady ==
  ASSUME BaseInv, NEW p \in Procs, NEW t \in Tasks, Pause(p, t)
  PROVE  \E x : Edits(p, x) /\ KeepsRuns(p, x)
<1> DEFINE rec == [tasks[t].rec EXCEPT !.paused = TRUE]
<1>1. /\ Call(p, "pause", t) /\ t \in DOMAIN tasks /\ Put(t, rec, NoJob)
      /\ jobs' = jobs /\ UNCHANGED <<file, cooldowns, env, history>>
      /\ Becomes(p, [Idle EXCEPT !.op = "call", !.pc = "unjob", !.task = t, !.job = tasks[t].job])
  BY DEF Pause
<1>2. rec \in Record /\ Edited(tasks[t].rec, rec) /\ tasks[t].job \in Nat
  <2>1. tasks[t].rec \in Record /\ tasks[t].job \in Nat
    BY <1>1, TheRecords DEF BaseInv
  <2> QED
    BY <2>1 DEF Record, Edited
<1> HIDE DEF rec
<1>3. MapMoves
  BY <1>1, <1>2, PutMoves DEF BaseInv
<1>4. JobsMove
  BY <1>1, FewerJobs DEF BaseInv
<1> QED
  BY <1>1, <1>2, <1>3, <1>4, CallCounts, UnjobNext

\* update_task's first lock edits one record.
LEMMA EditMoves ==
  ASSUME BaseInv, NEW t \in DOMAIN tasks, NEW reshaped \in BOOLEAN, NEW ask \in {{}, {TRUE}, {FALSE}},
         Edit(t, reshaped, ask)
  PROVE  MapMoves
<1> DEFINE old == tasks[t].rec
           asked == IF reshaped \/ (ask = {TRUE} /\ ~old.ask) THEN now ELSE old.asked
           asks == IF ask = {} THEN old.ask ELSE ask = {TRUE}
           rec == [old EXCEPT !.asked = asked, !.ask = asks]
<1>1. old \in Record /\ t \in Tasks
  BY DEF BaseInv, Types
<1>2. Put(t, rec, tasks[t].job)
  BY <1>1 DEF Edit, Record
<1>3. asked \in {old.asked, now} /\ asks \in BOOLEAN /\ (asks /\ ~old.ask => asked = now)
  BY <1>1 DEF Record
<1>4. rec \in Record /\ Edited(old, rec)
  <2> HIDE DEF asked, asks
  <2> QED
    BY <1>1, <1>3, Here DEF Record, Edited
<1> HIDE DEF rec, asked, asks
<1> QED
  BY <1>1, <1>2, <1>4, PutMoves DEF BaseInv

\* It is an edit.
LEMMA UpdateSteady ==
  ASSUME BaseInv, NEW p \in Procs, NEW t \in Tasks, NEW shape \in Shapes \cup {SameShape},
         NEW ask \in SUBSET BOOLEAN, Update(p, t, shape, ask)
  PROVE  \E x : Edits(p, x) /\ KeepsRuns(p, x)
<1> DEFINE pc == CASE shape # SameShape -> IF tasks[t].rec.paused \/ t \in Rules
                                           THEN "restate" ELSE "rearm"
                   [] shape = SameShape /\ ask = {FALSE} -> "settle"
                   [] OTHER -> "save"
           x == [Idle EXCEPT !.op = "edit", !.task = t, !.shape = shape, !.ask = ask,
                             !.job = tasks[t].job, !.pc = pc]
<1>1. /\ Call(p, "update", t) /\ t \in DOMAIN tasks /\ Edit(t, shape # SameShape, ask)
      /\ jobs' = jobs /\ UNCHANGED <<file, cooldowns, env, history>>
      /\ Becomes(p, x)
      /\ ask \in {{}, {TRUE}, {FALSE}}
  BY DEF Update
<1>2. tasks[t].job \in Nat
  BY <1>1 DEF BaseInv, Types
<1>3. MapMoves
  <2> DEFINE reshaped == shape # SameShape
  <2>1. reshaped \in BOOLEAN /\ Edit(t, reshaped, ask)
    BY <1>1
  <2> HIDE DEF reshaped
  <2> QED
    BY <1>1, <2>1, EditMoves
<1>4. /\ pc \in {"rearm", "restate", "settle", "save"} /\ (pc = "rearm" => t \notin Rules)
      /\ pc \in {"restate", "rearm"} => shape \in Shapes
  <2>1. CASE shape # SameShape
    <3>1. pc = IF tasks[t].rec.paused \/ t \in Rules THEN "restate" ELSE "rearm"
      BY <2>1
    <3> HIDE DEF pc
    <3> QED
      BY <2>1, <3>1
  <2>2. CASE shape = SameShape
    <3>1. pc = IF ask = {FALSE} THEN "settle" ELSE "save"
      BY <2>2
    <3> HIDE DEF pc
    <3> QED
      BY <3>1
  <2> QED
    BY <2>1, <2>2
<1> HIDE DEF pc
<1>5. x \in Proc /\ Shaped(x) /\ x.pc = pc /\ x.op = "edit" /\ x.seq = 0
  <2>1. Idle \in Proc /\ Idle.seq = 0
    BY IdleIsProc DEF Idle
  <2> DEFINE job == tasks[t].job
  <2>2. job \in Nat
    BY <1>2
  <2> HIDE DEF job
  <2>3. x \in Proc /\ x.pc = pc /\ x.op = "edit" /\ x.seq = 0 /\ x.task = t /\ x.shape = shape
    <3>1. x = [Idle EXCEPT !.op = "edit", !.task = t, !.shape = shape, !.ask = ask, !.job = job, !.pc = pc]
      BY DEF job
    <3> HIDE DEF x
    <3> QED
      BY <1>4, <2>1, <2>2, <3>1 DEF Proc, Pcs
  <2>4. pc = "rearm" => t \in Timed
    BY <1>4 DEF Tasks
  <2> HIDE DEF x
  <2> QED
    BY <1>4, <2>3, <2>4 DEF Shaped
<1> HIDE DEF x
<1>6. JobsMove
  BY <1>1, FewerJobs DEF BaseInv
<1>7. x.pc \notin Loose /\ x.pc \in Unsaved
  BY <1>4, <1>5 DEF Loose, Unsaved
<1>8. Steady(p, x) /\ ran' = ran /\ unwritten' = unwritten /\ cooldowns' = cooldowns
  BY <1>1, <1>3, <1>5, <1>6, <1>7, CallCounts, Turns
<1>9. Edits(p, x) /\ KeepsRuns(p, x)
  BY <1>5, <1>7, <1>8 DEF Edits, KeepsRuns, KeepsRules, RunsOne
<1> QED
  BY <1>9

\* So is a refused one.
LEMMA UpdateRefusedSteady ==
  ASSUME BaseInv, NEW p \in Procs, NEW t \in Tasks, NEW ask \in SUBSET BOOLEAN, UpdateRefused(p, t, ask)
  PROVE  \E x : Edits(p, x) /\ KeepsRuns(p, x)
<1>1. /\ Call(p, "update", t) /\ t \in DOMAIN tasks /\ Edit(t, TRUE, ask) /\ Refuse(p) /\ jobs' = jobs
      /\ UNCHANGED <<file, cooldowns, env, ran, overtook, unwritten>>
      /\ ask \in {{}, {TRUE}, {FALSE}}
  BY DEF UpdateRefused
<1>2. MapMoves
  BY <1>1, EditMoves
<1>3. JobsMove
  BY <1>1, FewerJobs DEF BaseInv
<1> QED
  BY <1>1, <1>2, <1>3, CallCounts, Refuses

\* An answer leaves the run to be saved, and then made, behind.
Answering(t, run, at) ==
  [Idle EXCEPT !.op = "answer", !.pc = "save", !.task = t, !.ask = {run}, !.at = at]

\* The question is taken out of the record.
Unasked(old, new) == new = [old EXCEPT !.missed = 0]

\* answer_missed_run, whichever way the owner answers.
Answers(p, t) == \E run \in BOOLEAN : Answer(p, t, run)

\* answer_missed_run takes the question out of the map.
LEMMA AnswerSteady ==
  ASSUME BaseInv, NEW p \in Procs, NEW t \in Tasks, Answers(p, t)
  PROVE  /\ \E x : /\ Edits(p, x) /\ x.op = "answer" /\ x.pc = "save" /\ x.task = t
                   /\ x.at = tasks[t].rec.missed
         /\ ran' = ran /\ unwritten' = unwritten /\ jobs' = jobs
         /\ t \in Timed /\ t \in DOMAIN tasks /\ tasks[t].rec.missed \in 1..now
         /\ DOMAIN tasks' = DOMAIN tasks
         /\ Unasked(tasks[t].rec, tasks'[t].rec)
<1> PICK run \in BOOLEAN : Answer(p, t, run)
  BY DEF Answers
<1> DEFINE rec == [tasks[t].rec EXCEPT !.missed = 0]
           x == Answering(t, run, tasks[t].rec.missed)
<1>1. /\ Call(p, "answer", t) /\ t \in DOMAIN tasks /\ tasks[t].rec.missed # 0
      /\ Put(t, rec, tasks[t].job) /\ Becomes(p, x)
      /\ jobs' = jobs /\ UNCHANGED <<file, cooldowns, env, history>>
  BY DEF Answer, Answering
<1>2. rec \in Record /\ Edited(tasks[t].rec, rec) /\ tasks[t].rec \in Record
  <2>1. tasks[t].rec \in Record
    BY <1>1, TheRecords DEF BaseInv
  <2> QED
    BY <2>1 DEF Record, Edited
<1>3. tasks[t].rec.missed \in 1..now /\ t \notin Rules
  <2>1. tasks[t].rec.missed \in 0..now /\ (t \in Rules => tasks[t].rec.missed = 0)
    BY <1>1, TheRecords DEF BaseInv, AllPast, Past
  <2> QED
    BY <1>1, <2>1, Here
<1>4. t \in Timed
  BY <1>3 DEF Tasks
<1>5. /\ x \in Proc /\ Shaped(x) /\ x.seq = 0
      /\ x.op = "answer" /\ x.pc = "save" /\ x.task = t /\ x.at = tasks[t].rec.missed /\ x.ask = {run}
  <2>1. Idle \in Proc /\ Idle.seq = 0
    BY IdleIsProc DEF Idle
  <2>2. tasks[t].rec.missed \in Times \cup {0}
    BY <1>2 DEF Record
  <2>3. {run} \in SUBSET BOOLEAN
    OBVIOUS
  <2> DEFINE m == tasks[t].rec.missed
             a == {run}
  <2>4. m \in 1..now /\ m \in Times \cup {0} /\ a \in SUBSET BOOLEAN
    BY <1>3, <2>2, <2>3
  <2>5. x = [Idle EXCEPT !.op = "answer", !.pc = "save", !.task = t, !.ask = a, !.at = m]
    BY DEF Answering
  <2> HIDE DEF rec, m, a, x
  <2>6. /\ x \in Proc /\ x.seq = 0
        /\ x.op = "answer" /\ x.pc = "save" /\ x.task = t /\ x.at = m /\ x.ask = a
    BY <1>4, <2>1, <2>4, <2>5, Here DEF Proc, Pcs
  <2>7. Shaped(x)
    BY <1>4, <2>4, <2>6, Here DEF Shaped
  <2> QED
    BY <2>6, <2>7 DEF m, a
<1> HIDE DEF x, rec
<1>6. MapMoves /\ DOMAIN tasks' = DOMAIN tasks \cup {t} /\ tasks'[t].rec = rec
  BY <1>1, <1>2, PutMoves DEF BaseInv
<1>7. JobsMove
  BY <1>1, FewerJobs DEF BaseInv
<1>8. x.pc \notin Loose /\ x.pc \in Unsaved
  BY <1>5 DEF Loose, Unsaved
<1>9. Steady(p, x) /\ ran' = ran /\ unwritten' = unwritten /\ cooldowns' = cooldowns
  BY <1>1, <1>5, <1>6, <1>7, <1>8, CallCounts, Turns
<1>10. Edits(p, x)
  BY <1>5, <1>8, <1>9 DEF Edits, KeepsRules
<1> QED
  BY <1>1, <1>3, <1>4, <1>5, <1>6, <1>9, <1>10 DEF rec, Unasked

\* create_task's first look changes nothing.
LEMMA CreateSteady ==
  ASSUME BaseInv, NEW p \in Procs, NEW t \in Tasks, NEW shape \in Shapes, Create(p, t, shape)
  PROVE  \E x : Passes(p, x) /\ KeepsRuns(p, x) /\ KeepsRules(p, x)
<1> DEFINE x == [Idle EXCEPT !.op = "call", !.pc = "insert", !.task = t, !.shape = shape]
<1>1. /\ Call(p, "create", t) /\ Becomes(p, x) /\ tasks' = tasks
      /\ jobs' = jobs /\ UNCHANGED <<file, cooldowns, env, history>>
  BY DEF Create
<1>2. <<"create", t>> \in Requests
  BY <1>1 DEF Call
<1>3. x \in Proc /\ Shaped(x) /\ x.seq = 0 /\ x.op = "call" /\ x.pc = "insert"
  <2>1. Idle \in Proc /\ Idle.seq = 0
    BY IdleIsProc DEF Idle
  <2>2. /\ x \in Proc /\ x.seq = 0 /\ x.op = "call" /\ x.pc = "insert"
        /\ x.task = t /\ x.shape = shape
    BY <2>1 DEF Proc, Pcs
  <2> HIDE DEF x
  <2> QED
    BY <1>2, <2>2 DEF Shaped
<1> HIDE DEF x
<1>4. MapMoves /\ JobsMove
  BY <1>1, SameMoves, FewerJobs DEF BaseInv
<1>5. x.pc \notin Loose
  BY <1>3 DEF Loose
<1>6. Steady(p, x) /\ Plain(p, x) /\ ran' = ran /\ unwritten' = unwritten /\ cooldowns' = cooldowns
  BY <1>1, <1>3, <1>4, <1>5, CallCounts, Turns
<1>7. Passes(p, x) /\ KeepsRuns(p, x) /\ KeepsRules(p, x)
  BY <1>1, <1>3, <1>6, CallCounts DEF Passes, KeepsRuns, KeepsRules, RunsOne
<1> QED
  BY <1>7

\* run_now starts a run of no occurrence.
LEMMA RunNowSteady ==
  ASSUME BaseInv, NEW p \in Procs, NEW t \in Tasks, RunNow(p, t)
  PROVE  \E x : Passes(p, x) /\ KeepsRuns(p, x) /\ KeepsRules(p, x)
<1> DEFINE x == [Idle EXCEPT !.op = "now", !.pc = "stamp", !.task = t]
<1>1. /\ Call(p, "run", t) /\ Becomes(p, x) /\ tasks' = tasks
      /\ jobs' = jobs /\ UNCHANGED <<file, cooldowns, env, history>>
  BY DEF RunNow
<1>2. x \in Proc /\ Shaped(x) /\ x.seq = 0 /\ x.op = "now" /\ x.pc = "stamp"
  <2>1. Idle \in Proc /\ Idle.seq = 0
    BY IdleIsProc DEF Idle
  <2>2. x \in Proc /\ x.seq = 0 /\ x.op = "now" /\ x.pc = "stamp" /\ x.task = t
    BY <2>1 DEF Proc, Pcs
  <2> HIDE DEF x
  <2> QED
    BY <2>2 DEF Shaped
<1> HIDE DEF x
<1>3. MapMoves /\ JobsMove
  BY <1>1, SameMoves, FewerJobs DEF BaseInv
<1>4. x.pc \notin Loose
  BY <1>2 DEF Loose
<1>5. Steady(p, x) /\ Plain(p, x) /\ ran' = ran /\ unwritten' = unwritten /\ cooldowns' = cooldowns
  BY <1>1, <1>2, <1>3, <1>4, CallCounts, Turns
<1>6. Passes(p, x) /\ KeepsRuns(p, x) /\ KeepsRules(p, x)
  BY <1>1, <1>2, <1>5, CallCounts DEF Passes, KeepsRuns, KeepsRules, RunsOne
<1> QED
  BY <1>6

\* A one-shot's run is of no occurrence.
LEMMA FireOnceSteady ==
  ASSUME BaseInv, NEW p \in Procs, NEW k \in jobs, FireOnce(p, k)
  PROVE  \E x : Passes(p, x) /\ KeepsRuns(p, x) /\ KeepsRules(p, x)
<1> DEFINE x == [Idle EXCEPT !.op = "once", !.pc = "stamp", !.task = k.task, !.at = k.at]
<1>1. /\ up /\ proc[p].pc = "idle" /\ Becomes(p, x) /\ tasks' = tasks /\ k.at <= now
      /\ jobs' = jobs \ {k} /\ UNCHANGED <<file, cooldowns, env, history, calls>>
  BY DEF FireOnce
<1>2. k.task \in Timed /\ k.at \in Nat \ {0}
  BY DEF BaseInv, Types, Job
<1>3. k.at \in Times
  BY <1>1, <1>2, Here, SchedulerAssumption DEF Times
<1>4. x \in Proc /\ Shaped(x) /\ x.seq = 0 /\ x.op = "once" /\ x.pc = "stamp"
  <2>1. Idle \in Proc /\ Idle.seq = 0
    BY IdleIsProc DEF Idle
  <2>2. k.task \in Tasks
    BY <1>2, Here
  <2>3. /\ x \in Proc /\ x.seq = 0 /\ x.op = "once" /\ x.pc = "stamp" /\ x.task = k.task /\ x.at = k.at
    BY <1>3, <2>1, <2>2 DEF Proc, Pcs
  <2> HIDE DEF x
  <2> QED
    BY <1>2, <2>2, <2>3 DEF Shaped
<1> HIDE DEF x
<1>5. MapMoves /\ JobsMove
  BY <1>1, SameMoves, FewerJobs DEF BaseInv
<1>6. x.pc \notin Loose /\ proc[p].pc \notin Loose /\ proc[p].pc \notin Unsaved
  BY <1>1, <1>4 DEF Loose, Unsaved
<1>7. Steady(p, x) /\ Plain(p, x) /\ ran' = ran /\ unwritten' = unwritten /\ cooldowns' = cooldowns
  BY <1>1, <1>4, <1>5, <1>6, Here, Turns
<1>8. Passes(p, x) /\ KeepsRuns(p, x) /\ KeepsRules(p, x)
  BY <1>1, <1>4, <1>6, <1>7 DEF Passes, KeepsRuns, KeepsRules, RunsOne
<1> QED
  BY <1>8

\* start_run goes on with the run, or gives it up.
LEMMA StartRunSteady ==
  ASSUME BaseInv, NEW p \in Procs, StartRun(p)
  PROVE  \E x : Passes(p, x) /\ KeepsRuns(p, x) /\ KeepsRules(p, x)
<1> DEFINE y == [proc[p] EXCEPT !.pc = "stamp"]
<1>1. /\ up /\ proc[p].pc = "start" /\ (Becomes(p, y) \/ Becomes(p, Idle)) /\ tasks' = tasks
      /\ jobs' = jobs /\ UNCHANGED <<file, cooldowns, env, history, calls>>
  BY DEF StartRun, At, Goto, Return
<1>2. proc[p].op \in {"late", "rule"} /\ proc[p].seq = 0
  BY <1>1, TheProc DEF Shaped
<1>3. /\ y \in Proc /\ Shaped(y) /\ y.seq = 0 /\ y.pc = "stamp" /\ y.op = proc[p].op
      /\ y.task = proc[p].task /\ y.at = proc[p].at
  <2>1. proc[p] \in Proc /\ Shaped(proc[p])
    BY TheProc
  <2>2. /\ y \in Proc /\ y.seq = 0 /\ y.pc = "stamp" /\ y.op = proc[p].op
        /\ y.task = proc[p].task /\ y.at = proc[p].at
    BY <1>2, <2>1 DEF Proc, Pcs
  <2> HIDE DEF y
  <2> QED
    BY <1>2, <2>1, <2>2 DEF Shaped
<1>4. Idle \in Proc /\ Shaped(Idle) /\ Idle.seq = 0 /\ Idle.pc = "idle" /\ Idle.op = "none"
  BY IdleIsProc DEF Idle
<1> HIDE DEF y
<1>5. MapMoves /\ JobsMove
  BY <1>1, SameMoves, FewerJobs DEF BaseInv
<1>6. /\ y.pc \notin Loose /\ Idle.pc \notin Loose /\ proc[p].pc \notin Loose /\ proc[p].pc \notin Unsaved
  BY <1>1, <1>3, <1>4 DEF Loose, Unsaved
<1>7. ASSUME NEW x \in {y, Idle}, Becomes(p, x)
      PROVE  Passes(p, x) /\ KeepsRuns(p, x) /\ KeepsRules(p, x)
  <2>1. Steady(p, x) /\ Plain(p, x) /\ ran' = ran /\ unwritten' = unwritten /\ cooldowns' = cooldowns
    BY <1>1, <1>3, <1>4, <1>5, <1>6, <1>7, Here, Turns
  <2> QED
    BY <1>1, <1>2, <1>3, <1>4, <1>6, <1>7, <2>1 DEF Passes, KeepsRuns, KeepsRules, RunsOne, Noted
<1> QED
  BY <1>1, <1>7

\* An event starts the run of a rule.
LEMMA EventSteady ==
  ASSUME BaseInv, NEW p \in Procs, NEW t \in Rules, Event(p, t)
  PROVE  \E x : /\ Passes(p, x) /\ KeepsRuns(p, x)
                /\ x.op = "rule" /\ x.pc = "start" /\ x.task = t /\ x.at = now
<1> DEFINE x == [Idle EXCEPT !.op = "rule", !.pc = "start", !.task = t, !.at = now]
<1>1. /\ up /\ proc[p].pc = "idle" /\ Becomes(p, x) /\ tasks' = tasks
      /\ cooldowns' = [cooldowns EXCEPT ![t] = now]
      /\ jobs' = jobs /\ UNCHANGED <<file, env, history, calls>>
  BY DEF Event
<1>2. x \in Proc /\ Shaped(x) /\ x.seq = 0 /\ x.op = "rule" /\ x.pc = "start" /\ x.task = t /\ x.at = now
  <2>1. Idle \in Proc /\ Idle.seq = 0
    BY IdleIsProc DEF Idle
  <2>2. t \in Tasks /\ now \in Times /\ now \in 1..now
    BY Here
  <2>3. x \in Proc /\ x.seq = 0 /\ x.op = "rule" /\ x.pc = "start" /\ x.task = t /\ x.at = now
    BY <2>1, <2>2 DEF Proc, Pcs
  <2> HIDE DEF x
  <2> QED
    BY <2>2, <2>3 DEF Shaped
<1> HIDE DEF x
<1>3. MapMoves /\ JobsMove
  BY <1>1, SameMoves, FewerJobs DEF BaseInv
<1>4. x.pc \notin Loose /\ proc[p].pc \notin Loose /\ proc[p].pc \notin Unsaved
  BY <1>1, <1>2 DEF Loose, Unsaved
<1>5. Plain(p, x)
  BY <1>1, <1>2, <1>4 DEF Plain, history
<1>6. cooldowns' \in [Rules -> Times \cup {0}]
  BY <1>1, Here DEF BaseInv, Types
<1>7. /\ ran' = ran /\ unwritten' = unwritten /\ unsaved' = unsaved
      /\ now' = now /\ up' = up /\ crashes' = crashes /\ calls' = calls
  BY <1>1 DEF history, env
<1>8. unwritten' \in BOOLEAN /\ unsaved' \in BOOLEAN
  BY <1>7 DEF BaseInv, Flags
<1>9. ran' \in [Tasks -> [Times -> Nat]]
  BY <1>7 DEF BaseInv, Types
<1>10. Steady(p, x)
  BY <1>1, <1>2, <1>3, <1>5, <1>6, <1>7, <1>8, <1>9, Here DEF Steady
<1>11. Passes(p, x) /\ KeepsRuns(p, x)
  BY <1>1, <1>2, <1>4, <1>5, <1>7, <1>10 DEF Passes, KeepsRuns, RunsOne
<1> QED
  BY <1>2, <1>11

\* A run is over, or a one-shot is still to be removed.
LEMMA ExecuteSteady ==
  ASSUME BaseInv, NEW p \in Procs, Execute(p)
  PROVE  \E x : /\ Passes(p, x) /\ x.op \in {"none", "spent"} /\ proc[p].pc = "exec"
                /\ unwritten' = unwritten /\ cooldowns' = cooldowns /\ jobs' = jobs
<1> DEFINE c == proc[p]
           y == [c EXCEPT !.op = "spent", !.pc = "remove"]
<1>1. /\ up /\ c.pc = "exec" /\ ((c.op = "once" /\ Becomes(p, y)) \/ Becomes(p, Idle)) /\ tasks' = tasks
      /\ jobs' = jobs /\ UNCHANGED <<file, cooldowns, env, overtook, unwritten, unsaved, calls>>
  BY DEF Execute, At, Return
<1>2. c \in Proc /\ Shaped(c) /\ c.seq = 0 /\ c.task \in Tasks
  BY <1>1, TheProc DEF Shaped
<1>3. ran' \in [Tasks -> [Times -> Nat]]
  <2>1. ran \in [Tasks -> [Times -> Nat]]
    BY DEF BaseInv, Types
  <2>2. CASE c.op \in {"chain", "late", "rule"}
    <3>1. ran' = [ran EXCEPT ![c.task][c.at] = @ + 1]
      BY <2>2 DEF Execute
    <3>2. c.at \in Times
      BY <1>2, <2>2, Here, SchedulerAssumption DEF Shaped, Times
    <3> HIDE DEF c
    <3> QED
      BY <1>2, <2>1, <3>1, <3>2
  <2>3. CASE c.op \notin {"chain", "late", "rule"}
    BY <2>1, <2>3 DEF Execute
  <2> QED
    BY <2>2, <2>3
<1>4. c.op = "once" => y \in Proc /\ Shaped(y) /\ y.seq = 0 /\ y.pc = "remove" /\ y.op = "spent"
  <2>1. y \in Proc /\ y.seq = 0 /\ y.pc = "remove" /\ y.op = "spent" /\ y.task = c.task
    BY <1>2 DEF Proc, Pcs
  <2> HIDE DEF y
  <2> QED
    BY <1>2, <2>1 DEF Shaped
<1>5. Idle \in Proc /\ Shaped(Idle) /\ Idle.seq = 0 /\ Idle.pc = "idle" /\ Idle.op = "none"
  BY IdleIsProc DEF Idle
<1> HIDE DEF y
<1>6. MapMoves /\ JobsMove
  BY <1>1, SameMoves, FewerJobs DEF BaseInv
<1>7. proc[p].pc \notin Loose /\ proc[p].pc \notin Unsaved
  BY <1>1 DEF Loose, Unsaved
<1>8. unwritten' \in BOOLEAN /\ unsaved' \in BOOLEAN /\ overtook' = overtook
  BY <1>1 DEF BaseInv, Flags
<1>9. cooldowns' \in [Rules -> Times \cup {0}] /\ now' = now /\ up' = up /\ crashes' = crashes /\ calls' = calls
  BY <1>1 DEF BaseInv, Types, env
<1>10. ASSUME NEW x \in Proc, Shaped(x), x.seq = 0, x.pc \in {"remove", "idle"}, x.op \in {"none", "spent"}, Becomes(p, x)
       PROVE  Passes(p, x)
  <2>1. Plain(p, x)
    BY <1>1, <1>7, <1>8, <1>10 DEF Plain, Loose
  <2>2. Steady(p, x)
    BY <1>1, <1>3, <1>6, <1>8, <1>9, <1>10, <2>1, Here DEF Steady
  <2> QED
    BY <1>1, <1>7, <2>1, <2>2 DEF Passes
<1> QED
  BY <1>1, <1>4, <1>5, <1>10

\* A run with nothing to stamp goes on.
LEMMA StampNothingSteady ==
  ASSUME BaseInv, NEW p \in Procs, StampNothing(p)
  PROVE  \E x : /\ Passes(p, x) /\ x = [proc[p] EXCEPT !.pc = "exec"] /\ proc[p].pc = "stamp"
                /\ ran' = ran /\ cooldowns' = cooldowns /\ jobs' = jobs /\ NoteUnwritten(proc[p].task)
                /\ proc[p].task \notin DOMAIN tasks
<1> DEFINE x == [proc[p] EXCEPT !.pc = "exec"]
<1>1. /\ up /\ proc[p].pc = "stamp" /\ proc[p].task \notin DOMAIN tasks /\ Becomes(p, x) /\ tasks' = tasks
      /\ jobs' = jobs /\ UNCHANGED <<file, cooldowns, env, ran, overtook, unsaved, calls>>
      /\ NoteUnwritten(proc[p].task)
  BY DEF StampNothing, At, Goto
<1>2. x \in Proc /\ Shaped(x) /\ x.seq = 0 /\ x.pc = "exec"
  <2>1. proc[p] \in Proc /\ Shaped(proc[p]) /\ proc[p].seq = 0
    BY <1>1, TheProc
  <2>2. /\ x \in Proc /\ x.seq = 0 /\ x.pc = "exec" /\ x.op = proc[p].op
        /\ x.task = proc[p].task /\ x.at = proc[p].at
    BY <2>1 DEF Proc, Pcs
  <2> HIDE DEF x
  <2> QED
    BY <1>1, <2>1, <2>2 DEF Shaped
<1> HIDE DEF x
<1>3. MapMoves /\ JobsMove
  BY <1>1, SameMoves, FewerJobs DEF BaseInv
<1>4. proc[p].pc \notin Loose /\ proc[p].pc \notin Unsaved /\ x.pc \notin Loose
  BY <1>1, <1>2 DEF Loose, Unsaved
<1>5. unwritten' \in BOOLEAN /\ unsaved' \in BOOLEAN
  BY <1>1 DEF NoteUnwritten, BaseInv, Flags
<1>6. /\ cooldowns' \in [Rules -> Times \cup {0}] /\ now' = now /\ up' = up /\ crashes' = crashes /\ calls' = calls
      /\ ran' \in [Tasks -> [Times -> Nat]]
  BY <1>1 DEF BaseInv, Types, env
<1>7. Plain(p, x)
  BY <1>1, <1>2, <1>4 DEF Plain
<1>8. Steady(p, x)
  BY <1>1, <1>2, <1>3, <1>5, <1>6, <1>7, Here DEF Steady
<1>9. Passes(p, x)
  BY <1>1, <1>4, <1>7, <1>8 DEF Passes
<1> QED
  BY <1>1, <1>9 DEF x

\* The timer's run of a job, for the entry that names it.
LEMMA FireSteady ==
  ASSUME BaseInv, NEW p \in Procs, NEW k \in jobs, Fire(p, k)
  PROVE  \E x :
           /\ Steady(p, x) /\ Plain(p, x) /\ KeepsRules(p, x) /\ ran' = ran /\ unwritten' = unwritten
           /\ proc[p].pc = "idle" /\ x.op = "chain" /\ x.pc = "stamp" /\ x.task = k.task /\ x.at = k.at
           /\ ~k.once /\ k.task \in DOMAIN tasks /\ tasks[k.task].job = k.id
           /\ DOMAIN tasks' = DOMAIN tasks /\ tasks'[k.task].job = FreshJob
           /\ tasks'[k.task].rec = [tasks[k.task].rec EXCEPT !.missed = 0]
           /\ \A u \in DOMAIN tasks \ {k.task} : tasks'[u] = tasks[u]
<1> DEFINE t == k.task
           rec == [tasks[t].rec EXCEPT !.missed = 0]
           x == [Idle EXCEPT !.op = "chain", !.pc = "stamp", !.task = k.task, !.at = k.at]
<1>1. /\ up /\ proc[p].pc = "idle" /\ Becomes(p, x) /\ k.at <= now /\ ~k.once
      /\ t \in DOMAIN tasks /\ tasks[t].job = k.id /\ Put(t, rec, FreshJob)
      /\ jobs' = (jobs \ {k}) \cup {JobFor(FreshJob, t, 0)} /\ UNCHANGED <<file, cooldowns, env, history, calls>>
  BY DEF Fire
<1>2. t \in Timed /\ t \in Tasks /\ k.at \in Nat \ {0} /\ t \notin Rules
  BY Here, SchedulerAssumption DEF BaseInv, Types, Job
<1>3. k.at \in Times /\ k.at \in 1..now
  BY <1>1, <1>2, Here, SchedulerAssumption DEF Times
<1>4. x \in Proc /\ Shaped(x) /\ x.seq = 0 /\ x.op = "chain" /\ x.pc = "stamp" /\ x.task = t /\ x.at = k.at
  <2>1. Idle \in Proc /\ Idle.seq = 0
    BY IdleIsProc DEF Idle
  <2>2. x \in Proc /\ x.seq = 0 /\ x.op = "chain" /\ x.pc = "stamp" /\ x.task = t /\ x.at = k.at
    BY <1>2, <1>3, <2>1 DEF Proc, Pcs
  <2> HIDE DEF x
  <2> QED
    BY <1>2, <1>3, <2>2 DEF Shaped
<1>5. rec \in Record /\ Edited(tasks[t].rec, rec)
  BY <1>1, TheRecords DEF BaseInv, Record, Edited
<1> HIDE DEF x, rec
<1>6. /\ MapMoves /\ DOMAIN tasks' = DOMAIN tasks \cup {t} /\ tasks'[t].rec = rec /\ tasks'[t].job = FreshJob
      /\ \A u \in DOMAIN tasks \ {t} : tasks'[u] = tasks[u]
  <2> HIDE DEF t
  <2>1. Types
    BY DEF BaseInv
  <2> QED
    BY <1>1, <1>2, <1>5, <2>1, PutMoves
<1>7. JobsMove
  <2>1. jobs' \subseteq jobs \cup Armed(t, 0)
    BY <1>1, <1>2 DEF Armed
  <2>2. now' = now
    BY <1>1 DEF env
  <2> HIDE DEF t
  <2> QED
    BY <1>2, <2>1, <2>2, Here, ArmedMoves DEF BaseInv
<1>8. x.pc \notin Loose /\ proc[p].pc \notin Loose
  BY <1>1, <1>4 DEF Loose
<1>9. Steady(p, x) /\ Plain(p, x) /\ ran' = ran /\ unwritten' = unwritten /\ cooldowns' = cooldowns
  BY <1>1, <1>4, <1>6, <1>7, <1>8, Here, Turns
<1>10. KeepsRules(p, x)
  BY <1>4, <1>9 DEF KeepsRules
<1> QED
  BY <1>1, <1>4, <1>6, <1>9, <1>10 DEF rec

\* A copy of the map is taken, with its ticket.
LEMMA Copying ==
  ASSUME BaseInv, NEW p \in Procs, NEW x \in Proc, Shaped(x), Becomes(p, x), proc[p].pc \notin Loose, up,
         x.pc = "publish", x.seq = nextSeq, x.snap = Records', TakeTicket, NoteRead, MapMoves, jobs' = jobs,
         UNCHANGED <<published, disk, cooldowns, env, ran, calls>>, unwritten' = unwritten
  PROVE  Steady(p, x) /\ Copies(p, x)
<1>1. Copies(p, x)
  BY DEF Copies, TakeTicket
<1>2. JobsMove
  BY FewerJobs DEF BaseInv
<1>3. unwritten' \in BOOLEAN /\ unsaved' \in BOOLEAN
  BY DEF BaseInv, Flags, NoteRead
<1>4. /\ cooldowns' \in [Rules -> Times \cup {0}] /\ now' = now /\ up' = up /\ crashes' = crashes /\ calls' = calls
      /\ ran' \in [Tasks -> [Times -> Nat]]
  BY DEF BaseInv, Types, env
<1> QED
  BY <1>1, <1>2, <1>3, <1>4, Here DEF Steady

\* save takes a copy of the map as it is.
LEMMA SaveSteady ==
  ASSUME BaseInv, NEW p \in Procs, Save(p)
  PROVE  \E x :
           /\ Steady(p, x) /\ Copies(p, x) /\ KeepsRules(p, x) /\ tasks' = tasks /\ jobs' = jobs /\ Records' = Records
           /\ ran' = ran /\ unwritten' = unwritten
           /\ proc[p].pc = "save" /\ x.op = proc[p].op /\ x.task = proc[p].task /\ x.at = proc[p].at /\ x.ask = proc[p].ask
           /\ x.pc = "publish"
<1> DEFINE c == proc[p]
           x == [c EXCEPT !.pc = "publish", !.seq = Ticket, !.snap = Records]
<1>1. /\ up /\ c.pc = "save" /\ Becomes(p, x) /\ TakeTicket /\ NoteRead
      /\ UNCHANGED <<tasks, jobs, published, disk, cooldowns, env, ran, unwritten, calls>>
  BY DEF Save, At
<1>2. c \in Proc /\ Shaped(c) /\ Records \in Maps /\ nextSeq \in Nat
  BY TheProc, TheRecords DEF BaseInv, Types
<1> HIDE DEF c
<1>3. /\ x \in Proc /\ x.pc = "publish" /\ x.seq = nextSeq /\ x.snap = Records
      /\ x.op = c.op /\ x.task = c.task /\ x.at = c.at /\ x.ask = c.ask
  BY <1>2 DEF Ticket, Proc, Pcs
<1> HIDE DEF x
<1>4. Shaped(x) /\ c.op \in {"call", "edit", "answer"}
  BY <1>1, <1>2, <1>3 DEF Shaped
<1>5. MapMoves /\ Records' = Records
  BY <1>1, SameMoves DEF BaseInv
<1>6. proc[p].pc \notin Loose
  BY <1>1 DEF Loose, c
<1>7. Steady(p, x) /\ Copies(p, x)
  BY <1>1, <1>3, <1>4, <1>5, <1>6, Copying
<1>8. KeepsRules(p, x)
  BY <1>1, <1>3, <1>4 DEF KeepsRules
<1> QED
  BY <1>1, <1>3, <1>5, <1>7, <1>8 DEF c

\* The stamp: written with a copy, or riding on the next one.
LEMMA StampSteady ==
  ASSUME BaseInv, NEW p \in Procs, Stamp(p)
  PROVE  LET t == proc[p].task IN \E x :
           /\ Steady(p, x) /\ jobs' = jobs /\ ran' = ran /\ cooldowns' = cooldowns
           /\ proc[p].pc = "stamp" /\ x.op = proc[p].op /\ x.task = t /\ x.at = proc[p].at /\ x.ask = proc[p].ask
           /\ x.pc \in {"publish", "exec"}
           /\ t \in DOMAIN tasks /\ DOMAIN tasks' = DOMAIN tasks
           /\ tasks'[t].rec = [tasks[t].rec EXCEPT !.last = now]
           /\ \A u \in DOMAIN tasks \ {t} : tasks'[u] = tasks[u]
           /\ \/ Durable(t, tasks[t].rec) /\ Copies(p, x) /\ unwritten' = unwritten
              \/ ~Durable(t, tasks[t].rec) /\ Plain(p, x) /\ NoteUnwritten(t)
<1> DEFINE c == proc[p]
           t == c.task
           rec == [tasks[t].rec EXCEPT !.last = now]
           y == [c EXCEPT !.pc = "publish", !.seq = Ticket, !.snap = [Records EXCEPT ![t] = rec]]
           z == [c EXCEPT !.pc = "exec"]
<1>1. /\ up /\ c.pc = "stamp" /\ t \in DOMAIN tasks /\ Put(t, rec, tasks[t].job)
      /\ UNCHANGED <<jobs, published, disk, cooldowns, env, ran, calls>>
  BY DEF Stamp, At
<1>2. IF Durable(t, rec) THEN Becomes(p, y) /\ TakeTicket /\ NoteRead /\ unwritten' = unwritten
      ELSE Becomes(p, z) /\ NoteUnwritten(t) /\ UNCHANGED <<nextSeq, overtook, unsaved>>
  BY DEF Stamp, Goto
<1>3. tasks[t].rec \in Record /\ rec \in Record /\ Edited(tasks[t].rec, rec) /\ t \in Tasks
  <2>1. tasks[t].rec \in Record /\ t \in Tasks
    BY <1>1, TheRecords DEF BaseInv, Types
  <2> HIDE DEF t
  <2> QED
    BY <2>1, Here DEF Record, Edited
<1>4. Durable(t, rec) <=> Durable(t, tasks[t].rec)
  <2>1. rec.ask = tasks[t].rec.ask
    BY <1>3 DEF Record
  <2> QED
    BY <2>1 DEF Durable
<1>5. c \in Proc /\ Shaped(c) /\ Records \in Maps /\ nextSeq \in Nat /\ DOMAIN Records = DOMAIN tasks /\ c.seq = 0
      /\ \A u \in DOMAIN tasks : Records[u] = tasks[u].rec
  BY <1>1, TheProc, TheRecords DEF BaseInv, Types
<1> HIDE DEF rec
<1>6. /\ MapMoves /\ DOMAIN tasks' = DOMAIN tasks /\ tasks'[t].rec = rec
      /\ \A u \in DOMAIN tasks \ {t} : tasks'[u] = tasks[u]
  <2> HIDE DEF t
  <2>1. Types
    BY DEF BaseInv
  <2> QED
    BY <1>1, <1>3, <2>1, PutMoves
<1>7. Records' = [Records EXCEPT ![t] = rec] /\ Records' \in Maps
  <2>1. DOMAIN Records' = DOMAIN Records /\ Records' = [u \in DOMAIN Records |-> tasks'[u].rec]
    BY <1>5, <1>6 DEF Records
  <2>2. Records = [u \in DOMAIN Records |-> Records[u]]
    BY DEF Records
  <2> HIDE DEF t
  <2>3. \A u \in DOMAIN Records : tasks'[u].rec = IF u = t THEN rec ELSE Records[u]
    BY <1>1, <1>5, <1>6
  <2>4. [Records EXCEPT ![t] = rec] = [u \in DOMAIN Records |-> IF u = t THEN rec ELSE Records[u]]
    BY <2>2
  <2> QED
    BY <2>1, <2>3, <2>4, <1>6, TheNewRecords
<1>8. proc[p].pc \notin Loose
  BY <1>1 DEF Loose
<1>9. CASE Durable(t, rec)
  <2>1. y = [c EXCEPT !.pc = "publish", !.seq = nextSeq, !.snap = Records']
    BY <1>7 DEF Ticket
  <2> HIDE DEF c, y
  <2>2. /\ y \in Proc /\ y.pc = "publish" /\ y.seq = nextSeq /\ y.snap = Records'
        /\ y.op = c.op /\ y.task = c.task /\ y.at = c.at /\ y.ask = c.ask
    BY <1>5, <1>7, <2>1 DEF Proc, Pcs
  <2>3. Shaped(y)
    BY <1>1, <1>5, <2>2 DEF Shaped
  <2>4. Steady(p, y) /\ Copies(p, y)
    BY <1>1, <1>2, <1>6, <1>8, <1>9, <2>2, <2>3, Copying
  <2> QED
    BY <1>1, <1>2, <1>4, <1>6, <1>9, <2>2, <2>4 DEF c, rec
<1>10. CASE ~Durable(t, rec)
  <2> HIDE DEF c
  <2>2. /\ z \in Proc /\ z.pc = "exec" /\ z.seq = 0
        /\ z.op = c.op /\ z.task = c.task /\ z.at = c.at /\ z.ask = c.ask
    BY <1>5 DEF Proc, Pcs
  <2> HIDE DEF z
  <2>3. Shaped(z)
    BY <1>1, <1>5, <2>2 DEF Shaped
  <2>4. Plain(p, z)
    BY <1>1, <1>2, <1>8, <1>10, <2>2 DEF Plain, Loose, file
  <2>5. unwritten' \in BOOLEAN /\ unsaved' \in BOOLEAN
    BY <1>2, <1>10 DEF NoteUnwritten, BaseInv, Flags
  <2>6. /\ cooldowns' \in [Rules -> Times \cup {0}] /\ now' = now /\ up' = up /\ crashes' = crashes /\ calls' = calls
        /\ ran' \in [Tasks -> [Times -> Nat]] /\ JobsMove
    BY <1>1, FewerJobs DEF BaseInv, Types, env
  <2>7. Steady(p, z)
    BY <1>1, <1>2, <1>6, <1>10, <2>2, <2>3, <2>4, <2>5, <2>6, Here DEF Steady
  <2> QED
    BY <1>1, <1>2, <1>4, <1>6, <1>10, <2>2, <2>4, <2>7 DEF c, rec
<1> QED
  BY <1>9, <1>10

\* publish writes the copy unless the file is newer.
LEMMA PublishSteady ==
  ASSUME BaseInv, NEW p \in Procs, Publish(p)
  PROVE  \E x : /\ Steady(p, x) /\ Writes(p, x) /\ KeepsRuns(p, x) /\ KeepsRules(p, x)
                /\ x.pc \in {"exec", "start", "idle"}
<1> DEFINE c == proc[p]
           x == AfterPublish(c)
<1>1. /\ up /\ c.pc = "publish" /\ Becomes(p, x)
      /\ UNCHANGED <<tasks, jobs, cooldowns, env, history, calls>>
  BY DEF Publish, At
<1>2. \/ published > proc[p].seq /\ Published(p, published) /\ disk' = disk
      \/ ~(published > proc[p].seq) /\ Published(p, proc[p].seq) /\ disk' = proc[p].snap
  BY DEF Publish
<1>3. c \in Proc /\ Shaped(c)
  BY TheProc
<1>4. Idle \in Proc /\ Shaped(Idle) /\ Idle.seq = 0 /\ Idle.op = "none" /\ Idle.pc = "idle"
  BY IdleIsProc DEF Idle
<1>5. Empty \in Maps
  BY MapsAre DEF Empty
<1> HIDE DEF c
<1>6. /\ x \in Proc /\ Shaped(x) /\ x.seq = 0 /\ x.pc \in {"exec", "start", "idle"}
      /\ RunsOne(x) => RunsOne(c) /\ x.task = c.task /\ x.at = c.at /\ Noted(c)
      /\ x.op # "answer" /\ (x.op = "chain" => c.op = "chain")
      /\ x.op = "rule" => c.op = "rule" /\ x.task = c.task /\ x.at = c.at
  <2>1. CASE c.op \in {"chain", "once", "late", "now", "rule"}
    <3>1. x = [c EXCEPT !.pc = "exec", !.snap = Empty, !.seq = 0]
      BY <2>1 DEF AfterPublish
    <3> HIDE DEF x
    <3>2. x \in Proc /\ x.pc = "exec" /\ x.seq = 0 /\ x.op = c.op /\ x.task = c.task /\ x.at = c.at /\ x.ask = c.ask
      BY <1>3, <1>5, <3>1 DEF Proc, Pcs
    <3>3. Shaped(x)
      BY <1>3, <2>1, <3>2 DEF Shaped
    <3> QED
      BY <1>1, <2>1, <3>2, <3>3 DEF RunsOne, Noted
  <2>2. CASE c.op = "answer" /\ c.ask = {TRUE}
    <3>1. x = [Idle EXCEPT !.op = "late", !.pc = "start", !.task = c.task, !.at = c.at]
      BY <2>2 DEF AfterPublish
    <3> HIDE DEF x
    <3>2. x \in Proc /\ x.pc = "start" /\ x.seq = 0 /\ x.op = "late" /\ x.task = c.task /\ x.at = c.at
      BY <1>3, <1>4, <3>1 DEF Proc, Pcs
    <3>3. Shaped(x)
      BY <1>3, <2>2, <3>2, Here DEF Shaped
    <3> QED
      BY <1>1, <2>2, <3>2, <3>3 DEF RunsOne, Noted
  <2>3. CASE c.op \notin {"chain", "once", "late", "now", "rule"} /\ ~(c.op = "answer" /\ c.ask = {TRUE})
    <3>1. x = Idle
      BY <2>3 DEF AfterPublish
    <3> HIDE DEF x
    <3> QED
      BY <1>4, <3>1 DEF RunsOne
  <2> QED
    BY <2>1, <2>2, <2>3
<1> HIDE DEF x
<1>7. MapMoves /\ JobsMove
  BY <1>1, SameMoves, FewerJobs DEF BaseInv
<1>8. Writes(p, x)
  BY <1>1, <1>2, <1>6 DEF Writes, Loose, history, c
<1>9. unwritten' \in BOOLEAN /\ unsaved' \in BOOLEAN /\ unwritten' = unwritten /\ ran' = ran /\ cooldowns' = cooldowns
  BY <1>1 DEF BaseInv, Flags, history
<1>10. /\ cooldowns' \in [Rules -> Times \cup {0}] /\ now' = now /\ up' = up /\ crashes' = crashes /\ calls' = calls
       /\ ran' \in [Tasks -> [Times -> Nat]]
  BY <1>1, <1>9 DEF BaseInv, Types, env
<1>11. Steady(p, x)
  BY <1>1, <1>6, <1>7, <1>8, <1>9, <1>10, Here DEF Steady
<1>12. KeepsRuns(p, x) /\ KeepsRules(p, x)
  BY <1>1, <1>6, <1>9 DEF KeepsRuns, KeepsRules, c
<1> QED
  BY <1>6, <1>8, <1>11, <1>12

\* A spent one-shot leaves the map, and copies it.
LEMMA RemoveSpentSteady ==
  ASSUME BaseInv, NEW p \in Procs, RemoveSpent(p)
  PROVE  \E x : Steady(p, x) /\ Spends(p, x) /\ KeepsRuns(p, x) /\ KeepsRules(p, x) /\ proc[p].pc = "remove"
<1> DEFINE c == proc[p]
           x == [c EXCEPT !.pc = "ticket", !.snap = Without(Records, c.task)]
<1>1. /\ up /\ c.pc = "remove" /\ Becomes(p, x) /\ tasks' = Without(tasks, c.task) /\ NoteRead
      /\ UNCHANGED <<jobs, file, cooldowns, env, ran, unwritten, calls>>
  BY DEF RemoveSpent, At
<1>2. c \in Proc /\ Shaped(c) /\ c.seq = 0 /\ c.op = "spent" /\ c.task \in Timed
  BY <1>1, TheProc DEF Shaped
<1> HIDE DEF c
<1>3. MapMoves /\ Records' = Without(Records, c.task)
  BY <1>1, <1>2, WithoutMoves DEF BaseInv
<1>4. Records' \in Maps
  BY <1>3, TheNewRecords
<1>5. x \in Proc /\ x.pc = "ticket" /\ x.seq = 0 /\ x.snap = Records' /\ x.op = "spent" /\ x.task = c.task /\ x.at = c.at
  BY <1>2, <1>3, <1>4 DEF Proc, Pcs
<1> HIDE DEF x
<1>6. Shaped(x)
  BY <1>2, <1>5 DEF Shaped
<1>7. Spends(p, x)
  BY <1>1, <1>5 DEF Spends, Loose, c
<1>8. JobsMove
  BY <1>1, FewerJobs DEF BaseInv
<1>9. unwritten' \in BOOLEAN /\ unsaved' \in BOOLEAN
  BY <1>1 DEF BaseInv, Flags, NoteRead
<1>10. /\ cooldowns' \in [Rules -> Times \cup {0}] /\ now' = now /\ up' = up /\ crashes' = crashes /\ calls' = calls
       /\ ran' \in [Tasks -> [Times -> Nat]]
  BY <1>1 DEF BaseInv, Types, env
<1>11. Steady(p, x)
  BY <1>1, <1>3, <1>5, <1>6, <1>7, <1>8, <1>9, <1>10, Here DEF Steady
<1>12. KeepsRuns(p, x) /\ KeepsRules(p, x)
  BY <1>1, <1>5 DEF KeepsRuns, KeepsRules, RunsOne
<1> QED
  BY <1>1, <1>7, <1>11, <1>12 DEF c

\* The one-shot's ticket comes later.
LEMMA LateTicketSteady ==
  ASSUME BaseInv, NEW p \in Procs, LateTicket(p)
  PROVE  \E x : Steady(p, x) /\ Tickets(p, x) /\ KeepsRuns(p, x) /\ KeepsRules(p, x)
<1> DEFINE c == proc[p]
           x == [c EXCEPT !.pc = "publish", !.seq = Ticket]
<1>1. /\ up /\ c.pc = "ticket" /\ Becomes(p, x) /\ TakeTicket
      /\ UNCHANGED <<tasks, jobs, published, disk, cooldowns, env, history, calls>>
  BY DEF LateTicket, At
<1>2. c \in Proc /\ Shaped(c) /\ c.op = "spent" /\ nextSeq \in Nat
  BY <1>1, TheProc DEF Shaped, BaseInv, Types
<1> HIDE DEF c
<1>3. x \in Proc /\ x.pc = "publish" /\ x.seq = nextSeq /\ x.snap = c.snap /\ x.op = "spent" /\ x.task = c.task /\ x.at = c.at
  BY <1>2 DEF Ticket, Proc, Pcs
<1> HIDE DEF x
<1>4. Shaped(x)
  BY <1>2, <1>3 DEF Shaped
<1>5. Tickets(p, x)
  BY <1>1, <1>3 DEF Tickets, TakeTicket, history, c
<1>6. MapMoves /\ JobsMove
  BY <1>1, SameMoves, FewerJobs DEF BaseInv
<1>7. unwritten' \in BOOLEAN /\ unsaved' \in BOOLEAN /\ unwritten' = unwritten /\ ran' = ran
  BY <1>1 DEF BaseInv, Flags, history
<1>8. /\ cooldowns' \in [Rules -> Times \cup {0}] /\ now' = now /\ up' = up /\ crashes' = crashes /\ calls' = calls
      /\ ran' \in [Tasks -> [Times -> Nat]]
  BY <1>1, <1>7 DEF BaseInv, Types, env
<1>9. Steady(p, x)
  BY <1>1, <1>3, <1>4, <1>5, <1>6, <1>7, <1>8, Here DEF Steady
<1>10. KeepsRuns(p, x) /\ KeepsRules(p, x)
  BY <1>1, <1>3, <1>7 DEF KeepsRuns, KeepsRules, RunsOne
<1> QED
  BY <1>5, <1>9, <1>10

-----------------------------------------------------------------------------
(* Restarts, and the clock.                                                *)

BootRecs == [t \in DOMAIN disk |-> AskMissed(t, disk[t])]

\* ask_about_a_missed_run leaves the record, or asks about this instant.
LEMMA AskMissedEdits ==
  ASSUME NEW t, NEW rec \in Record, now \in Times
  PROVE  /\ AskMissed(t, rec) \in Record
         /\ AskMissed(t, rec) # rec => /\ rec.ask /\ t \notin Rules /\ now > Since(rec)
                                       /\ AskMissed(t, rec) = [rec EXCEPT !.missed = now, !.asked = now]
<1>1. Since(rec) = Later(IF rec.last # 0 THEN rec.last ELSE rec.made, rec.asked)
  BY DEF Since
<1>2. CASE rec.ask /\ ~rec.paused /\ rec.fireAt = 0 /\ t \notin Rules /\ now > Since(rec)
  <2>1. AskMissed(t, rec) = [rec EXCEPT !.missed = now, !.asked = now]
    BY <1>1, <1>2 DEF AskMissed
  <2>2. [rec EXCEPT !.missed = now, !.asked = now] \in Record
    BY DEF Record
  <2> QED
    BY <1>2, <2>1, <2>2
<1>3. CASE ~(rec.ask /\ ~rec.paused /\ rec.fireAt = 0 /\ t \notin Rules /\ now > Since(rec))
  <2>1. AskMissed(t, rec) = rec
    BY <1>1, <1>3 DEF AskMissed
  <2> QED
    BY <2>1
<1> QED
  BY <1>2, <1>3

\* A finite set can be numbered.
LEMMA Numbering ==
  ASSUME NEW S, IsFiniteSet(S)
  PROVE  \E f \in [S -> 1 .. Cardinality(S)] : \A a, b \in S : a # b => f[a] # f[b]
<1> DEFINE n == Cardinality(S)
<1>1. n \in Nat
  BY FS_CardinalityType
<1>2. IsFiniteSet(1..n) /\ Cardinality(1..n) = n
  BY <1>1, FS_Interval
<1>3. ExistsBijection(S, 1..n)
  BY <1>2, FS_SameCardinalityBij
<1>4. PICK f : f \in Bijection(S, 1..n)
  BY <1>3, Fun_ExistsBij
<1>5. f \in [S -> 1..n] /\ \A a, b \in S : f[a] = f[b] => a = b
  BY <1>4, Fun_BijectionProperties
<1> QED
  BY <1>5

\* What a boot finds and makes.
LEMMA BootFacts ==
  ASSUME BaseInv, Boot
  PROVE  /\ ~up /\ up' = TRUE /\ (\A p \in Procs : proc[p].pc = "idle")
         /\ disk' = BootRecs /\ Records' = BootRecs /\ DOMAIN tasks' = DOMAIN disk
         /\ \A t \in DOMAIN disk : tasks'[t].rec = BootRecs[t]
         /\ tasks' \in [DOMAIN tasks' -> [rec : Record, job : Nat]]
         /\ BootRecs \in Maps /\ DOMAIN BootRecs = DOMAIN disk
         /\ \A t \in DOMAIN disk : BootRecs[t] = AskMissed(t, disk[t]) /\ disk[t] \in Record
         /\ DOMAIN disk \subseteq Tasks
         /\ jobs' \subseteq Job /\ IsFiniteSet(jobs') /\ (\A k \in jobs' : ~k.once => k.at = now + 1)
         /\ UNCHANGED <<now, proc, nextSeq, published, cooldowns, history, calls, crashes>>
<1> DEFINE recs == BootRecs
           armed == {t \in DOMAIN recs \cap Timed : ~recs[t].paused}
           id == CHOOSE f \in [armed -> 1 .. Cardinality(armed)] :
                      \A a, b \in armed : a # b => f[a] # f[b]
<1>1. /\ ~up /\ up' = TRUE /\ disk' = recs
      /\ tasks' = [t \in DOMAIN recs |-> [rec |-> recs[t], job |-> IF t \in armed THEN id[t] ELSE NoJob]]
      /\ jobs' = {JobFor(id[t], t, recs[t].fireAt) : t \in armed}
      /\ UNCHANGED <<now, proc, nextSeq, published, cooldowns, history, calls, crashes>>
  BY DEF Boot, BootRecs
<1>2. DOMAIN disk \subseteq Tasks /\ \A t \in DOMAIN disk : disk[t] \in Record
  BY MapsAre DEF BaseInv, Types
<1>3. /\ DOMAIN recs = DOMAIN disk /\ recs = [t \in DOMAIN recs |-> recs[t]]
      /\ \A t \in DOMAIN disk : recs[t] = AskMissed(t, disk[t]) /\ recs[t] \in Record
  BY <1>2, Here, AskMissedEdits DEF BootRecs
<1>4. recs \in Maps
  BY <1>2, <1>3, MapsAre
<1>5. IsFiniteSet(armed)
  <2>1. armed \subseteq Tasks
    BY <1>2, <1>3
  <2> QED
    BY <2>1, FS_Subset, SchedulerAssumption
<1> HIDE DEF recs
<1>6. id \in [armed -> 1 .. Cardinality(armed)]
  BY <1>5, Numbering
<1>7. Cardinality(armed) \in Nat
  BY <1>5, FS_CardinalityType
<1>8. \A t \in armed : id[t] \in Nat \ {0} /\ t \in Timed /\ t \in DOMAIN recs
  <2>1. \A t \in armed : t \in Timed /\ t \in DOMAIN recs
    OBVIOUS
  <2> HIDE DEF armed, id
  <2>2. \A t \in armed : id[t] \in Nat \ {0}
    BY <1>6, <1>7
  <2> QED
    BY <2>1, <2>2
<1> HIDE DEF armed, id
<1>9. /\ tasks' \in [DOMAIN tasks' -> [rec : Record, job : Nat]] /\ DOMAIN tasks' = DOMAIN disk
      /\ \A t \in DOMAIN disk : tasks'[t].rec = recs[t]
  BY <1>1, <1>3, <1>8 DEF NoJob
<1>10. \A t \in armed : /\ JobFor(id[t], t, recs[t].fireAt) \in Job
                        /\ ~JobFor(id[t], t, recs[t].fireAt).once => JobFor(id[t], t, recs[t].fireAt).at = now + 1
  <2> TAKE t \in armed
  <2>1. recs[t].fireAt \in Shapes
    BY <1>3, <1>8 DEF Record
  <2>2. Types
    BY DEF BaseInv
  <2> QED
    BY <1>8, <2>1, <2>2, JobForIsJob
<1>11. IsFiniteSet(jobs')
  <2> DEFINE f == [t \in armed |-> JobFor(id[t], t, recs[t].fireAt)]
  <2>1. IsFiniteSet({f[x] : x \in armed})
    <3> HIDE DEF f
    <3>1. DOMAIN f = armed /\ f = [x \in armed |-> f[x]]
      BY DEF f
    <3> QED
      BY <1>5, <3>1, ImageIsFinite
  <2>2. {f[x] : x \in armed} = jobs'
    BY <1>1
  <2> QED
    BY <2>1, <2>2
<1>12. jobs' \subseteq Job /\ \A k \in jobs' : ~k.once => k.at = now + 1
  BY <1>1, <1>10
<1>13. Records' = recs
  BY <1>3, <1>9 DEF Records
<1>14. \A p \in Procs : proc[p].pc = "idle"
  BY <1>1 DEF BaseInv, RunsShaped
<1> QED
  BY <1>1, <1>2, <1>3, <1>4, <1>9, <1>11, <1>12, <1>13, <1>14 DEF recs

\* A boot keeps the state sound.
LEMMA BootBase ==
  ASSUME BaseInv, Boot
  PROVE  BaseInv'
<1>1. Types'
  BY BootFacts DEF BaseInv, Types, history
<1>2. Flags' /\ TicketsHeld' /\ RunsShaped'
  <2>1. /\ now' = now /\ proc' = proc /\ nextSeq' = nextSeq /\ published' = published /\ up' = TRUE
        /\ overtook' = overtook /\ unwritten' = unwritten /\ unsaved' = unsaved
    BY BootFacts DEF history
  <2>2. Flags'
    BY <2>1 DEF BaseInv, Flags
  <2>3. TicketsHeld'
    BY <2>1 DEF BaseInv, TicketsHeld
  <2>4. RunsShaped'
    BY <2>1 DEF BaseInv, RunsShaped, Shaped
  <2> QED
    BY <2>2, <2>3, <2>4
<1>3. AllPast'
  <2>1. ASSUME NEW t \in DOMAIN BootRecs
        PROVE  /\ {BootRecs[t].missed, BootRecs[t].asked, BootRecs[t].last, BootRecs[t].made} \subseteq 0..now
               /\ t \in Rules => BootRecs[t].missed = 0
    <3>1. /\ {disk[t].missed, disk[t].asked, disk[t].last, disk[t].made} \subseteq 0..now
          /\ t \in Rules => disk[t].missed = 0
      BY <2>1, BootFacts DEF BaseInv, AllPast, Past
    <3>2. disk[t] \in Record /\ BootRecs[t] = AskMissed(t, disk[t])
      BY <2>1, BootFacts
    <3>3. CASE AskMissed(t, disk[t]) = disk[t]
      BY <3>1, <3>2, <3>3
    <3>4. CASE AskMissed(t, disk[t]) # disk[t]
      <4>1. t \notin Rules /\ BootRecs[t] = [disk[t] EXCEPT !.missed = now, !.asked = now]
        BY <3>2, <3>4, AskMissedEdits, Here
      <4>2. /\ BootRecs[t].missed = now /\ BootRecs[t].asked = now
            /\ BootRecs[t].last = disk[t].last /\ BootRecs[t].made = disk[t].made
        BY <3>2, <4>1 DEF Record
      <4>3. now \in 0..now
        BY Here
      <4> QED
        BY <3>1, <4>1, <4>2, <4>3
    <3> QED
      BY <3>3, <3>4
  <2>2. Past(BootRecs)
    BY <2>1 DEF Past
  <2>3. now' = now /\ Records' = BootRecs /\ disk' = BootRecs /\ proc' = proc /\ \A p \in Procs : ~Waiting(p)
    BY BootFacts DEF Waiting
  <2>4. Past(Records)' /\ Past(disk)'
    BY <2>2, <2>3 DEF Past
  <2>5. \A p \in Procs : ~Waiting(p)'
    BY <2>3 DEF Waiting
  <2> QED
    BY <2>4, <2>5 DEF AllPast
<1> QED
  BY <1>1, <1>2, <1>3 DEF BaseInv

\* A crash keeps the state sound.
LEMMA CrashBase ==
  ASSUME BaseInv, Crash
  PROVE  BaseInv'
<1>1. /\ up' = FALSE /\ tasks' = Empty /\ jobs' = {} /\ proc' = [p \in Procs |-> Idle] /\ nextSeq' = 1 /\ published' = 0
      /\ cooldowns' = [t \in Rules |-> 0] /\ now' = now /\ disk' = disk /\ calls' = calls
      /\ ran' = ran /\ overtook' = overtook /\ unwritten' = unwritten /\ unsaved' = FALSE
      /\ crashes < MaxCrashes /\ crashes' = crashes + 1
  BY DEF Crash, history
<1>2. Idle \in Proc /\ Shaped(Idle) /\ Idle.pc = "idle" /\ Idle.seq = 0
  BY IdleIsProc DEF Idle
<1>3. \A p \in Procs : proc'[p] = Idle
  BY <1>1
<1>4. Types'
  <2>1. tasks' \in [DOMAIN tasks' -> [rec : Record, job : Nat]] /\ DOMAIN tasks' \subseteq Tasks
    BY <1>1 DEF Empty
  <2>2. jobs' \subseteq Job /\ IsFiniteSet(jobs')
    BY <1>1, FS_EmptySet
  <2>3. crashes' \in 0..MaxCrashes
    BY <1>1, SchedulerAssumption DEF BaseInv, Types
  <2>4. proc' \in [Procs -> Proc]
    BY <1>1, <1>2
  <2>5. cooldowns' \in [Rules -> Times \cup {0}]
    BY <1>1
  <2> QED
    BY <1>1, <2>1, <2>2, <2>3, <2>4, <2>5 DEF BaseInv, Types
<1>5. Flags'
  BY <1>1 DEF BaseInv, Flags
<1>6. RunsShaped'
  <2>1. \A p \in Procs : Shaped(proc[p])'
    BY <1>1, <1>2, <1>3 DEF Shaped
  <2> QED
    BY <1>2, <1>3, <2>1 DEF RunsShaped
<1>7. TicketsHeld'
  BY <1>1, <1>2, <1>3 DEF TicketsHeld
<1>8. AllPast'
  <2>1. Past(Records)'
    BY <1>1 DEF Past, Records, Empty
  <2>2. Past(disk)'
    BY <1>1 DEF BaseInv, AllPast, Past
  <2>3. \A p \in Procs : ~Waiting(p)'
    BY <1>2, <1>3 DEF Waiting
  <2> QED
    BY <2>1, <2>2, <2>3 DEF AllPast
<1> QED
  BY <1>4, <1>5, <1>6, <1>7, <1>8 DEF BaseInv

\* The clock, and a job that stays quiet, change nothing else.
Idles ==
  /\ UNCHANGED <<up, tasks, proc, nextSeq, published, disk, cooldowns, ran, overtook,
                 unwritten, unsaved, calls, crashes>>
  /\ jobs' \subseteq jobs /\ now' \in Times /\ now' >= now

\* The clock moves alone.
LEMMA TickIdles ==
  ASSUME BaseInv, Tick
  PROVE  Idles
BY Here, SchedulerAssumption DEF Tick, Idles, file, history, Times

\* A superseded job goes alone.
LEMMA FireSupersededIdles ==
  ASSUME BaseInv, NEW k, FireSuperseded(k)
  PROVE  Idles
<1>1. /\ UNCHANGED <<up, tasks, proc, nextSeq, published, disk, cooldowns, ran, overtook,
                 unwritten, unsaved, calls, crashes>>
      /\ jobs' \subseteq jobs /\ now' = now
  BY DEF FireSuperseded, file, env, history
<1> QED
  BY <1>1, Here DEF Idles

\* Both keep the state sound.
LEMMA IdlesMoves ==
  ASSUME BaseInv, Idles
  PROVE  BaseInv' /\ MapMoves /\ JobsMove /\ CopyMoves
<1>1. /\ UNCHANGED <<up, tasks, proc, nextSeq, published, disk, cooldowns, ran, overtook,
                 unwritten, unsaved, calls, crashes>>
      /\ jobs' \subseteq jobs /\ now' \in Times /\ now' >= now /\ now' \in Nat /\ now \in Nat
  BY Here DEF Idles
<1>2. MapMoves /\ JobsMove /\ Records' = Records
  BY <1>1, SameMoves, FewerJobs DEF BaseInv
<1>3. CopyMoves
  BY <1>1, <1>2 DEF CopyMoves, CopiesFrom, Level
<1>4. Types' /\ Flags'
  <2>1. Types'
    BY <1>1, FS_Subset DEF BaseInv, Types
  <2>2. Flags'
    BY <1>1 DEF BaseInv, Flags
  <2> QED
    BY <2>1, <2>2
<1>5. TicketsHeld'
  BY <1>1 DEF BaseInv, TicketsHeld
<1>6. RunsShaped'
  <2>1. ASSUME NEW p \in Procs PROVE Shaped(proc[p])'
    <3>1. Shaped(proc[p]) /\ proc'[p] = proc[p]
      BY <1>1 DEF BaseInv, RunsShaped
    <3>2. proc[p].at \in 1..now => proc[p].at \in 1..now'
      BY <1>1
    <3> QED
      BY <3>1, <3>2 DEF Shaped
  <2> QED
    BY <1>1, <2>1 DEF BaseInv, RunsShaped
<1>7. AllPast'
  <2>1. 0..now \subseteq 0..now'
    BY <1>1
  <2>2. Past(Records)'
    <3>1. Past(Records)
      BY DEF BaseInv, AllPast
    <3> QED
      BY <1>2, <2>1, <3>1 DEF Past
  <2>3. Past(disk)'
    <3>1. Past(disk) /\ disk' = disk
      BY <1>1 DEF BaseInv, AllPast
    <3> QED
      BY <2>1, <3>1 DEF Past
  <2>4. ASSUME NEW p \in Procs, Waiting(p)' PROVE Past(proc[p].snap)'
    <3>1. Past(proc[p].snap) /\ proc'[p] = proc[p]
      BY <1>1, <2>4 DEF Waiting, BaseInv, AllPast
    <3> QED
      BY <2>1, <3>1 DEF Past
  <2> QED
    BY <2>2, <2>3, <2>4 DEF AllPast
<1> QED
  BY <1>2, <1>3, <1>4, <1>5, <1>6, <1>7 DEF BaseInv

\* The steps, by kind.
Plainly(p) ==
  \/ \E x : Edits(p, x) /\ KeepsRuns(p, x)
  \/ \E x : Passes(p, x) /\ KeepsRuns(p, x) /\ KeepsRules(p, x)
Specially(p) ==
  \/ Save(p) \/ Publish(p) \/ Stamp(p) \/ StampNothing(p) \/ Execute(p) \/ RemoveSpent(p) \/ LateTicket(p)
  \/ \E t \in Tasks : Answers(p, t)
  \/ \E k \in jobs : Fire(p, k)
  \/ \E t \in Rules : Event(p, t)

\* Every step is of one of the kinds.
LEMMA Kinds ==
  ASSUME BaseInv, Next
  PROVE  (\E p \in Procs : Plainly(p) \/ Specially(p)) \/ Idles \/ Crash \/ Boot
<1>1. ASSUME NEW p \in Procs, Step(p)
      PROVE  Plainly(p) \/ Specially(p)
  <2>1. CASE Insert(p) \/ Unjob(p) \/ Rearm(p) \/ Restate(p) \/ Settle(p)
    BY <2>1, InsertSteady, UnjobSteady, RearmSteady, RestateSteady, SettleSteady DEF Plainly
  <2>3. CASE UnjobFails(p) \/ RearmRefused(p)
    BY <2>3, UnjobFailsSteady, RearmRefusedSteady DEF Plainly
  <2>2. CASE StartRun(p)
    BY <2>2, StartRunSteady DEF Plainly
  <2> QED
    BY <1>1, <2>1, <2>2, <2>3 DEF Step, Specially
<1>2. ASSUME NEW p \in Procs, NEW t \in Tasks, Begin(p, t)
      PROVE  Plainly(p) \/ Specially(p)
  <2>1. CASE \E shape \in Shapes : Create(p, t, shape)
    BY <2>1, CreateSteady DEF Plainly
  <2>2. CASE Delete(p, t) \/ Pause(p, t) \/ Resume(p, t)
    BY <2>2, DeleteSteady, PauseSteady, ResumeSteady DEF Plainly
  <2>3. CASE RunNow(p, t)
    BY <2>3, RunNowSteady DEF Plainly
  <2>4. CASE \E shape \in Shapes \cup {SameShape}, ask \in SUBSET BOOLEAN : Update(p, t, shape, ask)
    BY <2>4, UpdateSteady DEF Plainly
  <2>5. CASE \E run \in BOOLEAN : Answer(p, t, run)
    BY <2>5 DEF Specially, Answers
  <2>6. CASE \E ask \in SUBSET BOOLEAN : UpdateRefused(p, t, ask)
    BY <2>6, UpdateRefusedSteady DEF Plainly
  <2> QED
    BY <1>2, <2>1, <2>2, <2>3, <2>4, <2>5, <2>6 DEF Begin
<1>3. ASSUME NEW p \in Procs, NEW k \in jobs, Fire(p, k) \/ FireOnce(p, k)
      PROVE  Plainly(p) \/ Specially(p)
  BY <1>3, FireOnceSteady DEF Plainly, Specially
<1>4. ASSUME NEW p \in Procs, NEW t \in Rules, Event(p, t)
      PROVE  Specially(p)
  BY <1>4 DEF Specially
<1> QED
  BY <1>1, <1>2, <1>3, <1>4, TickIdles, FireSupersededIdles DEF Next

\* Every step of the running process is steady.
LEMMA AllSteady ==
  ASSUME BaseInv, NEW p \in Procs, Plainly(p) \/ Specially(p)
  PROVE  \E x : Steady(p, x)
<1>1. CASE Plainly(p)
  BY <1>1 DEF Plainly, Edits, Passes
<1>2. CASE Save(p) \/ Publish(p) \/ Stamp(p)
  BY <1>2, SaveSteady, PublishSteady, StampSteady
<1>3. CASE StampNothing(p) \/ Execute(p)
  BY <1>3, StampNothingSteady, ExecuteSteady DEF Passes
<1>4. CASE RemoveSpent(p) \/ LateTicket(p)
  BY <1>4, RemoveSpentSteady, LateTicketSteady
<1>5. CASE \E t \in Tasks : Answers(p, t)
  <2> PICK t \in Tasks : Answers(p, t)
    BY <1>5
  <2>1. \E x : Edits(p, x)
    BY AnswerSteady
  <2> QED
    BY <2>1 DEF Edits
<1>6. CASE \E k \in jobs : Fire(p, k)
  BY <1>6, FireSteady
<1>7. CASE \E t \in Rules : Event(p, t)
  BY <1>7, EventSteady DEF Passes
<1> QED
  BY <1>1, <1>2, <1>3, <1>4, <1>5, <1>6, <1>7 DEF Specially

\* The state is sound at first.
LEMMA InitBase ==
  ASSUME Init
  PROVE  BaseInv
<1>1. /\ now = 1 /\ up = FALSE /\ tasks = Empty /\ jobs = {} /\ proc = [p \in Procs |-> Idle]
      /\ nextSeq = 1 /\ published = 0 /\ disk \in Stored /\ cooldowns = [t \in Rules |-> 0]
      /\ ran = [t \in Tasks |-> [i \in Times |-> 0]] /\ overtook = FALSE /\ unwritten = FALSE /\ unsaved = FALSE
      /\ calls = 0 /\ crashes = 0
  BY DEF Init
<1>2. Idle \in Proc /\ Shaped(Idle) /\ Idle.pc = "idle" /\ Idle.seq = 0
  BY IdleIsProc DEF Idle
<1>3. \A p \in Procs : proc[p] = Idle
  BY <1>1
<1>4. /\ DOMAIN disk \subseteq Tasks /\ disk \in [DOMAIN disk -> PastRecord]
      /\ \A t \in DOMAIN disk \cap Rules : disk[t].missed = 0
  BY <1>1, SchedulerAssumption
<1>5. \A t \in DOMAIN disk : /\ disk[t] \in Record /\ {disk[t].asked, disk[t].last, disk[t].made} \subseteq {0, 1}
                             /\ disk[t].missed <= disk[t].asked
  BY <1>4 DEF PastRecord
<1>6. Types
  <2>1. tasks \in [DOMAIN tasks -> [rec : Record, job : Nat]] /\ DOMAIN tasks \subseteq Tasks
    BY <1>1 DEF Empty
  <2>2. jobs \subseteq Job /\ IsFiniteSet(jobs)
    BY <1>1, FS_EmptySet
  <2>3. disk \in Maps
    BY <1>4, <1>5, MapsAre
  <2>4. proc \in [Procs -> Proc]
    BY <1>1, <1>2
  <2>5. /\ now \in Times /\ calls \in 0..MaxCalls /\ crashes \in 0..MaxCrashes
        /\ cooldowns \in [Rules -> Times \cup {0}] /\ ran \in [Tasks -> [Times -> Nat]]
    BY <1>1, SchedulerAssumption DEF Times
  <2> QED
    BY <1>1, <2>1, <2>2, <2>3, <2>4, <2>5 DEF Types
<1>7. Flags
  BY <1>1 DEF Flags
<1>8. RunsShaped /\ TicketsHeld
  BY <1>1, <1>2, <1>3 DEF RunsShaped, TicketsHeld
<1>9. AllPast
  <2>1. Past(Records)
    BY <1>1 DEF Past, Records, Empty
  <2>2. Past(disk)
    <3>1. ASSUME NEW t \in DOMAIN disk
          PROVE  {disk[t].missed, disk[t].asked, disk[t].last, disk[t].made} \subseteq 0..now
      <4>1. disk[t].missed \in Nat /\ disk[t].asked \in {0, 1} /\ disk[t].missed <= disk[t].asked
        BY <1>5, SchedulerAssumption DEF Record, Times
      <4> QED
        BY <1>1, <1>5, <4>1
    <3> QED
      BY <1>4, <3>1 DEF Past
  <2>3. \A p \in Procs : ~Waiting(p)
    BY <1>2, <1>3 DEF Waiting
  <2> QED
    BY <2>1, <2>2, <2>3 DEF AllPast
<1> QED
  BY <1>6, <1>7, <1>8, <1>9 DEF BaseInv

\* Every step keeps it sound.
LEMMA NextBase ==
  ASSUME BaseInv, [Next]_vars
  PROVE  BaseInv'
<1>1. CASE Next
  BY <1>1, Kinds, AllSteady, SteadyBase, IdlesMoves, CrashBase, BootBase
<1>2. CASE UNCHANGED vars
  <2>1. Idles
    BY <1>2, Here DEF vars, Idles
  <2> QED
    BY <2>1, IdlesMoves
<1> QED
  BY <1>1, <1>2

\* The schedules, the jobs, the calls and the saved file keep their types, and whoever is about to
\* write holds a ticket of their own.
THEOREM StateIsSound == Spec => [](BaseInv /\ TypeOK)
<1>1. BaseInv => TypeOK
  <2> SUFFICES ASSUME BaseInv PROVE TypeOK
    OBVIOUS
  <2>1. up \in BOOLEAN /\ {overtook, unwritten, unsaved} \subseteq BOOLEAN
    BY DEF BaseInv, Flags
  <2>2. /\ DOMAIN disk \subseteq Tasks /\ \A t \in DOMAIN disk : disk[t] \in Record
    BY MapsAre DEF BaseInv, Types
  <2>3. /\ now \in Times /\ DOMAIN tasks \subseteq Tasks
        /\ \A t \in DOMAIN tasks : tasks[t].rec \in Record /\ tasks[t].job \in Nat
        /\ published \in Nat /\ nextSeq \in Nat
    BY TheRecords DEF BaseInv, Types
  <2>4. \A k \in jobs : k.id \in Nat \ {NoJob} /\ k.task \in Timed
    BY DEF BaseInv, Types, Job
  <2>5. calls <= MaxCalls /\ crashes <= MaxCrashes /\ published < nextSeq
    BY DEF BaseInv, Types, TicketsHeld
  <2> QED
    BY <2>1, <2>2, <2>3, <2>4, <2>5 DEF TypeOK
<1> QED
  BY <1>1, InitBase, NextBase, PTL DEF Spec

-----------------------------------------------------------------------------
(* The file follows the map.                                               *)

\* A copy that agrees with a map that stays keeps agreeing, if nobody stamps.
LEMMA AgreesStays ==
  ASSUME tasks' = tasks, \A t \in DOMAIN tasks : Stamping(t) => Stamping(t)', NEW f, Agrees(f)
  PROVE  Agrees(f)'
<1> SUFFICES ASSUME NEW t \in DOMAIN tasks PROVE Same(t, f[t], tasks[t].rec)'
  BY DEF Agrees
<1>1. Same(t, f[t], tasks[t].rec)
  BY DEF Agrees
<1> QED
  BY <1>1 DEF Same, Durable

\* A run about to be stamped still is.
LEMMA StampingStays ==
  ASSUME BaseInv, NEW p \in Procs, NEW x, Steady(p, x), NEW t, Stamping(t),
         proc[p].pc = "stamp" /\ proc[p].task = t => x.pc = "stamp" /\ x.task = t
  PROVE  Stamping(t)'
<1>1. proc'[p] = x /\ \A q \in Procs \ {p} : proc'[q] = proc[q]
  BY OneMoves
<1>2. PICK q \in Procs : proc[q].pc = "stamp" /\ proc[q].task = t
  BY DEF Stamping
<1>3. proc'[q].pc = "stamp" /\ proc'[q].task = t
  BY <1>1, <1>2
<1> QED
  BY <1>3 DEF Stamping

\* A step without a copy leaves the newest one.
LEMMA PlainNewest ==
  ASSUME BaseInv, NEW p \in Procs, NEW x, Steady(p, x), Plain(p, x), NEW f, IsNewest(f)'
  PROVE  IsNewest(f)
<1>1. proc'[p] = x /\ \A q \in Procs \ {p} : proc'[q] = proc[q]
  BY OneMoves
<1>2. /\ \A q \in Procs : proc'[q].pc = "ticket" <=> proc[q].pc = "ticket"
      /\ \A q \in Procs : proc'[q].pc = "publish" <=> proc[q].pc = "publish"
      /\ \A q \in Procs : proc[q].pc \in Loose => proc'[q] = proc[q]
      /\ published' = published /\ disk' = disk
  BY <1>1 DEF Plain, Loose, file
<1>3. \A q \in Procs : Topmost(q)' => Topmost(q) /\ proc'[q] = proc[q]
  BY <1>2 DEF Topmost, Loose
<1>4. NoTicket' => NoTicket
  BY <1>2 DEF NoTicket
<1>5. CASE \E q \in Procs : proc'[q].pc = "ticket" /\ f = proc'[q].snap
  BY <1>2, <1>5 DEF IsNewest, Loose
<1>6. CASE NoTicket' /\ \E q \in Procs : Topmost(q)' /\ f = proc'[q].snap
  BY <1>3, <1>4, <1>6 DEF IsNewest
<1>7. CASE NoTicket' /\ (\A q \in Procs : proc'[q].pc = "publish" => proc'[q].seq < published') /\ f = disk'
  BY <1>2, <1>4, <1>7 DEF IsNewest, Loose
<1> QED
  BY <1>5, <1>6, <1>7 DEF IsNewest

\* A copy just taken is the newest.
LEMMA CopiesNewest ==
  ASSUME BaseInv, NEW p \in Procs, NEW x, Steady(p, x), Copies(p, x) \/ Spends(p, x), ~overtook', NEW f, IsNewest(f)'
  PROVE  f = Records'
<1>1. proc'[p] = x /\ \A q \in Procs \ {p} : proc'[q] = proc[q]
  BY OneMoves
<1>2. \A q \in Procs : proc[q].pc # "ticket"
  BY DEF Copies, Spends, NoteRead
<1>3. CASE Spends(p, x)
  <2>1. x.pc = "ticket" /\ x.snap = Records'
    BY <1>3 DEF Spends
  <2>2. ~NoTicket'
    BY <1>1, <2>1 DEF NoTicket
  <2>3. PICK q \in Procs : proc'[q].pc = "ticket" /\ f = proc'[q].snap
    BY <2>2 DEF IsNewest
  <2> QED
    BY <1>1, <1>2, <2>1, <2>3
<1>4. CASE Copies(p, x)
  <2>1. x.pc = "publish" /\ x.snap = Records' /\ x.seq = nextSeq /\ published' = published
    BY <1>4 DEF Copies
  <2>2. nextSeq \in Nat /\ published \in Nat /\ TicketsHeld /\ \A q \in Procs : proc[q].seq \in Nat
    BY DEF BaseInv, Types, Proc
  <2>3. \A q \in Procs : proc'[q].pc # "ticket"
    BY <1>1, <1>2, <2>1
  <2>4. \A q \in Procs \ {p} : proc'[q].pc = "publish" => proc'[q].seq < nextSeq
    BY <1>1, <2>2 DEF TicketsHeld
  <2>5. \A q \in Procs : Topmost(q)' => q = p
    <3> SUFFICES ASSUME NEW q \in Procs, Topmost(q)', q # p PROVE FALSE
      OBVIOUS
    <3>1. proc'[q].pc = "publish" /\ proc'[p].seq <= proc'[q].seq
      BY <1>1, <2>1 DEF Topmost
    <3>2. proc'[q].seq < nextSeq /\ proc'[q].seq \in Nat
      BY <1>1, <2>2, <2>4, <3>1
    <3> QED
      BY <1>1, <2>1, <2>2, <3>1, <3>2
  <2>6. ~(\A q \in Procs : proc'[q].pc = "publish" => proc'[q].seq < published')
    BY <1>1, <2>1, <2>2 DEF TicketsHeld
  <2> QED
    BY <1>1, <2>1, <2>3, <2>5, <2>6 DEF IsNewest
<1> QED
  BY <1>3, <1>4

\* A late ticket leaves the newest copy.
LEMMA TicketsNewest ==
  ASSUME BaseInv, NEW p \in Procs, NEW x, Steady(p, x), Tickets(p, x), NEW f, IsNewest(f)'
  PROVE  IsNewest(f)
<1>1. proc'[p] = x /\ \A q \in Procs \ {p} : proc'[q] = proc[q]
  BY OneMoves
<1>2. x.pc = "publish" /\ x.snap = proc[p].snap /\ x.seq = nextSeq /\ published' = published /\ proc[p].pc = "ticket"
  BY DEF Tickets
<1>3. nextSeq \in Nat /\ published \in Nat /\ TicketsHeld /\ \A q \in Procs : proc[q].seq \in Nat
  BY DEF BaseInv, Types, Proc
<1>4. \A q \in Procs : Topmost(q)' => q = p
  <2> SUFFICES ASSUME NEW q \in Procs, Topmost(q)', q # p PROVE FALSE
    OBVIOUS
  <2>1. proc'[q].pc = "publish" /\ proc'[p].seq <= proc'[q].seq
    BY <1>1, <1>2 DEF Topmost
  <2>2. proc'[q].seq < nextSeq /\ proc'[q].seq \in Nat
    BY <1>1, <1>3, <2>1 DEF TicketsHeld
  <2> QED
    BY <1>1, <1>2, <1>3, <2>1, <2>2
<1>5. ~(\A q \in Procs : proc'[q].pc = "publish" => proc'[q].seq < published')
  BY <1>1, <1>2, <1>3 DEF TicketsHeld
<1>6. CASE \E q \in Procs : proc'[q].pc = "ticket" /\ f = proc'[q].snap
  <2>1. PICK q \in Procs : proc'[q].pc = "ticket" /\ f = proc'[q].snap
    BY <1>6
  <2>2. q # p
    BY <1>1, <1>2, <2>1
  <2> QED
    BY <1>1, <2>1, <2>2 DEF IsNewest
<1>7. CASE \E q \in Procs : Topmost(q)' /\ f = proc'[q].snap
  BY <1>1, <1>2, <1>4, <1>7 DEF IsNewest
<1> QED
  BY <1>5, <1>6, <1>7 DEF IsNewest

\* Writing leaves the newest copy.
LEMMA WritesNewest ==
  ASSUME BaseInv, NEW p \in Procs, NEW x, Steady(p, x), Writes(p, x), NEW f, IsNewest(f)'
  PROVE  IsNewest(f)
<1>1. proc'[p] = x /\ \A q \in Procs \ {p} : proc'[q] = proc[q]
  BY OneMoves
<1>2. x.pc \notin Loose /\ proc[p].pc = "publish"
  BY DEF Writes
<1>3. nextSeq \in Nat /\ published \in Nat /\ TicketsHeld /\ \A q \in Procs : proc[q].seq \in Nat
  BY DEF BaseInv, Types, Proc
<1>4. /\ \A q \in Procs : proc'[q].pc = "ticket" <=> proc[q].pc = "ticket"
      /\ \A q \in Procs : proc'[q].pc = "publish" <=> proc[q].pc = "publish" /\ q # p
  BY <1>1, <1>2 DEF Loose
<1>5. NoTicket' <=> NoTicket
  BY <1>4 DEF NoTicket
<1>6. Alone(p) => \A q \in Procs \ {p} : proc[q].pc # "publish"
  BY <1>3 DEF Alone, TicketsHeld
<1>7. /\ proc[p].seq # published /\ proc[p].seq \in Nat
      /\ \/ disk' = disk /\ published > proc[p].seq /\ (~Alone(p) => published' = published)
         \/ disk' = proc[p].snap /\ proc[p].seq > published /\ (~Alone(p) => published' = proc[p].seq)
  <2>1. proc[p].seq # published /\ proc[p].seq \in Nat
    BY <1>2, <1>3 DEF TicketsHeld
  <2> QED
    BY <1>3, <2>1 DEF Writes, Published
<1>8. CASE \E q \in Procs : proc'[q].pc = "ticket" /\ f = proc'[q].snap
  <2>1. PICK q \in Procs : proc'[q].pc = "ticket" /\ f = proc'[q].snap
    BY <1>8
  <2>2. q # p
    BY <1>1, <1>2, <2>1 DEF Loose
  <2> QED
    BY <1>1, <2>1, <2>2 DEF IsNewest
<1>9. CASE NoTicket' /\ \E q \in Procs : Topmost(q)' /\ f = proc'[q].snap
  <2>1. PICK q \in Procs : Topmost(q)' /\ f = proc'[q].snap
    BY <1>9
  <2>2. proc'[q].pc = "publish" /\ q # p /\ proc'[q] = proc[q] /\ proc[q].pc = "publish"
    BY <1>1, <1>4, <2>1 DEF Topmost
  <2>3. ~Alone(p)
    BY <1>6, <2>2
  <2>4. proc[q].seq > published' /\ proc[q].seq \in Nat
    BY <1>3, <2>1, <2>2 DEF Topmost
  <2>5. proc[q].seq > published /\ proc[p].seq <= proc[q].seq
    BY <1>3, <1>7, <2>3, <2>4
  <2>6. ASSUME NEW r \in Procs, proc[r].pc = "publish" PROVE proc[r].seq <= proc[q].seq
    <3>1. CASE r = p
      BY <2>5, <3>1
    <3>2. CASE r # p
      <4>1. proc'[r].pc = "publish" /\ proc'[r] = proc[r]
        BY <1>1, <2>6, <3>2
      <4> QED
        BY <2>1, <2>2, <4>1 DEF Topmost
    <3> QED
      BY <3>1, <3>2
  <2>7. Topmost(q)
    BY <2>2, <2>5, <2>6 DEF Topmost
  <2> QED
    BY <1>5, <1>9, <2>1, <2>2, <2>7 DEF IsNewest
<1>10. CASE NoTicket' /\ (\A q \in Procs : proc'[q].pc = "publish" => proc'[q].seq < published') /\ f = disk'
  <2>1. CASE disk' = disk /\ published > proc[p].seq /\ (~Alone(p) => published' = published)
    <3>1. \A q \in Procs : proc[q].pc = "publish" => proc[q].seq < published
      <4> SUFFICES ASSUME NEW q \in Procs, proc[q].pc = "publish", q # p PROVE proc[q].seq < published
        BY <1>3, <1>7, <2>1
      <4>1. ~Alone(p) /\ proc'[q] = proc[q]
        BY <1>1, <1>6
      <4> QED
        BY <1>10, <2>1, <4>1
    <3> QED
      BY <1>5, <1>10, <2>1, <3>1 DEF IsNewest
  <2>2. CASE disk' = proc[p].snap /\ proc[p].seq > published /\ (~Alone(p) => published' = proc[p].seq)
    <3>1. \A q \in Procs : proc[q].pc = "publish" => proc[q].seq <= proc[p].seq
      <4> SUFFICES ASSUME NEW q \in Procs, proc[q].pc = "publish", q # p PROVE proc[q].seq <= proc[p].seq
        BY <1>3
      <4>1. ~Alone(p) /\ proc'[q] = proc[q]
        BY <1>1, <1>6
      <4>2. proc[q].seq < proc[p].seq
        BY <1>10, <2>2, <4>1
      <4> QED
        BY <1>3, <4>2
    <3>2. Topmost(p)
      BY <1>2, <2>2, <3>1 DEF Topmost
    <3> QED
      BY <1>5, <1>10, <2>2, <3>2 DEF IsNewest
  <2> QED
    BY <1>7, <2>1, <2>2
<1> QED
  BY <1>8, <1>9, <1>10 DEF IsNewest

\* The map agrees with itself.
LEMMA RecordsAgree ==
  ASSUME MapMoves
  PROVE  Agrees(Records)'
<1>1. DOMAIN Records' = DOMAIN tasks' /\ \A t \in DOMAIN tasks' : Records'[t] = tasks'[t].rec
  BY TheNewRecords
<1> QED
  BY <1>1 DEF Agrees, Same

\* The newest copy keeps agreeing when the map stays.
LEMMA FilePlain ==
  ASSUME BaseInv, FileInv, NEW p \in Procs, NEW x, Steady(p, x), Plain(p, x) \/ Tickets(p, x) \/ Writes(p, x),
         proc[p].pc \notin Unsaved, \A f : Agrees(f) => Agrees(f)'
  PROVE  FileInv'
<1>1. proc'[p] = x /\ \A q \in Procs \ {p} : proc'[q] = proc[q]
  BY OneMoves
<1> SUFFICES ASSUME ~overtook', up', ~Busy', ~unsaved', NEW f, IsNewest(f)' PROVE Agrees(f)'
  BY DEF FileInv, NewestAgrees
<1>2. ~overtook /\ up /\ ~unsaved
  BY DEF Steady, Plain, Tickets, Writes
<1>3. ~Busy
  BY <1>1 DEF Busy
<1>4. IsNewest(f)
  BY PlainNewest, TicketsNewest, WritesNewest
<1> QED
  BY <1>2, <1>3, <1>4 DEF FileInv, NewestAgrees

\* After a copy the newest agrees.
LEMMA FileCopied ==
  ASSUME BaseInv, NEW p \in Procs, NEW x, Steady(p, x), Copies(p, x) \/ Spends(p, x)
  PROVE  FileInv'
<1> SUFFICES ASSUME ~overtook', NEW f, IsNewest(f)' PROVE Agrees(f)'
  BY DEF FileInv, NewestAgrees
<1>1. f = Records'
  BY CopiesNewest
<1>2. Agrees(Records)'
  BY RecordsAgree DEF Steady
<1> QED
  BY <1>1, <1>2 DEF Agrees

\* A fired job closes its question, and the run about to be stamped makes up for it.
LEMMA FileFire ==
  ASSUME BaseInv, FileInv, NEW p \in Procs, NEW k \in jobs, Fire(p, k)
  PROVE  FileInv'
<1>1. PICK x :
           /\ Steady(p, x) /\ Plain(p, x)
           /\ proc[p].pc = "idle" /\ x.pc = "stamp" /\ x.task = k.task
           /\ k.task \in DOMAIN tasks /\ DOMAIN tasks' = DOMAIN tasks
           /\ tasks'[k.task].rec = [tasks[k.task].rec EXCEPT !.missed = 0]
           /\ \A u \in DOMAIN tasks \ {k.task} : tasks'[u] = tasks[u]
  BY FireSteady
<1>2. proc'[p] = x
  BY <1>1, OneMoves
<1>3. Stamping(k.task)'
  BY <1>1, <1>2 DEF Stamping
<1>4. \A t : Stamping(t) => Stamping(t)'
  BY <1>1, StampingStays
<1>5. tasks[k.task].rec \in Record
  BY <1>1, TheRecords DEF BaseInv
<1>6. ASSUME NEW f, Agrees(f) PROVE Agrees(f)'
  <2> SUFFICES ASSUME NEW t \in DOMAIN tasks PROVE Same(t, f[t], tasks[t].rec)'
    BY <1>1, <1>6 DEF Agrees
  <2>1. Same(t, f[t], tasks[t].rec)
    BY <1>6 DEF Agrees
  <2>2. CASE t # k.task
    BY <1>1, <1>4, <2>1, <2>2 DEF Same, Durable
  <2>3. CASE t = k.task
    <3> DEFINE old == tasks[t].rec
               new == tasks'[t].rec
    <3>1. /\ new.fireAt = old.fireAt /\ new.paused = old.paused /\ new.ask = old.ask
          /\ new.asked = old.asked /\ new.made = old.made /\ new.last = old.last
      BY <1>1, <1>5, <2>3 DEF Record
    <3> QED
      BY <1>3, <2>1, <2>3, <3>1 DEF Same, Durable
  <2> QED
    BY <2>2, <2>3
<1>7. proc[p].pc \notin Unsaved
  BY <1>1 DEF Unsaved
<1> QED
  BY <1>1, <1>6, <1>7, FilePlain

\* A stamp is copied, or is not worth writing.
LEMMA FileStamp ==
  ASSUME BaseInv, FileInv, NEW p \in Procs, Stamp(p)
  PROVE  FileInv'
<1> DEFINE t == proc[p].task
<1>1. PICK x :
           /\ Steady(p, x) /\ proc[p].pc = "stamp"
           /\ t \in DOMAIN tasks /\ DOMAIN tasks' = DOMAIN tasks
           /\ tasks'[t].rec = [tasks[t].rec EXCEPT !.last = now]
           /\ \A u \in DOMAIN tasks \ {t} : tasks'[u] = tasks[u]
           /\ Copies(p, x) \/ (~Durable(t, tasks[t].rec) /\ Plain(p, x))
  BY StampSteady
<1>2. CASE Copies(p, x)
  BY <1>1, <1>2, FileCopied
<1>3. CASE ~Durable(t, tasks[t].rec) /\ Plain(p, x)
  <2>1. \A u : u # t /\ Stamping(u) => Stamping(u)'
    BY <1>1, StampingStays
  <2>2. tasks[t].rec \in Record
    BY <1>1, TheRecords DEF BaseInv
  <2>3. ASSUME NEW f, Agrees(f) PROVE Agrees(f)'
    <3> SUFFICES ASSUME NEW u \in DOMAIN tasks PROVE Same(u, f[u], tasks[u].rec)'
      BY <1>1, <2>3 DEF Agrees
    <3>1. Same(u, f[u], tasks[u].rec)
      BY <2>3 DEF Agrees
    <3>2. CASE u # t
      BY <1>1, <2>1, <3>1, <3>2 DEF Same, Durable
    <3>3. CASE u = t
      <4> DEFINE old == tasks[u].rec
                 new == tasks'[u].rec
      <4>1. /\ new.fireAt = old.fireAt /\ new.paused = old.paused /\ new.ask = old.ask
            /\ new.asked = old.asked /\ new.made = old.made
        BY <1>1, <2>2, <3>3 DEF Record
      <4>2. ~Durable(u, old)
        BY <1>3, <3>3
      <4> QED
        BY <3>1, <4>1, <4>2 DEF Same, Durable
    <3> QED
      BY <3>2, <3>3
  <2>4. proc[p].pc \notin Unsaved
    BY <1>1 DEF Unsaved
  <2> QED
    BY <1>1, <1>3, <2>3, <2>4, FilePlain
<1> QED
  BY <1>1, <1>2, <1>3

\* Every step of the running process keeps the newest copy in agreement.
LEMMA FileSteady ==
  ASSUME BaseInv, FileInv, NEW p \in Procs, Plainly(p) \/ Specially(p)
  PROVE  FileInv'
<1>1. ASSUME NEW x, Edits(p, x) PROVE FileInv'
  <2>1. proc'[p] = x /\ (x.pc \in Unsaved \/ unsaved')
    BY <1>1, OneMoves DEF Edits
  <2> QED
    BY <2>1 DEF FileInv, Busy
<1>2. ASSUME NEW x, Passes(p, x) PROVE FileInv'
  <2>1. /\ Steady(p, x) /\ Plain(p, x) /\ tasks' = tasks /\ proc[p].pc \notin Unsaved
        /\ proc[p].pc = "stamp" /\ proc[p].task \in DOMAIN tasks => x.pc = "stamp" /\ x.task = proc[p].task
    BY <1>2 DEF Passes
  <2>2. \A t \in DOMAIN tasks : Stamping(t) => Stamping(t)'
    BY <2>1, StampingStays
  <2>3. \A f : Agrees(f) => Agrees(f)'
    BY <2>1, <2>2, AgreesStays
  <2> QED
    BY <2>1, <2>3, FilePlain
<1>3. ASSUME NEW x, Steady(p, x), Tickets(p, x) \/ Writes(p, x) PROVE FileInv'
  <2>1. tasks' = tasks /\ proc[p].pc \in {"ticket", "publish"}
    BY <1>3 DEF Tickets, Writes
  <2>2. \A t \in DOMAIN tasks : Stamping(t) => Stamping(t)'
    BY <1>3, <2>1, StampingStays
  <2>3. \A f : Agrees(f) => Agrees(f)'
    BY <2>1, <2>2, AgreesStays
  <2>4. proc[p].pc \notin Unsaved
    BY <2>1 DEF Unsaved
  <2> QED
    BY <1>3, <2>3, <2>4, FilePlain
<1>4. CASE Plainly(p)
  BY <1>1, <1>2, <1>4 DEF Plainly
<1>5. CASE Save(p)
  BY <1>5, SaveSteady, FileCopied
<1>6. CASE Publish(p)
  BY <1>3, <1>6, PublishSteady
<1>7. CASE Stamp(p)
  BY <1>7, FileStamp
<1>8. CASE StampNothing(p) \/ Execute(p)
  BY <1>2, <1>8, StampNothingSteady, ExecuteSteady
<1>9. CASE RemoveSpent(p)
  BY <1>9, RemoveSpentSteady, FileCopied
<1>10. CASE LateTicket(p)
  BY <1>3, <1>10, LateTicketSteady
<1>11. CASE \E t \in Tasks : Answers(p, t)
  <2> PICK t \in Tasks : Answers(p, t)
    BY <1>11
  <2>1. \E x : Edits(p, x)
    BY AnswerSteady
  <2> QED
    BY <1>1, <2>1
<1>12. CASE \E k \in jobs : Fire(p, k)
  BY <1>12, FileFire
<1>13. CASE \E t \in Rules : Event(p, t)
  BY <1>2, <1>13, EventSteady
<1> QED
  BY <1>4, <1>5, <1>6, <1>7, <1>8, <1>9, <1>10, <1>11, <1>12, <1>13 DEF Specially

\* So do the clock and a quiet job,
LEMMA FileIdles ==
  ASSUME BaseInv, FileInv, Idles
  PROVE  FileInv'
<1>1. UNCHANGED <<up, tasks, proc, nextSeq, published, disk, overtook, unsaved>>
  BY DEF Idles
<1>2. \A t : Stamping(t)' <=> Stamping(t)
  BY <1>1 DEF Stamping
<1>3. \A f : Agrees(f) => Agrees(f)'
  BY <1>1, <1>2, AgreesStays
<1>4. \A f : IsNewest(f)' <=> IsNewest(f)
  BY <1>1 DEF IsNewest, NoTicket, Topmost
<1>5. Busy' <=> Busy
  BY <1>1 DEF Busy
<1> QED
  BY <1>1, <1>3, <1>4, <1>5 DEF FileInv, NewestAgrees

\* and a boot, which writes what it makes.
LEMMA FileBoot ==
  ASSUME BaseInv, Boot
  PROVE  FileInv'
<1>1. /\ \A q \in Procs : proc'[q].pc = "idle"
      /\ disk' = BootRecs /\ DOMAIN BootRecs = DOMAIN tasks' /\ \A t \in DOMAIN tasks' : tasks'[t].rec = BootRecs[t]
  BY BootFacts
<1> SUFFICES ASSUME NEW f, IsNewest(f)' PROVE Agrees(f)'
  BY DEF FileInv, NewestAgrees
<1>2. f = BootRecs
  BY <1>1 DEF IsNewest, Topmost
<1> QED
  BY <1>1, <1>2 DEF Agrees, Same

\* So does every step.
LEMMA FileNext ==
  ASSUME BaseInv, FileInv, [Next]_vars
  PROVE  FileInv'
<1>1. CASE UNCHANGED vars
  <2>1. Idles
    BY <1>1, Here DEF vars, Idles
  <2> QED
    BY <2>1, FileIdles
<1>2. CASE Crash
  BY <1>2 DEF Crash, FileInv
<1> QED
  BY <1>1, <1>2, Kinds, FileSteady, FileIdles, FileBoot

\* At rest, the newest copy is the file.
LEMMA AtRestHolds ==
  ASSUME BaseInv, FileInv, ~overtook
  PROVE  NewestIsOnDisk
<1> SUFFICES ASSUME up, AtRest, ~unsaved PROVE Kept(disk) = Kept(Records)
  BY DEF NewestIsOnDisk
<1>1. \A p \in Procs : proc[p].pc \in {"idle", "insert", "exec", "start", "remove"}
  BY DEF AtRest
<1>2. ~Busy /\ IsNewest(disk) /\ \A t : ~Stamping(t)
  BY <1>1 DEF Busy, Unsaved, IsNewest, NoTicket, Stamping
<1>3. Agrees(disk)
  BY <1>2 DEF FileInv, NewestAgrees
<1>4. DOMAIN disk = DOMAIN tasks /\ DOMAIN Records = DOMAIN tasks
  BY <1>3, TheRecords DEF Agrees, BaseInv
<1>5. ASSUME NEW t \in DOMAIN tasks
      PROVE  (IF Durable(t, disk[t]) THEN disk[t] ELSE [disk[t] EXCEPT !.last = 0, !.missed = 0])
             = (IF Durable(t, Records[t]) THEN Records[t] ELSE [Records[t] EXCEPT !.last = 0, !.missed = 0])
  <2>1. disk[t] \in Record /\ Records[t] \in Record /\ Records[t] = tasks[t].rec
    BY <1>4, TheRecords, MapsAre DEF BaseInv, Types
  <2>2. Same(t, disk[t], Records[t])
    BY <1>3, <2>1 DEF Agrees
  <2>3. Durable(t, disk[t]) <=> Durable(t, Records[t])
    BY <2>2 DEF Same, Durable
  <2>4. CASE Durable(t, Records[t])
    <3>1. disk[t] = Records[t]
      BY <1>2, <2>1, <2>2, <2>4 DEF Same, Record
    <3> QED
      BY <3>1
  <2>5. CASE ~Durable(t, Records[t])
    <3>1. [disk[t] EXCEPT !.last = 0, !.missed = 0] = [Records[t] EXCEPT !.last = 0, !.missed = 0]
      BY <2>1, <2>2 DEF Same, Record
    <3> QED
      BY <2>3, <2>5, <3>1
  <2> QED
    BY <2>4, <2>5
<1> QED
  BY <1>4, <1>5 DEF Kept

\* With no call or run still to write, the file holds the map, unless a one-shot took its ticket
\* after somebody else read the map, or a call was refused after it had changed the map, which
\* nobody has copied since.  (SnapshotWriter; save, stamp_fire, update_task.)
THEOREM FileIsFaithful == Spec => []FileFollowsTheMap
<1>1. Init => FileInv
  BY DEF Init, FileInv
<1>2. BaseInv /\ FileInv /\ TypeOK => FileFollowsTheMap
  BY AtRestHolds DEF FileFollowsTheMap
<1>3. BaseInv /\ FileInv /\ [Next]_vars => FileInv'
  BY FileNext
<1> QED
  BY <1>1, <1>2, <1>3, StateIsSound, PTL DEF Spec

-----------------------------------------------------------------------------
(* An occurrence runs once.                                                *)

\* What a step of the running process, or the clock, guarantees.
Moves == MapMoves /\ JobsMove /\ CopyMoves /\ now' \in Times /\ now' >= now

\* Every step of the running process guarantees it.
LEMMA SteadyMoves ==
  ASSUME BaseInv, NEW p \in Procs, NEW x, Steady(p, x)
  PROVE  Moves /\ BaseInv'
<1>1. now' = now
  BY DEF Steady
<1> QED
  BY <1>1, Here, SteadyCopies, SteadyBase DEF Steady, Moves

\* No copy is ahead of the clock.
LEMMA CopiesArePast ==
  ASSUME BaseInv, NEW n, NEW c \in CopiesFrom(n)
  PROVE  c \in Maps /\ Past(c)
<1>1. \/ c = Records
      \/ \E q \in Procs : proc[q].pc = "ticket" /\ c = proc[q].snap
      \/ \E q \in Procs : proc[q].pc = "publish" /\ proc[q].seq >= n /\ c = proc[q].snap
      \/ c = disk
  BY CopiesAre
<1>2. CASE c = Records
  BY <1>2, TheRecords DEF BaseInv, AllPast
<1>3. CASE \E q \in Procs : proc[q].pc \in {"ticket", "publish"} /\ c = proc[q].snap
  <2>1. PICK q \in Procs : proc[q].pc \in {"ticket", "publish"} /\ c = proc[q].snap
    BY <1>3
  <2>2. proc[q].snap \in Maps
    BY DEF BaseInv, Types, Proc
  <2>3. Past(proc[q].snap)
    BY <2>1 DEF BaseInv, AllPast, Waiting
  <2> QED
    BY <2>1, <2>2, <2>3
<1>4. CASE c = disk
  BY <1>4 DEF BaseInv, AllPast, Types
<1> QED
  BY <1>1, <1>2, <1>3, <1>4

\* A record's instants are numbers.
LEMMA RecordNumbers ==
  ASSUME BaseInv, NEW rec \in Record
  PROVE  rec.missed \in Nat /\ rec.asked \in Nat /\ rec.last \in Nat /\ rec.made \in Nat /\ Since(rec) \in Nat
         /\ rec.ask \in BOOLEAN
<1>1. rec.missed \in Nat /\ rec.asked \in Nat /\ rec.last \in Nat /\ rec.made \in Nat /\ rec.ask \in BOOLEAN
  BY Here DEF Record
<1> QED
  BY <1>1 DEF Since, Later

\* A map that will not ask about a past occurrence never will.
LEMMA ClosedStays ==
  ASSUME BaseInv, MapMoves, NEW t, NEW i \in 1..now, Closed(Records, t, i)
  PROVE  Closed(Records', t, i)
<1> SUFFICES ASSUME t \in DOMAIN Records'
             PROVE  Records'[t].missed # i /\ (Records'[t].ask => Since(Records'[t]) >= i)
  BY DEF Closed
<1> DEFINE old == tasks[t].rec
           new == tasks'[t].rec
<1>1. t \in DOMAIN tasks' /\ Records'[t] = new /\ new \in Record
  BY TheNewRecords
<1>2. new.missed \in Nat /\ new.asked \in Nat /\ new.last \in Nat /\ new.made \in Nat
  BY <1>1, RecordNumbers
<1>3. now \in Nat /\ i \in Nat /\ i >= 1 /\ i <= now
  BY Here
<1>4. CASE t \in DOMAIN tasks /\ Edited(old, new)
  <2>1. old.missed \in Nat /\ old.asked \in Nat /\ old.last \in Nat /\ old.made \in Nat
    BY <1>4, TheRecords, RecordNumbers DEF BaseInv
  <2>2. old.missed # i /\ (old.ask => Since(old) >= i)
    BY <1>4, TheRecords DEF BaseInv, Closed
  <2>3. new.missed # i
    BY <1>3, <1>4, <2>2 DEF Edited
  <2>4. CASE new.asked = now
    BY <1>1, <1>2, <1>3, <2>3, <2>4 DEF Since, Later
  <2>5. CASE new.asked = old.asked /\ (new.ask => old.ask)
    <3>1. new.last \in {old.last, now} /\ new.made = old.made
      BY <1>4 DEF Edited
    <3> QED
      BY <1>1, <1>2, <1>3, <2>1, <2>2, <2>3, <2>5, <3>1 DEF Since, Later
  <2> QED
    BY <1>4, <2>4, <2>5 DEF Edited
<1>5. CASE Fresh(new)
  BY <1>1, <1>2, <1>3, <1>5 DEF Fresh, Since, Later
<1> QED
  BY <1>1, <1>4, <1>5 DEF MapMoves

\* Nor will any copy that counts,
LEMMA ClosedCopies ==
  ASSUME BaseInv, Moves, ~overtook', NEW t, NEW i \in 1..now, \A c \in CopiesFrom(published) : Closed(c, t, i)
  PROVE  \A c \in CopiesFrom(published)' : Closed(c, t, i)
<1>1. Closed(Records, t, i)
  BY CopiesAre
<1>2. Closed(Records', t, i)
  BY <1>1, ClosedStays DEF Moves
<1> QED
  BY <1>2 DEF Moves, CopyMoves

\* or that counts for q.
LEMMA ClosedLevel ==
  ASSUME BaseInv, Moves, ~overtook', NEW q \in Procs, NEW t, NEW i \in 1..now, \A c \in CopiesFrom(Level(q)) : Closed(c, t, i)
  PROVE  \A c \in CopiesFrom(Level(q))' : Closed(c, t, i)
<1>1. Closed(Records, t, i)
  BY CopiesAre
<1>2. Closed(Records', t, i)
  BY <1>1, ClosedStays DEF Moves
<1> QED
  BY <1>2 DEF Moves, CopyMoves

\* A job that gets named is for the next occurrence.
LEMMA NamedMoves ==
  ASSUME BaseInv, Moves, NEW k, Named(k)'
  PROVE  Named(k) \/ (k.at = now + 1 /\ now' = now)
<1>1. k \in jobs' /\ ~k.once /\ k.task \in DOMAIN tasks' /\ tasks'[k.task].job = k.id
  BY DEF Named
<1>2. k.id \in Nat \ {0} /\ NoJob = 0
  BY <1>1 DEF Moves, JobsMove, Job, NoJob
<1>3. CASE k \notin jobs
  BY <1>1, <1>3 DEF Moves, JobsMove
<1>4. CASE k \in jobs
  <2>1. k.id # FreshJob
    BY <1>4, FreshIsFresh DEF BaseInv, UsedJobs
  <2>2. k.task \in DOMAIN tasks /\ tasks'[k.task].job = tasks[k.task].job
    BY <1>1, <1>2, <2>1 DEF Moves, MapMoves
  <2> QED
    BY <1>1, <1>4, <2>2 DEF Named
<1> QED
  BY <1>3, <1>4

\* No step but a boot asks about anything.
LEMMA AskedBeforeStays ==
  ASSUME BaseInv, Moves, ~overtook', NEW t, NEW n \in Nat \ {0}, AskedBefore(t, n)
  PROVE  AskedBefore(t, n)'
<1>1. Records \in CopiesFrom(published)
  BY CopiesAre
<1>2. ASSUME t \in DOMAIN Records' PROVE Records'[t].missed < n
  <2>1. t \in DOMAIN tasks' /\ Records'[t] = tasks'[t].rec
    BY <1>2, TheNewRecords DEF Moves
  <2>2. CASE t \in DOMAIN tasks /\ Edited(tasks[t].rec, tasks'[t].rec)
    <3>1. tasks[t].rec.missed < n
      BY <1>1, <2>2, TheRecords DEF AskedBefore, BaseInv
    <3> QED
      BY <2>1, <2>2, <3>1 DEF Edited
  <2>3. CASE Fresh(tasks'[t].rec)
    BY <2>1, <2>3 DEF Fresh
  <2> QED
    BY <2>1, <2>2, <2>3 DEF Moves, MapMoves
<1>3. ASSUME NEW c \in CopiesFrom(published)', t \in DOMAIN c PROVE c[t].missed < n
  BY <1>2, <1>3 DEF Moves, CopyMoves, AskedBefore
<1> QED
  BY <1>3 DEF AskedBefore

\* Nobody is asked about what is still to come.
LEMMA NotAskedAhead ==
  ASSUME BaseInv, NEW t, NEW n \in Nat, n > now
  PROVE  AskedBefore(t, n)
<1> SUFFICES ASSUME NEW c \in CopiesFrom(published), t \in DOMAIN c PROVE c[t].missed < n
  BY DEF AskedBefore
<1>1. c[t].missed \in 0..now
  BY CopiesArePast DEF Past
<1> QED
  BY <1>1, Here

\* q goes on with the run it had, or has none.
SameRun(q) ==
  /\ RunsOne(proc'[q]) => /\ RunsOne(proc[q]) /\ proc'[q].task = proc[q].task /\ proc'[q].at = proc[q].at
                          /\ proc'[q].op = "answer" => proc[q].op = "answer"
  /\ proc'[q].op = "chain" => proc[q].op = "chain"

\* Occurrences are of timed tasks, and past.
LEMMA RunsAreTimed ==
  ASSUME BaseInv, NEW q \in Procs, RunsOne(proc[q])
  PROVE  proc[q].task \in Timed /\ proc[q].at \in 1..now /\ proc[q].at \in Times /\ proc[q].at \in Nat \ {0}
<1>1. Shaped(proc[q]) /\ proc[q].op \in {"chain", "late", "answer"}
  BY TheProc DEF RunsOne
<1>2. proc[q].task \in Timed /\ proc[q].at \in 1..now
  BY <1>1 DEF Shaped
<1> QED
  BY <1>2, Here, SchedulerAssumption DEF Times

\* A run that goes on keeps what is known of it.
LEMMA RunStays ==
  ASSUME BaseInv, Moves, ~overtook', NEW q \in Procs, SameRun(q), RunOK(q),
         ran'[proc[q].task][proc[q].at] = ran[proc[q].task][proc[q].at],
         RunsOne(proc'[q]) /\ Noted(proc'[q]) /\ ~Noted(proc[q]) =>
            \A c \in CopiesFrom(Level(q))' : Closed(c, proc[q].task, proc[q].at)
  PROVE  RunOK(q)'
<1> SUFFICES ASSUME RunsOne(proc'[q])
             PROVE  /\ ran'[proc'[q].task][proc'[q].at] = 0
                    /\ Noted(proc'[q]) => \A c \in CopiesFrom(Level(q))' : Closed(c, proc'[q].task, proc'[q].at)
                    /\ proc'[q].op = "answer" => Closed(Records', proc'[q].task, proc'[q].at)
                    /\ \A k : Named(k)' /\ k.task = proc'[q].task => proc'[q].at < k.at
  BY DEF RunOK, RunsOne, Noted, Closed, Since, Later
<1>1. /\ RunsOne(proc[q]) /\ proc'[q].task = proc[q].task /\ proc'[q].at = proc[q].at
      /\ proc'[q].op = "answer" => proc[q].op = "answer"
  BY DEF SameRun
<1>2. proc[q].at \in 1..now /\ proc[q].at \in Nat
  BY <1>1, RunsAreTimed
<1>3. ran[proc[q].task][proc[q].at] = 0
  BY <1>1 DEF RunOK
<1>4. ASSUME Noted(proc'[q]), Noted(proc[q]) PROVE \A c \in CopiesFrom(Level(q))' : Closed(c, proc[q].task, proc[q].at)
  <2>1. \A c \in CopiesFrom(Level(q)) : Closed(c, proc[q].task, proc[q].at)
    BY <1>1, <1>4 DEF RunOK
  <2> DEFINE t == proc[q].task
             i == proc[q].at
  <2> HIDE DEF t, i
  <2>2. i \in 1..now /\ \A c \in CopiesFrom(Level(q)) : Closed(c, t, i)
    BY <1>2, <2>1 DEF t, i
  <2>3. PICK tt, ii : tt = t /\ ii = i
    OBVIOUS
  <2>4. \A c \in CopiesFrom(Level(q))' : Closed(c, tt, ii)
    BY <2>2, <2>3, ClosedLevel
  <2> QED
    BY <2>3, <2>4 DEF t, i
<1>5. ASSUME proc'[q].op = "answer" PROVE Closed(Records', proc[q].task, proc[q].at)
  <2>1. Closed(Records, proc[q].task, proc[q].at)
    BY <1>1, <1>5 DEF RunOK
  <2> QED
    BY <1>2, <2>1, ClosedStays DEF Moves
<1>6. ASSUME NEW k, Named(k)', k.task = proc[q].task PROVE proc[q].at < k.at
  <2>1. CASE Named(k)
    BY <1>1, <1>6, <2>1 DEF RunOK
  <2>2. CASE k.at = now + 1
    BY <1>2, <2>2, Here
  <2> QED
    BY <1>6, <2>1, <2>2, NamedMoves
<1> QED
  BY <1>1, <1>3, <1>4, <1>5, <1>6

\* A timer's run stays ahead of the questions.
LEMMA ChainStays ==
  ASSUME BaseInv, Moves, ~overtook', NEW q \in Procs, SameRun(q), ChainOK(q)
  PROVE  ChainOK(q)'
<1> SUFFICES ASSUME proc'[q].op = "chain" PROVE AskedBefore(proc[q].task, proc[q].at)'
  BY DEF ChainOK
<1>1. /\ proc[q].op = "chain" /\ proc'[q].task = proc[q].task /\ proc'[q].at = proc[q].at
      /\ proc[q].at \in Nat \ {0} /\ AskedBefore(proc[q].task, proc[q].at)
  BY RunsAreTimed DEF SameRun, RunsOne, ChainOK
<1>2. PICK t, n : t = proc[q].task /\ n = proc[q].at
  OBVIOUS
<1>3. AskedBefore(t, n)
  BY <1>1, <1>2 DEF AskedBefore
<1>4. AskedBefore(t, n)'
  BY <1>1, <1>2, <1>3, AskedBeforeStays
<1> QED
  BY <1>1, <1>2, <1>4 DEF AskedBefore

\* So do the timer's jobs.
LEMMA JobsStay ==
  ASSUME BaseInv, BaseInv', Moves, ~overtook', JobsOK
  PROVE  JobsOK'
<1> SUFFICES ASSUME NEW k \in jobs', ~k.once PROVE AskedBefore(k.task, k.at)'
  BY DEF JobsOK
<1>1. k.at \in Nat \ {0}
  BY DEF Moves, JobsMove, Job
<1>2. CASE k \in jobs
  BY <1>1, <1>2, AskedBeforeStays DEF JobsOK
<1>3. CASE k.at = now + 1 /\ now' = now
  <2>1. k.at > now'
    BY <1>3, Here
  <2> QED
    <3>1. ASSUME NEW c \in CopiesFrom(published)', k.task \in DOMAIN c PROVE c[k.task].missed < k.at
      <4>1. c = Records' \/ c \in CopiesFrom(published)
        BY <3>1 DEF Moves, CopyMoves
      <4>2. CASE c \in CopiesFrom(published)
        <5>1. c[k.task].missed \in 0..now
          BY <3>1, <4>2, CopiesArePast DEF Past
        <5> QED
          BY <1>3, <5>1, Here
      <4>3. CASE c = Records'
        <5>1. c[k.task].missed \in 0..now'
          BY <3>1, <4>3 DEF BaseInv, AllPast, Past
        <5> QED
          BY <1>3, <5>1, Here
      <4> QED
        BY <4>1, <4>2, <4>3
    <3> QED
      BY <3>1 DEF AskedBefore
<1> QED
  BY <1>2, <1>3 DEF Moves, JobsMove

\* A question stays one the schedule knows of.
LEMMA SeenStays ==
  ASSUME BaseInv, Moves, ~overtook', Seen
  PROVE  Seen'
<1>1. ASSUME NEW t \in DOMAIN Records', Records'[t].missed # 0 PROVE Since(Records'[t]) >= Records'[t].missed
  <2> DEFINE old == tasks[t].rec
             new == tasks'[t].rec
  <2>1. t \in DOMAIN tasks' /\ Records'[t] = new /\ new \in Record
    BY TheNewRecords DEF Moves
  <2>2. new.missed \in Nat /\ new.asked \in Nat /\ new.last \in Nat /\ new.made \in Nat
    BY <2>1, RecordNumbers
  <2>3. t \in DOMAIN tasks /\ Edited(old, new)
    BY <1>1, <2>1 DEF Moves, MapMoves, Fresh
  <2>4. old.missed \in Nat /\ old.asked \in Nat /\ old.last \in Nat /\ old.made \in Nat
    BY <2>3, TheRecords, RecordNumbers DEF BaseInv
  <2>5. new.missed = old.missed /\ old.missed # 0
    BY <1>1, <2>1, <2>3 DEF Edited
  <2>6. Since(old) >= old.missed /\ old.missed <= now
    <3>1. Records \in CopiesFrom(published) /\ t \in DOMAIN Records /\ Records[t] = old
      BY <2>3, CopiesAre, TheRecords DEF BaseInv
    <3>2. old.missed \in 0..now
      BY <3>1 DEF BaseInv, AllPast, Past
    <3> QED
      BY <2>5, <3>1, <3>2, Here DEF Seen
  <2>7. new.asked \in {old.asked, now} /\ new.last \in {old.last, now} /\ new.made = old.made
    BY <2>3 DEF Edited
  <2> HIDE DEF old, new
  <2>8. now \in Nat /\ now >= 1
    BY Here
  <2>9. Since(new) >= new.missed
    BY <2>2, <2>4, <2>5, <2>6, <2>7, <2>8 DEF Since, Later
  <2> QED
    BY <2>1, <2>9
<1>2. ASSUME NEW c \in CopiesFrom(published)', NEW t \in DOMAIN c, c[t].missed # 0 PROVE Since(c[t]) >= c[t].missed
  BY <1>1, <1>2 DEF Moves, CopyMoves, Seen
<1> QED
  BY <1>2 DEF Seen, Since, Later

\* What is settled stays settled.
LEMMA SettledStays ==
  ASSUME BaseInv, Moves, ~overtook', NEW t, NEW i \in Times, Settled(t, i)
  PROVE  Settled(t, i)'
<1>1. /\ i <= now /\ \A c \in CopiesFrom(published) : Closed(c, t, i)
      /\ \A k : Named(k) /\ k.task = t => i < k.at
  BY DEF Settled
<1>2. i \in 1..now /\ i \in Nat /\ now \in Nat /\ now' \in Nat
  BY <1>1, Here, SchedulerAssumption DEF Times, Moves
<1>3. \A c \in CopiesFrom(published)' : Closed(c, t, i)
  BY <1>1, <1>2, ClosedCopies
<1>4. ASSUME NEW k, Named(k)', k.task = t PROVE i < k.at
  <2>1. CASE Named(k)
    BY <1>1, <1>4, <2>1
  <2>2. CASE k.at = now + 1
    BY <1>2, <2>2
  <2> QED
    BY <1>4, <2>1, <2>2, NamedMoves
<1>5. i <= now'
  BY <1>1, <1>2 DEF Moves
<1> QED
  BY <1>3, <1>4, <1>5 DEF Settled, Closed, Since, Later

\* No two run one occurrence, if nobody begins to.
LEMMA DistinctStays ==
  ASSUME Distinct, \A q \in Procs : SameRun(q)
  PROVE  Distinct'
<1> SUFFICES ASSUME NEW p \in Procs, NEW q \in Procs, p # q, RunsOne(proc'[p]), RunsOne(proc'[q]),
                    proc'[p].task = proc'[q].task
             PROVE  proc'[p].at # proc'[q].at
  BY DEF Distinct, RunsOne
<1> QED
  BY DEF Distinct, SameRun

\* Everyone else goes on.
LEMMA OthersGoOn ==
  ASSUME BaseInv, NEW p \in Procs, NEW x, Steady(p, x), NEW q \in Procs \ {p}
  PROVE  SameRun(q) /\ proc'[q] = proc[q]
BY OneMoves DEF SameRun

\* A step in which p alone may begin a run, or learn of it.
LEMMA RunsExcept ==
  ASSUME BaseInv, NEW p \in Procs, NEW x, Steady(p, x), ~overtook', ran' = ran, RunsHold,
         RunOK(p)', ChainOK(p)', Distinct'
  PROVE  RunsHold'
<1>1. Moves /\ BaseInv'
  BY SteadyMoves
<1>2. ASSUME NEW q \in Procs \ {p} PROVE RunOK(q)' /\ ChainOK(q)'
  <2>1. SameRun(q) /\ proc'[q] = proc[q] /\ RunOK(q) /\ ChainOK(q)
    BY OthersGoOn DEF RunsHold
  <2> QED
    BY <1>1, <2>1, RunStays, ChainStays
<1>3. JobsOK' /\ Seen'
  BY <1>1, JobsStay, SeenStays DEF RunsHold
<1>4. RanOK'
  <2> SUFFICES ASSUME NEW t \in Timed, NEW i \in Times PROVE ran[t][i] <= 1 /\ (ran[t][i] > 0 => Settled(t, i)')
    BY DEF RanOK
  <2> QED
    BY <1>1, SettledStays DEF RunsHold, RanOK
<1> QED
  BY <1>2, <1>3, <1>4 DEF RunsHold

\* A step that starts no run and learns of none keeps the invariant.
LEMMA RunsKept ==
  ASSUME BaseInv, NEW p \in Procs, NEW x, Steady(p, x), KeepsRuns(p, x), ~overtook', RunsHold
  PROVE  RunsHold'
<1>1. Moves /\ BaseInv' /\ ran' = ran /\ proc'[p] = x
  BY SteadyMoves, OneMoves DEF KeepsRuns
<1>2. SameRun(p) /\ (RunsOne(proc'[p]) /\ Noted(proc'[p]) => Noted(proc[p]))
  BY <1>1 DEF KeepsRuns, SameRun
<1>3. RunOK(p)' /\ ChainOK(p)'
  BY <1>1, <1>2, RunStays, ChainStays DEF RunsHold
<1>4. Distinct'
  BY <1>2, OthersGoOn, DistinctStays DEF RunsHold
<1> QED
  BY <1>1, <1>3, <1>4, RunsExcept

\* So does a save, after which every copy knows of the answer.
LEMMA RunsSave ==
  ASSUME BaseInv, NEW p \in Procs, Save(p), ~overtook', RunsHold
  PROVE  RunsHold'
<1>1. PICK x :
           /\ Steady(p, x) /\ Copies(p, x) /\ Records' = Records /\ ran' = ran
           /\ proc[p].pc = "save" /\ x.op = proc[p].op /\ x.task = proc[p].task /\ x.at = proc[p].at /\ x.ask = proc[p].ask
           /\ x.pc = "publish"
  BY SaveSteady
<1>2. Moves /\ BaseInv' /\ proc'[p] = x
  BY <1>1, SteadyMoves, OneMoves
<1>3. SameRun(p)
  BY <1>1, <1>2 DEF SameRun, RunsOne
<1>4. ASSUME RunsOne(proc'[p]) PROVE \A c \in CopiesFrom(Level(p))' : Closed(c, proc[p].task, proc[p].at)
  <2>1. RunsOne(proc[p]) /\ proc[p].op = "answer"
    <3>1. proc[p].op \in {"call", "edit", "answer"}
      BY <1>1, TheProc DEF Shaped
    <3> QED
      BY <1>1, <1>2, <1>4, <3>1 DEF RunsOne
  <2>2. Closed(Records, proc[p].task, proc[p].at)
    BY <2>1 DEF RunsHold, RunOK
  <2> QED
    BY <1>1, <2>2, CopyIsTheMap
<1>5. RunOK(p)' /\ ChainOK(p)'
  BY <1>1, <1>2, <1>3, <1>4, RunStays, ChainStays DEF RunsHold
<1>6. Distinct'
  BY <1>1, <1>3, OthersGoOn, DistinctStays DEF RunsHold
<1> QED
  BY <1>1, <1>5, <1>6, RunsExcept

\* A run that nothing was stamped for leaves no copy that asks.
LEMMA NothingAsks ==
  ASSUME BaseInv, Moves, ~overtook', NEW t \in Timed, NEW i \in Nat, NoteUnwritten(t), ~unwritten',
         AskedBefore(t, i), AskedBefore(t, i)', t \in DOMAIN tasks => ~tasks[t].rec.ask,
         t \in DOMAIN tasks' => ~tasks'[t].rec.ask
  PROVE  \A c \in CopiesFrom(published)' : Closed(c, t, i)
<1>1. ~Asks(disk, t) /\ \A q \in Procs : ~Asks(proc[q].snap, t)
  BY DEF NoteUnwritten
<1>2. t \notin Rules
  BY SchedulerAssumption
<1> SUFFICES ASSUME NEW c \in CopiesFrom(published)', t \in DOMAIN c PROVE c[t].missed # i /\ ~c[t].ask
  BY DEF Closed
<1>3. c[t].missed < i
  BY DEF AskedBefore
<1>4. CASE c = Records'
  <2>1. c[t] = tasks'[t].rec /\ t \in DOMAIN tasks' /\ c[t] \in Record
    BY <1>4, TheNewRecords DEF Moves
  <2>2. c[t].missed \in Nat
    BY <2>1, RecordNumbers
  <2> QED
    BY <1>3, <2>1, <2>2
<1>5. CASE c \in CopiesFrom(published)
  <2>1. c \in Maps
    BY <1>5, CopiesArePast
  <2>2. c[t].missed \in Nat
    BY <2>1, MapsAre, RecordNumbers
  <2>3. CASE c = Records
    BY <1>3, <2>2, <2>3, TheRecords DEF BaseInv
  <2>4. CASE c = disk \/ \E q \in Procs : c = proc[q].snap
    <3>1. ~Asks(c, t)
      BY <1>1, <2>4
    <3> QED
      BY <1>2, <1>3, <2>2, <3>1 DEF Asks, Durable
  <2> QED
    BY <1>5, <2>3, <2>4, CopiesAre
<1> QED
  BY <1>4, <1>5 DEF Moves, CopyMoves

\* So does a stamp, after which every copy knows of the run.
LEMMA RunsStamp ==
  ASSUME BaseInv, NEW p \in Procs, Stamp(p) \/ StampNothing(p), ~overtook', ~unwritten', RunsHold
  PROVE  RunsHold'
<1> DEFINE t == proc[p].task
<1>1. PICK x :
           /\ Steady(p, x) /\ ran' = ran
           /\ proc[p].pc = "stamp" /\ x.op = proc[p].op /\ x.task = proc[p].task /\ x.at = proc[p].at /\ x.ask = proc[p].ask
           /\ \/ /\ Copies(p, x) /\ t \in DOMAIN tasks
                 /\ t \in DOMAIN tasks' /\ tasks'[t].rec = [tasks[t].rec EXCEPT !.last = now]
              \/ /\ x.pc \notin Loose /\ NoteUnwritten(t)
                 /\ t \in DOMAIN tasks => /\ ~Durable(t, tasks[t].rec)
                                          /\ tasks'[t].rec = [tasks[t].rec EXCEPT !.last = now]
                 /\ t \notin DOMAIN tasks => tasks' = tasks
  <2>1. CASE Stamp(p)
    BY <2>1, StampSteady DEF Plain
  <2>2. CASE StampNothing(p)
    <3>1. PICK x : /\ Passes(p, x) /\ x = [proc[p] EXCEPT !.pc = "exec"] /\ proc[p].pc = "stamp"
                   /\ ran' = ran /\ NoteUnwritten(t) /\ t \notin DOMAIN tasks
      BY <2>2, StampNothingSteady
    <3>2. x.op = proc[p].op /\ x.task = proc[p].task /\ x.at = proc[p].at /\ x.ask = proc[p].ask
      BY <3>1, TheProc DEF Proc
    <3> QED
      BY <3>1, <3>2 DEF Passes, Plain
  <2> QED
    BY <2>1, <2>2
<1>2. Moves /\ BaseInv' /\ proc'[p] = x
  BY <1>1, SteadyMoves, OneMoves
<1>3. SameRun(p)
  BY <1>1, <1>2 DEF SameRun, RunsOne
<1>4. ChainOK(p)'
  BY <1>2, <1>3, ChainStays DEF RunsHold
<1>5. ASSUME RunsOne(proc'[p]), ~Noted(proc[p])
      PROVE  \A c \in CopiesFrom(Level(p))' : Closed(c, proc[p].task, proc[p].at)
  <2>1. RunsOne(proc[p]) /\ proc[p].op = "chain"
    <3>1. proc[p].op \in {"chain", "late", "now", "rule", "once"} /\ proc[p].op # "late"
      BY <1>1, <1>5, TheProc DEF Shaped, Noted
    <3> QED
      BY <1>1, <1>2, <1>5, <3>1 DEF RunsOne
  <2> DEFINE i == proc[p].at
  <2>2. t \in Timed /\ i \in 1..now /\ i \in Nat \ {0} /\ AskedBefore(t, i) /\ AskedBefore(t, i)'
    <3>1. t \in Timed /\ i \in 1..now /\ i \in Nat \ {0}
      BY <2>1, RunsAreTimed
    <3>2. AskedBefore(t, i)
      BY <2>1 DEF RunsHold, ChainOK
    <3>3. AskedBefore(t, i)'
      BY <1>1, <1>2, <1>4, <2>1 DEF ChainOK, AskedBefore
    <3> QED
      BY <3>1, <3>2, <3>3
  <2>3. t \in DOMAIN tasks => tasks[t].rec \in Record
    BY TheRecords DEF BaseInv
  <2>4. PICK tt, ii : tt = t /\ ii = i
    OBVIOUS
  <2> HIDE DEF t, i
  <2>5. AskedBefore(tt, ii) /\ AskedBefore(tt, ii)' /\ tt \in Timed /\ ii \in Nat \ {0}
    <3>1. i' = i /\ t' = t
      BY <1>1, <1>2 DEF i, t
    <3> QED
      BY <2>2, <2>4, <3>1 DEF AskedBefore
  <2>6. CASE Copies(p, x) /\ t \in DOMAIN tasks /\ t \in DOMAIN tasks' /\ tasks'[t].rec = [tasks[t].rec EXCEPT !.last = now]
    <3> DEFINE new == tasks'[t].rec
    <3>1. new.last = now /\ new \in Record /\ Records'[t] = new /\ new.missed = tasks[t].rec.missed
      BY <1>2, <2>3, <2>6, TheNewRecords DEF Moves, Record
    <3>2. tasks[t].rec.missed < i
      <4>1. Records \in CopiesFrom(published) /\ t \in DOMAIN Records /\ Records[t] = tasks[t].rec
        BY <2>6, CopiesAre, TheRecords DEF BaseInv
      <4> QED
        BY <2>2, <4>1 DEF AskedBefore
    <3>3. new.missed \in Nat /\ new.asked \in Nat /\ new.last \in Nat /\ new.made \in Nat
      BY <3>1, RecordNumbers
    <3>4. now \in Nat /\ now >= 1 /\ i <= now
      BY <2>2, Here
    <3>5. Since(new) >= i
      BY <2>2, <3>1, <3>3, <3>4 DEF Since, Later
    <3>6. new.missed # i
      BY <2>2, <3>1, <3>2, <3>3
    <3>7. Closed(Records', t, i)
      BY <3>1, <3>5, <3>6 DEF Closed
    <3> QED
      BY <1>1, <2>6, <3>7, CopyIsTheMap DEF t, i
  <2>7. CASE /\ x.pc \notin Loose /\ NoteUnwritten(t)
             /\ t \in DOMAIN tasks => /\ ~Durable(t, tasks[t].rec)
                                      /\ tasks'[t].rec = [tasks[t].rec EXCEPT !.last = now]
             /\ t \notin DOMAIN tasks => tasks' = tasks
    <3>1. t \in DOMAIN tasks => ~tasks[t].rec.ask
      BY <2>7 DEF Durable
    <3>2. t \in DOMAIN tasks' => ~tasks'[t].rec.ask
      BY <2>3, <2>7, <3>1 DEF Record
    <3>3. \A c \in CopiesFrom(published)' : Closed(c, tt, ii)
      BY <1>2, <2>4, <2>5, <2>7, <3>1, <3>2, NothingAsks
    <3>4. Level(p)' = published'
      BY <1>2, <2>7 DEF Level, Loose
    <3>5. \A c : c \in CopiesFrom(Level(p))' <=> c \in CopiesFrom(published)'
      BY <3>4 DEF CopiesFrom
    <3> QED
      BY <2>4, <3>3, <3>5 DEF t, i
  <2> QED
    BY <1>1, <2>6, <2>7
<1>6. RunOK(p)'
  BY <1>1, <1>2, <1>3, <1>5, RunStays DEF RunsHold
<1>7. Distinct'
  BY <1>1, <1>3, OthersGoOn, DistinctStays DEF RunsHold
<1> QED
  BY <1>1, <1>4, <1>6, <1>7, RunsExcept

\* No two run one occurrence, if the one p begins is nobody's.
LEMMA DistinctBut ==
  ASSUME Distinct, NEW p \in Procs, \A q \in Procs \ {p} : proc'[q] = proc[q],
         \A q \in Procs \ {p} : RunsOne(proc'[p]) /\ RunsOne(proc[q]) /\ proc[q].task = proc'[p].task
                                  => proc[q].at # proc'[p].at
  PROVE  Distinct'
<1> SUFFICES ASSUME NEW a \in Procs, NEW b \in Procs, a # b, RunsOne(proc'[a]), RunsOne(proc'[b]),
                    proc'[a].task = proc'[b].task
             PROVE  proc'[a].at # proc'[b].at
  BY DEF Distinct, RunsOne
<1>1. CASE a = p
  BY <1>1
<1>2. CASE b = p
  BY <1>2
<1>3. CASE a # p /\ b # p
  BY <1>3 DEF Distinct
<1> QED
  BY <1>1, <1>2, <1>3

\* So does the timer's run, of an occurrence nobody was asked about.
LEMMA RunsFire ==
  ASSUME BaseInv, NEW p \in Procs, NEW k \in jobs, Fire(p, k), ~overtook', RunsHold
  PROVE  RunsHold'
<1> DEFINE t == k.task
<1>1. PICK x :
           /\ Steady(p, x) /\ ran' = ran
           /\ x.op = "chain" /\ x.pc = "stamp" /\ x.task = k.task /\ x.at = k.at
           /\ ~k.once /\ k.task \in DOMAIN tasks /\ tasks[k.task].job = k.id
           /\ tasks'[k.task].job = FreshJob
  BY FireSteady
<1>2. Moves /\ BaseInv' /\ proc'[p] = x
  BY <1>1, SteadyMoves, OneMoves
<1>3. Named(k)
  BY <1>1 DEF Named
<1>4. t \in Timed /\ k.at \in 1..now /\ k.at \in Times /\ k.at \in Nat \ {0}
  <2>1. Shaped(x)
    BY <1>1 DEF Steady
  <2>2. t \in Timed /\ k.at \in 1..now
    BY <1>1, <2>1 DEF Shaped
  <2> QED
    BY <2>2, Here, SchedulerAssumption DEF Times
<1>5. ran[t][k.at] = 0
  <2>1. ran[t][k.at] \in Nat
    BY <1>4, Here DEF BaseInv, Types
  <2>2. ~Settled(t, k.at)
    BY <1>3, <1>4 DEF Settled
  <2>3. ~(ran[t][k.at] > 0)
    BY <1>4, <2>2 DEF RunsHold, RanOK
  <2> QED
    BY <2>1, <2>3
<1>6. ChainOK(p)'
  <2>1. AskedBefore(t, k.at)
    BY <1>1 DEF RunsHold, JobsOK
  <2>2. AskedBefore(t, k.at)'
    BY <1>2, <1>4, <2>1, AskedBeforeStays
  <2> QED
    BY <1>1, <1>2, <2>2 DEF ChainOK
<1>7. ASSUME NEW m, Named(m)', m.task = t PROVE k.at < m.at
  <2>1. m \in jobs' /\ m.id = FreshJob /\ ~m.once
    BY <1>1, <1>7 DEF Named
  <2>2. m \notin jobs
    BY <2>1, FreshIsFresh DEF BaseInv, UsedJobs
  <2>3. m.at = now + 1
    BY <1>2, <2>1, <2>2 DEF Moves, JobsMove
  <2> QED
    BY <1>4, <2>3, Here
<1>8. RunOK(p)'
  <2>1. ~Noted(x) /\ x.op # "answer"
    BY <1>1 DEF Noted
  <2> QED
    BY <1>1, <1>2, <1>5, <1>7, <2>1 DEF RunOK, RunsOne, Noted
<1>9. Distinct'
  <2>1. ASSUME NEW q \in Procs \ {p}, RunsOne(proc[q]), proc[q].task = t PROVE proc[q].at # k.at
    <3>1. proc[q].at < k.at
      BY <1>3, <2>1 DEF RunsHold, RunOK
    <3>2. proc[q].at \in Nat
      BY <2>1, RunsAreTimed
    <3> QED
      BY <1>4, <3>1, <3>2
  <2> QED
    BY <1>1, <1>2, <2>1, OthersGoOn, DistinctBut DEF RunsHold
<1> QED
  BY <1>1, <1>6, <1>8, <1>9, RunsExcept

\* Nobody else is to run an occurrence that is still asked about.
LEMMA AskedIsFree ==
  ASSUME BaseInv, RunsHold, NEW q \in Procs, RunsOne(proc[q]), proc[q].task \in DOMAIN tasks
  PROVE  proc[q].at # tasks[proc[q].task].rec.missed
<1> DEFINE t == proc[q].task
<1>1. t \in DOMAIN Records /\ Records[t] = tasks[t].rec
  BY TheRecords DEF BaseInv
<1>2. Records \in CopiesFrom(published) /\ Records \in CopiesFrom(Level(q))
  BY CopiesAre
<1>3. CASE Noted(proc[q]) \/ proc[q].op = "answer"
  <2>1. Closed(Records, t, proc[q].at)
    BY <1>2, <1>3 DEF RunsHold, RunOK
  <2> QED
    BY <1>1, <2>1 DEF Closed
<1>4. CASE proc[q].op = "chain"
  <2>1. Records[t].missed < proc[q].at
    BY <1>1, <1>2, <1>4 DEF RunsHold, ChainOK, AskedBefore
  <2>2. proc[q].at \in Nat /\ Records[t].missed \in Nat
    BY <1>1, RunsAreTimed, TheRecords, RecordNumbers DEF BaseInv
  <2> QED
    BY <1>1, <2>1, <2>2
<1>5. CASE proc[q].op = "late"
  BY <1>3, <1>5 DEF Noted
<1> QED
  BY <1>3, <1>4, <1>5 DEF RunsOne

\* An occurrence somebody is asked about has not run.
LEMMA AskedHasNotRun ==
  ASSUME BaseInv, RanOK, NEW t \in Timed, t \in DOMAIN tasks, tasks[t].rec.missed \in Times
  PROVE  ran[t][tasks[t].rec.missed] = 0
<1> DEFINE m == tasks[t].rec.missed
<1>1. t \in DOMAIN Records /\ Records[t] = tasks[t].rec /\ Records \in CopiesFrom(published)
  BY TheRecords, CopiesAre DEF BaseInv
<1>2. ~Settled(t, m)
  BY <1>1 DEF Settled, Closed
<1>3. ran[t][m] \in Nat
  BY Here DEF BaseInv, Types
<1> QED
  BY <1>2, <1>3 DEF RanOK

\* So does an answer, of an occurrence that did not run.
LEMMA RunsAnswer ==
  ASSUME BaseInv, NEW p \in Procs, NEW t \in Tasks, Answers(p, t), ~overtook', RunsHold
  PROVE  RunsHold'
<1> PICK x : /\ Edits(p, x) /\ x.op = "answer" /\ x.pc = "save" /\ x.task = t
             /\ x.at = tasks[t].rec.missed
  BY AnswerSteady
<1> DEFINE m == tasks[t].rec.missed
<1>1. /\ Steady(p, x) /\ ran' = ran
      /\ t \in Timed /\ t \in DOMAIN tasks /\ m \in 1..now
      /\ x.op = "answer" /\ x.pc = "save" /\ x.task = t /\ x.at = m
      /\ DOMAIN tasks' = DOMAIN tasks
      /\ Unasked(tasks[t].rec, tasks'[t].rec)
  BY AnswerSteady DEF Edits
<1>2. Moves /\ BaseInv' /\ proc'[p] = x
  BY <1>1, SteadyMoves, OneMoves
<1>3. m \in Times /\ m \in Nat \ {0}
  BY <1>1, Here, SchedulerAssumption DEF Times
<1>4. t \in DOMAIN Records /\ Records[t] = tasks[t].rec /\ tasks[t].rec \in Record /\ Records \in CopiesFrom(published)
  BY <1>1, TheRecords, CopiesAre DEF BaseInv
<1>5. ran[t][m] = 0
  BY <1>1, <1>3, AskedHasNotRun DEF RunsHold
<1>6. Closed(Records', t, m)
  <2> DEFINE old == tasks[t].rec
             new == tasks'[t].rec
  <2>1. Records'[t] = new
    BY <1>1, <1>2, TheNewRecords DEF Moves
  <2>2. new.missed = 0 /\ new.last = old.last /\ new.asked = old.asked /\ new.made = old.made
    BY <1>1, <1>4 DEF Record, Unasked
  <2>3. Since(new) = Since(old)
    BY <2>2 DEF Since
  <2>4. Since(old) >= m
    BY <1>3, <1>4 DEF RunsHold, Seen
  <2> QED
    BY <1>3, <2>1, <2>2, <2>3, <2>4 DEF Closed
<1>7. ASSUME NEW k, Named(k)', k.task = t PROVE m < k.at
  <2>1. CASE Named(k)
    <3>1. AskedBefore(t, k.at)
      BY <1>7, <2>1 DEF Named, RunsHold, JobsOK
    <3> QED
      BY <1>4, <3>1 DEF AskedBefore
  <2>2. CASE k.at = now + 1
    BY <1>1, <2>2, Here
  <2> QED
    BY <1>2, <1>7, <2>1, <2>2, NamedMoves
<1>8. RunOK(p)'
  <2>1. ~Noted(x)
    BY <1>1 DEF Noted
  <2>2. ran'[proc'[p].task][proc'[p].at] = 0
    BY <1>1, <1>2, <1>5
  <2>3. Closed(Records', proc'[p].task, proc'[p].at)
    BY <1>1, <1>2, <1>6
  <2>4. \A k : Named(k)' /\ k.task = proc'[p].task => proc'[p].at < k.at
    BY <1>1, <1>2, <1>7
  <2> HIDE DEF m
  <2> QED
    BY <1>2, <2>1, <2>2, <2>3, <2>4 DEF RunOK, RunsOne, Noted, Closed, Since, Later
<1>9. ChainOK(p)'
  BY <1>1, <1>2 DEF ChainOK
<1>10. Distinct'
  <2>1. ASSUME NEW q \in Procs \ {p}, RunsOne(proc[q]), proc[q].task = t PROVE proc[q].at # m
    BY <1>1, <2>1, AskedIsFree
  <2> QED
    BY <1>1, <1>2, <2>1, OthersGoOn, DistinctBut DEF RunsHold
<1> QED
  BY <1>1, <1>8, <1>9, <1>10, RunsExcept

\* So does the run itself: the occurrence is settled.
LEMMA RunsExecute ==
  ASSUME BaseInv, NEW p \in Procs, Execute(p), ~overtook', RunsHold
  PROVE  RunsHold'
<1>1. PICK x : Passes(p, x) /\ x.op \in {"none", "spent"} /\ proc[p].pc = "exec" /\ tasks' = tasks
  BY ExecuteSteady DEF Passes
<1>2. Steady(p, x)
  BY <1>1 DEF Passes
<1>3. Moves /\ BaseInv' /\ proc'[p] = x
  BY <1>2, SteadyMoves, OneMoves
<1>4. ASSUME NEW u \in Timed, NEW j \in Times
      PROVE  \/ ran'[u][j] = ran[u][j]
             \/ /\ RunsOne(proc[p]) /\ proc[p].task = u /\ proc[p].at = j
                /\ ran'[u][j] = ran[u][j] + 1
  <2>1. ran \in [Tasks -> [Times -> Nat]] /\ u \in Tasks /\ u \notin Rules
    BY Here, SchedulerAssumption DEF BaseInv, Types
  <2>2. CASE proc[p].op \in {"chain", "late", "rule"}
    <3> DEFINE c == proc[p]
    <3>1. ran' = [ran EXCEPT ![c.task][c.at] = @ + 1]
      BY <2>2 DEF Execute
    <3>2. c.op = "rule" => c.task \in Rules
      BY TheProc DEF Shaped
    <3>3. c.task = u /\ c.at = j => RunsOne(c)
      BY <2>1, <2>2, <3>2 DEF RunsOne
    <3> HIDE DEF c
    <3>4. c.task = u /\ c.at = j => ran'[u][j] = ran[u][j] + 1
      BY <2>1, <3>1
    <3>5. c.task # u \/ c.at # j => ran'[u][j] = ran[u][j]
      BY <2>1, <3>1
    <3> QED
      BY <3>3, <3>4, <3>5 DEF c
  <2>3. CASE proc[p].op \notin {"chain", "late", "rule"}
    BY <2>3 DEF Execute
  <2> QED
    BY <2>2, <2>3
<1>5. ASSUME NEW q \in Procs \ {p} PROVE RunOK(q)' /\ ChainOK(q)'
  <2>1. SameRun(q) /\ proc'[q] = proc[q] /\ RunOK(q) /\ ChainOK(q)
    BY <1>2, OthersGoOn DEF RunsHold
  <2>2. CASE RunsOne(proc[q])
    <3>1. proc[q].task \in Timed /\ proc[q].at \in Times
      BY <2>2, RunsAreTimed
    <3>2. ~(RunsOne(proc[p]) /\ proc[p].task = proc[q].task /\ proc[p].at = proc[q].at)
      BY <2>2 DEF RunsHold, Distinct
    <3>3. ran'[proc[q].task][proc[q].at] = ran[proc[q].task][proc[q].at]
      BY <1>4, <3>1, <3>2
    <3> QED
      BY <1>3, <2>1, <3>3, RunStays, ChainStays
  <2>3. CASE ~RunsOne(proc[q])
    BY <1>3, <2>1, <2>3, ChainStays DEF RunOK, RunsOne
  <2> QED
    BY <2>2, <2>3
<1>6. RunOK(p)' /\ ChainOK(p)'
  BY <1>1, <1>3 DEF RunOK, RunsOne, ChainOK
<1>7. JobsOK' /\ Seen'
  BY <1>3, JobsStay, SeenStays DEF RunsHold
<1>8. Distinct'
  <2>1. ~RunsOne(proc'[p])
    BY <1>1, <1>3 DEF RunsOne
  <2> QED
    BY <1>2, <2>1, OthersGoOn, DistinctBut DEF RunsHold
<1>9. RanOK'
  <2> SUFFICES ASSUME NEW u \in Timed, NEW j \in Times PROVE ran'[u][j] <= 1 /\ (ran'[u][j] > 0 => Settled(u, j)')
    BY DEF RanOK
  <2>1. ran[u][j] <= 1 /\ (ran[u][j] > 0 => Settled(u, j))
    BY DEF RunsHold, RanOK
  <2>2. CASE ran'[u][j] = ran[u][j]
    BY <1>3, <2>1, <2>2, SettledStays
  <2>3. CASE RunsOne(proc[p]) /\ proc[p].task = u /\ proc[p].at = j /\ ran'[u][j] = ran[u][j] + 1
    <3>1. Noted(proc[p]) /\ Level(p) = published
      BY <1>1 DEF Noted, Level
    <3>2. /\ ran[u][j] = 0 /\ \A c \in CopiesFrom(published) : Closed(c, u, j)
          /\ \A k : Named(k) /\ k.task = u => j < k.at
      BY <2>3, <3>1 DEF RunsHold, RunOK
    <3>3. j <= now
      BY <2>3, RunsAreTimed, Here
    <3>4. Settled(u, j)
      BY <3>2, <3>3 DEF Settled
    <3> QED
      BY <1>3, <2>3, <3>2, <3>4, SettledStays
  <2> QED
    BY <1>4, <2>2, <2>3
<1> QED
  BY <1>5, <1>6, <1>7, <1>8, <1>9 DEF RunsHold

\* So do the clock and a quiet job.
LEMMA RunsIdles ==
  ASSUME BaseInv, Idles, ~overtook', RunsHold
  PROVE  RunsHold'
<1>1. Moves /\ BaseInv' /\ proc' = proc /\ ran' = ran
  BY IdlesMoves DEF Idles, Moves
<1>2. \A q \in Procs : SameRun(q)
  BY <1>1 DEF SameRun
<1>3. \A q \in Procs : RunOK(q)' /\ ChainOK(q)'
  BY <1>1, <1>2, RunStays, ChainStays DEF RunsHold
<1>4. JobsOK' /\ Seen' /\ Distinct'
  BY <1>1, <1>2, JobsStay, SeenStays, DistinctStays DEF RunsHold
<1>5. RanOK'
  <2> SUFFICES ASSUME NEW t \in Timed, NEW i \in Times PROVE ran[t][i] <= 1 /\ (ran[t][i] > 0 => Settled(t, i)')
    BY <1>1 DEF RanOK
  <2> QED
    BY <1>1, SettledStays DEF RunsHold, RanOK
<1> QED
  BY <1>3, <1>4, <1>5 DEF RunsHold

\* With nothing in flight the maps are the map and the file.
LEMMA QuietCopies ==
  ASSUME \A q \in Procs : proc[q].pc = "idle", NEW n, NEW c \in CopiesFrom(n)
  PROVE  c = Records \/ c = disk
BY CopiesAre

\* So does a crash: the file asks about nothing that ran.
LEMMA RunsCrash ==
  ASSUME BaseInv, Crash, RunsHold
  PROVE  RunsHold'
<1>1. /\ tasks' = Empty /\ jobs' = {} /\ proc' = [p \in Procs |-> Idle]
      /\ now' = now /\ disk' = disk /\ ran' = ran
  BY DEF Crash, history
<1>2. \A q \in Procs : proc'[q] = Idle /\ Idle.op = "none" /\ Idle.pc = "idle"
  BY <1>1 DEF Idle
<1>3. DOMAIN Records' = {}
  BY <1>1 DEF Records, Empty
<1>4. \A c \in CopiesFrom(published)' : c = Records' \/ c = disk
  <2>1. \A q \in Procs : proc'[q].pc = "idle"
    BY <1>2
  <2> QED
    BY <1>1, <2>1 DEF CopiesFrom
<1>5. disk \in CopiesFrom(published)
  BY CopiesAre DEF BaseInv, Types
<1>6. \A q \in Procs : RunOK(q)' /\ ChainOK(q)'
  BY <1>2 DEF RunOK, RunsOne, ChainOK
<1>7. JobsOK' /\ Distinct'
  BY <1>1, <1>2 DEF JobsOK, Distinct, RunsOne
<1>8. Seen'
  BY <1>3, <1>4, <1>5 DEF RunsHold, Seen, Since, Later
<1>9. RanOK'
  <2> SUFFICES ASSUME NEW t \in Timed, NEW i \in Times PROVE ran[t][i] <= 1 /\ (ran[t][i] > 0 => Settled(t, i)')
    BY <1>1 DEF RanOK
  <2>1. ran[t][i] <= 1 /\ (ran[t][i] > 0 => Settled(t, i))
    BY DEF RunsHold, RanOK
  <2>2. ASSUME Settled(t, i) PROVE Settled(t, i)'
    <3>1. \A c \in CopiesFrom(published)' : Closed(c, t, i)
      BY <1>3, <1>4, <1>5, <2>2 DEF Settled, Closed
    <3>2. \A k : ~Named(k)'
      BY <1>1 DEF Named
    <3> QED
      BY <1>1, <2>2, <3>1, <3>2 DEF Settled, Closed, Since, Later
  <2> QED
    BY <2>1, <2>2
<1> QED
  BY <1>6, <1>7, <1>8, <1>9 DEF RunsHold

\* So does a boot: it asks about an occurrence after all that ran.
LEMMA RunsBoot ==
  ASSUME BaseInv, Boot, RunsHold
  PROVE  RunsHold'
<1>1. /\ \A p \in Procs : proc[p].pc = "idle"
      /\ disk' = BootRecs /\ Records' = BootRecs /\ DOMAIN tasks' = DOMAIN disk
      /\ DOMAIN BootRecs = DOMAIN disk
      /\ \A t \in DOMAIN disk : BootRecs[t] = AskMissed(t, disk[t]) /\ disk[t] \in Record
      /\ \A k \in jobs' : ~k.once => k.at = now + 1
      /\ now' = now /\ proc' = proc /\ ran' = ran
  BY BootFacts DEF history
<1>2. BaseInv'
  BY BootBase
<1>3. \A q \in Procs : proc'[q].op = "none"
  BY <1>1, TheProc DEF Shaped
<1>4. \A c \in CopiesFrom(published)' : c = BootRecs
  <2>1. \A q \in Procs : proc'[q].pc = "idle"
    BY <1>1
  <2> QED
    BY <1>1, <2>1 DEF CopiesFrom
<1>5. disk \in CopiesFrom(published)
  BY CopiesAre DEF BaseInv, Types
<1>6. ASSUME NEW t \in DOMAIN disk
      PROVE  \/ BootRecs[t] = disk[t]
             \/ /\ disk[t].ask /\ now > Since(disk[t]) /\ Since(disk[t]) \in Nat
                /\ BootRecs[t].missed = now /\ Since(BootRecs[t]) >= now
  <2>1. disk[t] \in Record /\ BootRecs[t] = AskMissed(t, disk[t])
    BY <1>1
  <2>2. CASE AskMissed(t, disk[t]) # disk[t]
    <3>1. disk[t].ask /\ now > Since(disk[t]) /\ BootRecs[t] = [disk[t] EXCEPT !.missed = now, !.asked = now]
      BY <2>1, <2>2, AskMissedEdits, Here
    <3>2. /\ BootRecs[t].missed = now /\ BootRecs[t].asked = now
          /\ BootRecs[t].last = disk[t].last /\ BootRecs[t].made = disk[t].made
      BY <2>1, <3>1 DEF Record
    <3>3. disk[t].last \in Nat /\ disk[t].made \in Nat /\ Since(disk[t]) \in Nat
      BY <2>1, RecordNumbers
    <3>4. Since(BootRecs[t]) >= now
      BY <3>2, <3>3, Here DEF Since, Later
    <3> QED
      BY <3>1, <3>2, <3>3, <3>4
  <2> QED
    BY <2>1, <2>2
<1>7. \A q \in Procs : RunOK(q)' /\ ChainOK(q)'
  BY <1>3 DEF RunOK, RunsOne, ChainOK
<1>8. Distinct'
  BY <1>3 DEF Distinct, RunsOne
<1>9. JobsOK'
  <2> SUFFICES ASSUME NEW k \in jobs', ~k.once PROVE AskedBefore(k.task, k.at)'
    BY DEF JobsOK
  <2>1. k.at = now + 1
    BY <1>1
  <2>2. ASSUME NEW c \in CopiesFrom(published)', k.task \in DOMAIN c PROVE c[k.task].missed < k.at
    <3>1. Past(Records)' /\ c = Records'
      BY <1>1, <1>2, <1>4, <2>2 DEF BaseInv, AllPast
    <3>2. c[k.task].missed \in 0..now
      BY <1>1, <2>2, <3>1 DEF Past
    <3> QED
      BY <2>1, <3>2, Here
  <2> QED
    BY <2>2 DEF AskedBefore
<1>10. Seen'
  <2>1. ASSUME NEW t \in DOMAIN BootRecs, BootRecs[t].missed # 0 PROVE Since(BootRecs[t]) >= BootRecs[t].missed
    <3>1. CASE BootRecs[t] = disk[t]
      BY <1>1, <1>5, <2>1, <3>1 DEF RunsHold, Seen
    <3> QED
      BY <1>1, <1>6, <2>1, <3>1
  <2>2. ASSUME NEW c \in CopiesFrom(published)', NEW t \in DOMAIN c, c[t].missed # 0 PROVE Since(c[t]) >= c[t].missed
    BY <1>4, <2>1, <2>2
  <2> QED
    BY <2>2 DEF Seen, Since, Later
<1>11. RanOK'
  <2> SUFFICES ASSUME NEW t \in Timed, NEW i \in Times PROVE ran[t][i] <= 1 /\ (ran[t][i] > 0 => Settled(t, i)')
    BY <1>1 DEF RanOK
  <2>1. ran[t][i] <= 1 /\ (ran[t][i] > 0 => Settled(t, i))
    BY DEF RunsHold, RanOK
  <2>2. ASSUME Settled(t, i) PROVE Settled(t, i)'
    <3>1. i <= now /\ i \in Nat /\ now \in Nat /\ Closed(disk, t, i)
      BY <1>5, <2>2, Here DEF Settled
    <3>2. Closed(BootRecs, t, i)
      <4> SUFFICES ASSUME t \in DOMAIN disk
                   PROVE  BootRecs[t].missed # i /\ (BootRecs[t].ask => Since(BootRecs[t]) >= i)
        BY <1>1 DEF Closed
      <4>1. disk[t].missed # i /\ (disk[t].ask => Since(disk[t]) >= i)
        BY <3>1 DEF Closed
      <4>2. CASE BootRecs[t] = disk[t]
        BY <4>1, <4>2
      <4>3. CASE /\ disk[t].ask /\ now > Since(disk[t]) /\ Since(disk[t]) \in Nat
                 /\ BootRecs[t].missed = now /\ Since(BootRecs[t]) >= now
        <5>1. BootRecs[t] \in Record
          <6>1. BootRecs[t] = AskMissed(t, disk[t]) /\ disk[t] \in Record /\ now \in Times
            BY <1>1, Here
          <6> QED
            BY <6>1, AskMissedEdits
        <5>2. Since(BootRecs[t]) \in Nat
          BY <5>1, RecordNumbers
        <5> QED
          BY <3>1, <4>1, <4>3, <5>2
      <4> QED
        BY <1>6, <4>2, <4>3
    <3>3. ASSUME NEW k, Named(k)' PROVE i < k.at
      <4>1. k.at = now + 1
        BY <1>1, <3>3 DEF Named
      <4> QED
        BY <3>1, <4>1
    <3>4. \A c \in CopiesFrom(published)' : Closed(c, t, i)
      BY <1>4, <3>2
    <3> QED
      BY <1>1, <3>1, <3>3, <3>4 DEF Settled, Closed, Since, Later
  <2> QED
    BY <2>1, <2>2
<1> QED
  BY <1>7, <1>8, <1>9, <1>10, <1>11 DEF RunsHold

\* It holds at first.
LEMMA RunsInit ==
  ASSUME Init
  PROVE  RunsHold
<1>1. /\ jobs = {} /\ proc = [p \in Procs |-> Idle] /\ tasks = Empty /\ disk \in Stored
      /\ ran = [t \in Tasks |-> [i \in Times |-> 0]]
  BY DEF Init
<1>2. \A q \in Procs : proc[q].op = "none" /\ proc[q].pc = "idle"
  BY <1>1 DEF Idle
<1>3. \A q \in Procs : RunOK(q) /\ ChainOK(q)
  BY <1>2 DEF RunOK, RunsOne, ChainOK
<1>4. JobsOK /\ Distinct
  BY <1>1, <1>2 DEF JobsOK, Distinct, RunsOne
<1>5. RanOK
  BY <1>1 DEF RanOK, Tasks
<1>6. Seen
  <2> SUFFICES ASSUME NEW c \in CopiesFrom(published), NEW t \in DOMAIN c, c[t].missed # 0
               PROVE  Since(c[t]) >= c[t].missed
    BY DEF Seen
  <2>1. c = disk
    <3>1. DOMAIN Records = {}
      BY <1>1 DEF Records, Empty
    <3> QED
      BY <1>2, <3>1, QuietCopies
  <2>2. disk[t] \in Record /\ disk[t].missed <= disk[t].asked
    BY <1>1, <2>1, SchedulerAssumption DEF PastRecord
  <2>3. BaseInv
    BY InitBase
  <2>4. disk[t].missed \in Nat /\ disk[t].asked \in Nat /\ disk[t].last \in Nat /\ disk[t].made \in Nat
    BY <2>2, <2>3, RecordNumbers
  <2> QED
    BY <2>1, <2>2, <2>4 DEF Since, Later
<1> QED
  BY <1>3, <1>4, <1>5, <1>6 DEF RunsHold

\* Every step keeps it.
LEMMA RunsNext ==
  ASSUME BaseInv, RunsInv, [Next]_vars
  PROVE  RunsInv'
<1> SUFFICES ASSUME ~overtook', ~unwritten' PROVE RunsHold'
  BY DEF RunsInv
<1>1. ASSUME NEW p \in Procs, NEW x, Steady(p, x), unwritten' = unwritten \/ \E t : NoteUnwritten(t) PROVE RunsHold
  <2>1. ~overtook
    BY <1>1, SteadyMoves DEF Moves, CopyMoves
  <2>2. ~unwritten
    BY <1>1 DEF NoteUnwritten
  <2> QED
    BY <2>1, <2>2 DEF RunsInv
<1>2. ASSUME NEW p \in Procs, NEW x, Steady(p, x), KeepsRuns(p, x) PROVE RunsHold'
  <2>1. RunsHold
    BY <1>1, <1>2 DEF KeepsRuns
  <2> QED
    BY <1>2, <2>1, RunsKept
<1>3. ASSUME NEW p \in Procs, Plainly(p) PROVE RunsHold'
  BY <1>2, <1>3 DEF Plainly, Edits, Passes
<1>4. ASSUME NEW p \in Procs, Publish(p) \/ RemoveSpent(p) \/ LateTicket(p) PROVE RunsHold'
  BY <1>2, <1>4, PublishSteady, RemoveSpentSteady, LateTicketSteady
<1>5. ASSUME NEW p \in Procs, \E t \in Rules : Event(p, t) PROVE RunsHold'
  BY <1>2, <1>5, EventSteady DEF Passes
<1>6. ASSUME NEW p \in Procs, Save(p) PROVE RunsHold'
  <2>1. RunsHold
    BY <1>1, <1>6, SaveSteady
  <2> QED
    BY <1>6, <2>1, RunsSave
<1>7. ASSUME NEW p \in Procs, Stamp(p) \/ StampNothing(p) PROVE RunsHold'
  <2>1. RunsHold
    <3>1. CASE Stamp(p)
      BY <1>1, <3>1, StampSteady
    <3>2. CASE StampNothing(p)
      BY <1>1, <3>2, StampNothingSteady DEF Passes
    <3> QED
      BY <1>7, <3>1, <3>2
  <2> QED
    BY <1>7, <2>1, RunsStamp
<1>8. ASSUME NEW p \in Procs, Execute(p) PROVE RunsHold'
  <2>1. RunsHold
    BY <1>1, <1>8, ExecuteSteady DEF Passes
  <2> QED
    BY <1>8, <2>1, RunsExecute
<1>9. ASSUME NEW p \in Procs, NEW t \in Tasks, Answers(p, t) PROVE RunsHold'
  <2>1. (\E x : Steady(p, x)) /\ unwritten' = unwritten
    BY <1>9, AnswerSteady DEF Edits
  <2>2. RunsHold
    BY <1>1, <2>1
  <2> QED
    BY <1>9, <2>2, RunsAnswer
<1>10. ASSUME NEW p \in Procs, NEW k \in jobs, Fire(p, k) PROVE RunsHold'
  <2>1. RunsHold
    BY <1>1, <1>10, FireSteady
  <2> QED
    BY <1>10, <2>1, RunsFire
<1>11. CASE Idles
  <2>1. RunsHold
    BY <1>11 DEF Idles, RunsInv
  <2> QED
    BY <1>11, <2>1, RunsIdles
<1>12. CASE Crash \/ Boot
  <2>1. RunsHold
    BY <1>12 DEF Crash, Boot, history, RunsInv
  <2> QED
    BY <1>12, <2>1, RunsCrash, RunsBoot
<1>13. CASE Next
  <2>1. ASSUME NEW p \in Procs, Specially(p) PROVE RunsHold'
    BY <1>4, <1>5, <1>6, <1>7, <1>8, <1>9, <1>10, <2>1 DEF Specially
  <2> QED
    BY <1>3, <1>11, <1>12, <1>13, <2>1, Kinds
<1>14. CASE UNCHANGED vars
  <2>1. Idles
    BY <1>14, Here DEF vars, Idles
  <2> QED
    BY <1>11, <2>1
<1> QED
  BY <1>13, <1>14

\* Whatever is edited, answered, restarted or lost on the way, an occurrence of a recurring schedule
\* runs at most once and nobody is asked about one that ran, as long as no stamp was kept from a file
\* that asks and no late ticket overtook a reader.  (RecurringJob::fire, answer_missed_run,
\* ask_about_a_missed_run, stamp_fire.)
THEOREM OccurrencesRunOnce == Spec => []OccurrenceRunsOnce
<1>1. BaseInv /\ RunsInv => OccurrenceRunsOnce
  <2> SUFFICES ASSUME BaseInv, RunsHold, NEW t \in Timed, NEW i \in Times
               PROVE  ran[t][i] <= 1 /\ (t \in DOMAIN tasks /\ tasks[t].rec.missed = i => ran[t][i] = 0)
    BY DEF RunsInv, OccurrenceRunsOnce
  <2>1. ran[t][i] <= 1
    BY DEF RunsHold, RanOK
  <2>2. t \in DOMAIN tasks /\ tasks[t].rec.missed = i => ran[t][i] = 0
    BY AskedHasNotRun DEF RunsHold
  <2> QED
    BY <2>1, <2>2
<1>2. Init => BaseInv /\ RunsInv
  BY InitBase, RunsInit DEF RunsInv
<1>3. BaseInv /\ RunsInv /\ [Next]_vars => (BaseInv /\ RunsInv)'
  BY NextBase, RunsNext
<1> QED
  BY <1>1, <1>2, <1>3, PTL DEF Spec

-----------------------------------------------------------------------------
(* Rules keep their cooldown.                                              *)

\* A kept rule is a rule nobody makes or deletes.
LEMMA KeptRule ==
  ASSUME NEW t \in KeptRules
  PROVE  t \in Rules /\ t \in Tasks /\ t \notin Timed /\ <<"create", t>> \notin Requests /\ <<"delete", t>> \notin Requests
BY SchedulerAssumption DEF KeptRules, Tasks

\* It stays in the map, or out of it.
LEMMA RuleStaysKept ==
  ASSUME MapMoves, NEW t \in KeptRules
  PROVE  /\ t \in DOMAIN tasks <=> t \in DOMAIN tasks'
         /\ t \in DOMAIN tasks => Edited(tasks[t].rec, tasks'[t].rec)
<1>1. t \notin Timed /\ <<"create", t>> \notin Requests /\ <<"delete", t>> \notin Requests
  BY KeptRule
<1>2. ASSUME t \in DOMAIN tasks' PROVE t \in DOMAIN tasks /\ Edited(tasks[t].rec, tasks'[t].rec)
  BY <1>1, <1>2 DEF MapMoves
<1>3. ASSUME t \in DOMAIN tasks PROVE t \in DOMAIN tasks'
  BY <1>1, <1>3 DEF MapMoves
<1> QED
  BY <1>2, <1>3

\* Its stamp never goes back,
LEMMA StampedStays ==
  ASSUME BaseInv, MapMoves, NEW t \in KeptRules, NEW i \in 1..now, Stamped(Records, t, i)
  PROVE  Stamped(Records', t, i)
<1> SUFFICES ASSUME t \in DOMAIN Records' PROVE Records'[t].last >= i
  BY DEF Stamped
<1>1. t \in DOMAIN tasks' /\ Records'[t] = tasks'[t].rec
  BY TheNewRecords
<1>2. t \in DOMAIN tasks /\ tasks'[t].rec.last \in {tasks[t].rec.last, now}
  BY <1>1, RuleStaysKept DEF Edited
<1>3. tasks[t].rec.last >= i
  BY <1>2, TheRecords DEF BaseInv, Stamped
<1> QED
  BY <1>1, <1>2, <1>3, Here

\* in the copies that count,
LEMMA StampedCopies ==
  ASSUME BaseInv, Moves, ~overtook', NEW t \in KeptRules, NEW i \in 1..now,
         \A c \in CopiesFrom(published) : Stamped(c, t, i)
  PROVE  \A c \in CopiesFrom(published)' : Stamped(c, t, i)
<1>1. Stamped(Records, t, i)
  BY CopiesAre
<1>2. Stamped(Records', t, i)
  BY <1>1, StampedStays DEF Moves
<1> QED
  BY <1>2 DEF Moves, CopyMoves

\* nor in those that count for q.
LEMMA StampedLevel ==
  ASSUME BaseInv, Moves, ~overtook', NEW q \in Procs, NEW t \in KeptRules, NEW i \in 1..now,
         \A c \in CopiesFrom(Level(q)) : Stamped(c, t, i)
  PROVE  \A c \in CopiesFrom(Level(q))' : Stamped(c, t, i)
<1>1. Stamped(Records, t, i)
  BY CopiesAre
<1>2. Stamped(Records', t, i)
  BY <1>1, StampedStays DEF Moves
<1> QED
  BY <1>2 DEF Moves, CopyMoves

\* A rule's fire is of a past instant.
LEMMA FiresAt ==
  ASSUME BaseInv, NEW q \in Procs, NEW t, Fires(q, t)
  PROVE  proc[q].at \in 1..now /\ proc[q].at \in Times /\ proc[q].at \in Nat \ {0}
<1>1. proc[q].at \in 1..now
  BY TheProc DEF Shaped, Fires
<1> QED
  BY <1>1, Here, SchedulerAssumption DEF Times

\* The stamps are known after a step in which a fire goes on, is stamped, or is made and noted.
LEMMA StampsStay ==
  ASSUME BaseInv, Moves, ~overtook', NEW t \in KeptRules, Stamps(t),
         \A i \in Times : ran'[t][i] > 0 =>
            ran[t][i] > 0 \/ (i <= now /\ \A c \in CopiesFrom(published) : Stamped(c, t, i)),
         cooldowns'[t] \in Nat, cooldowns'[t] >= cooldowns[t],
         \A q \in Procs : Fires(q, t)' =>
            \/ /\ Fires(q, t) /\ proc'[q].at = proc[q].at
               /\ \/ proc'[q].pc \in {"publish", "exec"} => proc[q].pc \in {"publish", "exec"}
                  \/ \A c \in CopiesFrom(Level(q))' : Stamped(c, t, proc[q].at)
            \/ t \in DOMAIN tasks /\ proc'[q].at <= cooldowns'[t] /\ proc'[q].pc \notin {"publish", "exec"}
  PROVE  Stamps(t)'
<1>1. now \in Nat /\ now' \in Nat /\ now' >= now /\ Times \subseteq Nat /\ cooldowns[t] \in Nat
  <2>1. t \in Rules
    BY KeptRule
  <2> QED
    BY <2>1, Here DEF Moves, BaseInv, Types
<1>2. ASSUME NEW i \in Times, ran'[t][i] > 0 PROVE i <= now' /\ \A c \in CopiesFrom(published)' : Stamped(c, t, i)
  <2>1. i <= now /\ \A c \in CopiesFrom(published) : Stamped(c, t, i)
    BY <1>2 DEF Stamps
  <2>2. i \in 1..now
    BY <1>1, <2>1, SchedulerAssumption DEF Times
  <2> QED
    BY <1>1, <2>1, <2>2, StampedCopies
<1>3. ASSUME NEW q \in Procs, Fires(q, t)'
      PROVE  /\ t \in DOMAIN tasks' /\ cooldowns'[t] >= proc'[q].at
             /\ proc'[q].pc \in {"publish", "exec"} => \A c \in CopiesFrom(Level(q))' : Stamped(c, t, proc'[q].at)
  <2>1. CASE Fires(q, t) /\ proc'[q].at = proc[q].at
    <3> DEFINE i == proc[q].at
    <3>1. i \in 1..now
      BY <2>1, FiresAt
    <3>2. /\ t \in DOMAIN tasks /\ cooldowns[t] >= i
          /\ proc[q].pc \in {"publish", "exec"} => \A c \in CopiesFrom(Level(q)) : Stamped(c, t, i)
      BY <2>1 DEF Stamps
    <3>3. t \in DOMAIN tasks'
      BY <3>2, RuleStaysKept DEF Moves
    <3>4. cooldowns'[t] >= i
      BY <1>1, <3>1, <3>2
    <3>5. ASSUME proc[q].pc \in {"publish", "exec"} PROVE \A c \in CopiesFrom(Level(q))' : Stamped(c, t, i)
      <4>1. PICK ii : ii = i
        OBVIOUS
      <4> HIDE DEF i
      <4>2. \A c \in CopiesFrom(Level(q)) : Stamped(c, t, ii)
        BY <3>2, <3>5, <4>1
      <4>3. \A c \in CopiesFrom(Level(q))' : Stamped(c, t, ii)
        BY <3>1, <4>1, <4>2, StampedLevel
      <4> QED
        BY <4>1, <4>3
    <3>6. \/ t \in DOMAIN tasks /\ proc'[q].at <= cooldowns'[t] /\ proc'[q].pc \notin {"publish", "exec"}
          \/ proc'[q].pc \in {"publish", "exec"} => proc[q].pc \in {"publish", "exec"}
          \/ \A c \in CopiesFrom(Level(q))' : Stamped(c, t, proc[q].at)
      BY <1>3
    <3> QED
      BY <2>1, <3>3, <3>4, <3>5, <3>6
  <2>2. CASE t \in DOMAIN tasks /\ proc'[q].at <= cooldowns'[t] /\ proc'[q].pc \notin {"publish", "exec"}
    <3>1. t \in DOMAIN tasks'
      BY <2>2, RuleStaysKept DEF Moves
    <3> QED
      BY <2>2, <3>1
  <2> QED
    BY <1>3, <2>1, <2>2
<1> QED
  BY <1>2, <1>3 DEF Stamps, Fires, Stamped

\* A step in which no rule is fired or run.
LEMMA SpacedStays ==
  ASSUME NEW t, Spaced(t), ran'[t] = ran[t],
         \A q \in Procs : Fires(q, t)' => Fires(q, t) /\ proc'[q].at = proc[q].at
  PROVE  Spaced(t)'
BY DEF Spaced, Fires, Apart

\* The engine's note is an instant, or none.
LEMMA Cooldowns ==
  ASSUME BaseInv, NEW t \in KeptRules
  PROVE  t \in Rules /\ cooldowns[t] \in Nat
<1>1. t \in Rules /\ cooldowns \in [Rules -> Times \cup {0}]
  BY KeptRule DEF BaseInv, Types
<1>2. cooldowns[t] \in Times \cup {0}
  BY <1>1
<1> QED
  BY <1>1, <1>2, Here

\* A step in which p fires nothing new and runs nothing, and learns of a stamp with a copy of the map.
LEMMA RuleSteady ==
  ASSUME BaseInv, NEW p \in Procs, NEW x, Steady(p, x), ~overtook', NEW t \in KeptRules, RuleInv(t),
         ran'[t] = ran[t], cooldowns'[t] = cooldowns[t],
         x.op = "rule" /\ x.task = t =>
            /\ Fires(p, t) /\ x.at = proc[p].at
            /\ \/ x.pc \in {"publish", "exec"} => proc[p].pc \in {"publish", "exec"}
               \/ \A c \in CopiesFrom(Level(p))' : Stamped(c, t, proc[p].at)
  PROVE  RuleInv(t)'
<1>1. Moves /\ proc'[p] = x /\ \A q \in Procs \ {p} : proc'[q] = proc[q]
  BY SteadyMoves, OneMoves
<1>2. ASSUME NEW q \in Procs, Fires(q, t)'
      PROVE  /\ Fires(q, t) /\ proc'[q].at = proc[q].at
             /\ \/ proc'[q].pc \in {"publish", "exec"} => proc[q].pc \in {"publish", "exec"}
                \/ \A c \in CopiesFrom(Level(q))' : Stamped(c, t, proc[q].at)
  <2>1. CASE q = p
    BY <1>1, <1>2, <2>1 DEF Fires
  <2>2. CASE q # p
    BY <1>1, <1>2, <2>2 DEF Fires
  <2> QED
    BY <2>1, <2>2
<1>3. cooldowns'[t] \in Nat /\ cooldowns'[t] >= cooldowns[t]
  BY Cooldowns
<1>4. Stamps(t)'
  BY <1>1, <1>2, <1>3, StampsStay DEF RuleInv
<1>5. Spaced(t)'
  BY <1>2, SpacedStays DEF RuleInv
<1> QED
  BY <1>4, <1>5 DEF RuleInv

\* A step that fires and stamps no rule keeps the invariant.
LEMMA RuleKept ==
  ASSUME BaseInv, NEW p \in Procs, NEW x, Steady(p, x), KeepsRules(p, x), ~overtook', NEW t \in KeptRules, RuleInv(t)
  PROVE  RuleInv(t)'
<1>1. ran'[t] = ran[t] /\ cooldowns'[t] = cooldowns[t]
  BY DEF KeepsRules
<1>2. ASSUME x.op = "rule", x.task = t
      PROVE  /\ Fires(p, t) /\ x.at = proc[p].at
             /\ x.pc \in {"publish", "exec"} => proc[p].pc \in {"publish", "exec"}
  BY <1>2 DEF KeepsRules, Fires
<1> QED
  BY <1>1, <1>2, RuleSteady

\* So does a stamp, which of a rule with a cooldown is always written.
LEMMA RuleStamp ==
  ASSUME BaseInv, Cooldown > 0, NEW p \in Procs, Stamp(p), ~overtook', NEW t \in KeptRules, RuleInv(t)
  PROVE  RuleInv(t)'
<1> DEFINE u == proc[p].task
<1>1. PICK x :
           /\ Steady(p, x) /\ ran' = ran /\ cooldowns' = cooldowns
           /\ x.op = proc[p].op /\ x.task = u /\ x.at = proc[p].at
           /\ u \in DOMAIN tasks /\ DOMAIN tasks' = DOMAIN tasks
           /\ tasks'[u].rec = [tasks[u].rec EXCEPT !.last = now]
           /\ Durable(u, tasks[u].rec) => Copies(p, x)
  BY StampSteady
<1>2. ASSUME x.op = "rule", x.task = t
      PROVE  Fires(p, t) /\ \A c \in CopiesFrom(Level(p))' : Stamped(c, t, proc[p].at)
  <2>1. Fires(p, t) /\ u = t
    BY <1>1, <1>2 DEF Fires
  <2>2. Copies(p, x)
    BY <1>1, <2>1, KeptRule DEF Durable
  <2>3. Moves
    BY <1>1, SteadyMoves
  <2>4. Records'[t].last = now
    <3>1. tasks[t].rec \in Record /\ Records'[t] = tasks'[t].rec
      BY <1>1, <2>1, <2>3, TheRecords, TheNewRecords DEF BaseInv, Moves
    <3> QED
      BY <1>1, <2>1, <3>1 DEF Record
  <2>5. proc[p].at <= now /\ now \in Nat /\ proc[p].at \in Nat
    BY <2>1, FiresAt, Here
  <2>6. Stamped(Records', t, proc[p].at)
    BY <2>4, <2>5 DEF Stamped
  <2> QED
    BY <1>1, <2>1, <2>2, <2>6, CopyIsTheMap
<1> QED
  BY <1>1, <1>2, RuleSteady

\* A kept rule is never gone when it is stamped.
LEMMA RuleStampNothing ==
  ASSUME BaseInv, NEW p \in Procs, StampNothing(p), ~overtook', NEW t \in KeptRules, RuleInv(t)
  PROVE  RuleInv(t)'
<1>1. PICK x : /\ Steady(p, x) /\ x = [proc[p] EXCEPT !.pc = "exec"] /\ ran' = ran /\ cooldowns' = cooldowns
               /\ proc[p].task \notin DOMAIN tasks
  BY StampNothingSteady DEF Passes
<1>2. x.op = proc[p].op /\ x.task = proc[p].task
  BY <1>1, TheProc DEF Proc
<1>3. ~(x.op = "rule" /\ x.task = t)
  BY <1>1, <1>2 DEF RuleInv, Stamps, Fires
<1> QED
  BY <1>1, <1>3, RuleSteady

\* To be a cooldown apart is symmetric.
LEMMA ApartIsSymmetric ==
  ASSUME NEW i \in Nat, NEW j \in Nat, Apart(i, j)
  PROVE  Apart(j, i)
BY SchedulerAssumption DEF Apart

\* An event fires a rule a cooldown after all that is known of it.
LEMMA RuleEvent ==
  ASSUME BaseInv, NEW p \in Procs, NEW u \in Rules, Event(p, u), ~overtook', NEW t \in KeptRules, RuleInv(t)
  PROVE  RuleInv(t)'
<1>1. PICK x : /\ Steady(p, x) /\ x.op = "rule" /\ x.pc = "start" /\ x.task = u /\ x.at = now
  BY EventSteady DEF Passes
<1>2. /\ u \in DOMAIN tasks /\ ~Debounced(u) /\ cooldowns' = [cooldowns EXCEPT ![u] = now] /\ ran' = ran
  BY DEF Event, history
<1>3. Moves /\ proc'[p] = x /\ \A q \in Procs \ {p} : proc'[q] = proc[q]
  BY <1>1, SteadyMoves, OneMoves
<1>4. CASE t # u
  <2>1. cooldowns'[t] = cooldowns[t]
    BY <1>2, <1>4
  <2> QED
    BY <1>1, <1>2, <1>4, <2>1, RuleSteady
<1>5. CASE t = u
  <2> DEFINE last == Later(cooldowns[t], tasks[t].rec.last)
  <2>1. cooldowns[t] \in Nat /\ tasks[t].rec.last \in Nat /\ now \in Nat /\ Cooldown \in Nat
    <3>1. tasks[t].rec \in Record
      BY <1>2, <1>5, TheRecords DEF BaseInv
    <3> QED
      BY <3>1, RecordNumbers, Cooldowns, Here, SchedulerAssumption
  <2>2. last = 0 \/ now - last >= Cooldown
    BY <1>2, <1>5, <2>1 DEF Debounced, Later
  <2>3. last \in Nat /\ last >= cooldowns[t] /\ last >= tasks[t].rec.last
    BY <2>1 DEF Later
  <2> HIDE DEF last
  <2>4. cooldowns'[t] = now /\ cooldowns'[t] >= cooldowns[t]
    <3>1. cooldowns'[t] = now
      BY <1>2, <1>5, Cooldowns DEF BaseInv, Types
    <3> QED
      BY <2>1, <2>2, <2>3, <3>1
  \* Whatever is known of an earlier run is its cooldown ago.
  <2>5. ASSUME NEW i \in Nat \ {0}, last >= i PROVE Apart(now, i) /\ Apart(i, now)
    BY <2>1, <2>2, <2>3, <2>5 DEF Apart
  <2>6. ASSUME NEW i \in Times, ran[t][i] > 0 PROVE Apart(now, i)
    <3>1. Stamped(Records, t, i)
      BY <2>6, CopiesAre DEF RuleInv, Stamps
    <3>2. tasks[t].rec.last >= i
      BY <1>2, <1>5, <3>1, TheRecords DEF Stamped, BaseInv
    <3>3. i \in Nat \ {0}
      BY SchedulerAssumption DEF Times
    <3>4. last >= i
      BY <2>1, <2>3, <3>2, <3>3
    <3> QED
      BY <2>5, <3>3, <3>4
  <2>7. ASSUME NEW q \in Procs, Fires(q, t) PROVE Apart(now, proc[q].at) /\ Apart(proc[q].at, now)
    <3>1. cooldowns[t] >= proc[q].at
      BY <2>7 DEF RuleInv, Stamps
    <3>2. proc[q].at \in Nat \ {0}
      BY <2>7, FiresAt
    <3>3. last >= proc[q].at
      BY <2>1, <2>3, <3>1, <3>2
    <3> QED
      BY <2>5, <3>2, <3>3
  <2>8. Stamps(t)'
    <3>1. ASSUME NEW q \in Procs, Fires(q, t)'
          PROVE  \/ /\ Fires(q, t) /\ proc'[q].at = proc[q].at
                    /\ proc'[q].pc \in {"publish", "exec"} => proc[q].pc \in {"publish", "exec"}
                 \/ t \in DOMAIN tasks /\ proc'[q].at <= cooldowns'[t] /\ proc'[q].pc \notin {"publish", "exec"}
      <4>1. CASE q = p
        BY <1>1, <1>2, <1>3, <1>5, <2>1, <2>4, <4>1
      <4>2. CASE q # p
        BY <1>3, <3>1, <4>2 DEF Fires
      <4> QED
        BY <4>1, <4>2
    <3>2. cooldowns'[t] \in Nat
      BY <2>1, <2>4
    <3> QED
      BY <1>2, <1>3, <2>4, <3>1, <3>2, StampsStay DEF RuleInv
  <2>9. Spaced(t)'
    <3>1. ASSUME NEW q \in Procs, Fires(q, t)', NEW i \in Times, ran[t][i] > 0 PROVE Apart(proc'[q].at, i)
      <4>1. CASE q = p
        BY <1>1, <1>3, <2>6, <3>1, <4>1
      <4>2. CASE q # p
        BY <1>3, <3>1, <4>2 DEF Fires, RuleInv, Spaced
      <4> QED
        BY <4>1, <4>2
    <3>2. ASSUME NEW a \in Procs, NEW b \in Procs, a # b, Fires(a, t)', Fires(b, t)' PROVE Apart(proc'[a].at, proc'[b].at)
      <4>1. CASE a = p
        BY <1>1, <1>3, <2>7, <3>2, <4>1 DEF Fires
      <4>2. CASE b = p
        BY <1>1, <1>3, <2>7, <3>2, <4>2 DEF Fires
      <4>3. CASE a # p /\ b # p
        BY <1>3, <3>2, <4>3 DEF Fires, RuleInv, Spaced
      <4> QED
        BY <4>1, <4>2, <4>3
    <3>3. Spaced(t)
      BY DEF RuleInv
    <3> QED
      BY <1>2, <3>1, <3>2, <3>3 DEF Spaced, Apart
  <2> QED
    BY <2>8, <2>9 DEF RuleInv
<1> QED
  BY <1>4, <1>5

\* The run counts from when its rule fired.
LEMMA RuleExecute ==
  ASSUME BaseInv, NEW p \in Procs, Execute(p), ~overtook', NEW t \in KeptRules, RuleInv(t)
  PROVE  RuleInv(t)'
<1> DEFINE n == proc[p].at
<1>1. PICK x : Steady(p, x) /\ x.op \in {"none", "spent"} /\ proc[p].pc = "exec" /\ cooldowns' = cooldowns
  BY ExecuteSteady DEF Passes
<1>2. Moves /\ proc'[p] = x /\ \A q \in Procs \ {p} : proc'[q] = proc[q]
  BY <1>1, SteadyMoves, OneMoves
<1>3. ran \in [Tasks -> [Times -> Nat]] /\ t \in Tasks
  BY KeptRule DEF BaseInv, Types
<1>4. CASE ~Fires(p, t)
  <2>1. ran'[t] = ran[t]
    <3>1. CASE proc[p].op \in {"chain", "late"}
      <4>1. ran' = [ran EXCEPT ![proc[p].task][proc[p].at] = @ + 1]
        BY <3>1 DEF Execute
      <4>2. proc[p].task # t
        BY <3>1, RunsAreTimed, KeptRule DEF RunsOne
      <4> QED
        BY <1>3, <4>1, <4>2
    <3>2. CASE proc[p].op = "rule"
      <4>1. ran' = [ran EXCEPT ![proc[p].task][proc[p].at] = @ + 1]
        BY <3>2 DEF Execute
      <4>2. proc[p].task # t
        BY <1>4, <3>2 DEF Fires
      <4> QED
        BY <1>3, <4>1, <4>2
    <3>3. CASE proc[p].op \notin {"chain", "late", "rule"}
      BY <3>3 DEF Execute
    <3> QED
      BY <3>1, <3>2, <3>3
  <2> QED
    BY <1>1, <2>1, RuleSteady
<1>5. CASE Fires(p, t)
  <2>1. ran' = [ran EXCEPT ![t][n] = @ + 1]
    BY <1>5 DEF Execute, Fires
  <2>2. n \in Times /\ n \in 1..now /\ n \in Nat \ {0}
    BY <1>5, FiresAt
  <2> HIDE DEF n
  <2>3. ran'[t][n] = ran[t][n] + 1 /\ \A i \in Times \ {n} : ran'[t][i] = ran[t][i]
    BY <1>3, <2>1, <2>2
  <2>4. \A i \in Times : ran[t][i] > 0 => Apart(n, i) /\ Apart(i, n)
    <3>1. \A i \in Times : ran[t][i] > 0 => Apart(n, i)
      BY <1>5 DEF RuleInv, Spaced, n
    <3> QED
      BY <2>2, <3>1, Here, ApartIsSymmetric
  <2>5. \A i \in Times : ran[t][i] \in Nat
    BY <1>3
  <2>6. \A q \in Procs : Fires(q, t)' => q # p /\ Fires(q, t) /\ proc'[q] = proc[q]
    BY <1>1, <1>2 DEF Fires
  <2>7. Stamps(t)'
    <3>1. Level(p) = published
      BY <1>1 DEF Level
    <3>2. n <= now /\ \A c \in CopiesFrom(published) : Stamped(c, t, n)
      BY <1>1, <1>5, <2>2, <3>1, Here DEF RuleInv, Stamps, n
    <3>3. \A i \in Times : ran'[t][i] > 0 =>
            ran[t][i] > 0 \/ (i <= now /\ \A c \in CopiesFrom(published) : Stamped(c, t, i))
      BY <2>3, <3>2
    <3>4. cooldowns'[t] \in Nat /\ cooldowns'[t] >= cooldowns[t]
      BY <1>1, Cooldowns
    <3> QED
      BY <1>2, <2>6, <3>3, <3>4, StampsStay DEF RuleInv
  <2>8. Spaced(t)'
    <3>1. Spaced(t)
      BY DEF RuleInv
    <3>2. ASSUME NEW i \in Times, Cooldown > 0 PROVE ran'[t][i] <= 1
      <4>1. CASE i = n
        <5>1. ~(ran[t][n] > 0)
          BY <2>2, <2>4, <3>2 DEF Apart
        <5> QED
          BY <2>2, <2>3, <2>5, <4>1, <5>1
      <4>2. CASE i # n
        BY <2>3, <3>1, <3>2, <4>2 DEF Spaced
      <4> QED
        BY <4>1, <4>2
    <3>3. ASSUME NEW i \in Times, NEW j \in Times, i # j, ran'[t][i] > 0, ran'[t][j] > 0 PROVE Apart(i, j)
      <4>1. CASE i = n
        BY <2>3, <2>4, <3>3, <4>1
      <4>2. CASE j = n
        BY <2>3, <2>4, <3>3, <4>2
      <4>3. CASE i # n /\ j # n
        BY <2>3, <3>1, <3>3, <4>3 DEF Spaced
      <4> QED
        BY <4>1, <4>2, <4>3
    <3>4. ASSUME NEW q \in Procs, Fires(q, t)', NEW i \in Times, ran'[t][i] > 0 PROVE Apart(proc'[q].at, i)
      <4>1. q # p /\ Fires(q, t) /\ proc'[q] = proc[q]
        BY <2>6, <3>4
      <4>2. CASE i = n
        BY <1>5, <3>1, <4>1, <4>2 DEF Spaced, n
      <4>3. CASE i # n
        BY <2>3, <3>1, <3>4, <4>1, <4>3 DEF Spaced
      <4> QED
        BY <4>2, <4>3
    <3>5. ASSUME NEW a \in Procs, NEW b \in Procs, a # b, Fires(a, t)', Fires(b, t)' PROVE Apart(proc'[a].at, proc'[b].at)
      <4>1. Fires(a, t) /\ Fires(b, t) /\ proc'[a] = proc[a] /\ proc'[b] = proc[b]
        BY <2>6, <3>5
      <4> QED
        BY <3>1, <3>5, <4>1 DEF Spaced
    <3> QED
      BY <3>2, <3>3, <3>4, <3>5 DEF Spaced, Apart
  <2> QED
    BY <2>7, <2>8 DEF RuleInv
<1> QED
  BY <1>4, <1>5

\* The clock and a quiet job keep the invariant.
LEMMA RuleIdles ==
  ASSUME BaseInv, Idles, ~overtook', NEW t \in KeptRules, RuleInv(t)
  PROVE  RuleInv(t)'
<1>1. Moves /\ proc' = proc /\ ran' = ran /\ cooldowns' = cooldowns
  BY IdlesMoves DEF Idles, Moves
<1>2. \A q \in Procs : Fires(q, t)' => Fires(q, t) /\ proc'[q] = proc[q]
  BY <1>1 DEF Fires
<1>3. cooldowns'[t] \in Nat /\ cooldowns'[t] >= cooldowns[t]
  BY <1>1, Cooldowns
<1>4. Stamps(t)'
  BY <1>1, <1>2, <1>3, StampsStay DEF RuleInv
<1>5. Spaced(t)'
  BY <1>1, <1>2, SpacedStays DEF RuleInv
<1> QED
  BY <1>4, <1>5 DEF RuleInv

\* A restart: nothing is in flight, and the file or what is made of it has every stamp.
LEMMA RuleRestart ==
  ASSUME BaseInv, NEW t \in KeptRules, RuleInv(t), ran' = ran, now' = now, \A q \in Procs : proc'[q].op = "none",
         \A c \in CopiesFrom(published)' : t \in DOMAIN c => t \in DOMAIN disk /\ c[t] = disk[t]
  PROVE  RuleInv(t)'
<1>1. \A q \in Procs : ~Fires(q, t)'
  BY DEF Fires
<1>2. disk \in CopiesFrom(published)
  BY CopiesAre DEF BaseInv, Types
<1>3. ASSUME NEW i \in Times, ran[t][i] > 0 PROVE i <= now /\ \A c \in CopiesFrom(published)' : Stamped(c, t, i)
  BY <1>2, <1>3 DEF RuleInv, Stamps, Stamped
<1>4. Stamps(t)'
  BY <1>1, <1>3 DEF Stamps, Stamped
<1>5. Spaced(t)'
  BY <1>1, SpacedStays DEF RuleInv
<1> QED
  BY <1>4, <1>5 DEF RuleInv

\* So does a crash,
LEMMA RuleCrash ==
  ASSUME BaseInv, Crash, NEW t \in KeptRules, RuleInv(t)
  PROVE  RuleInv(t)'
<1>1. tasks' = Empty /\ proc' = [p \in Procs |-> Idle] /\ now' = now /\ disk' = disk /\ ran' = ran
  BY DEF Crash, history
<1>2. \A q \in Procs : proc'[q].op = "none" /\ proc'[q].pc = "idle"
  BY <1>1 DEF Idle
<1>3. DOMAIN Records' = {}
  BY <1>1 DEF Records, Empty
<1>4. \A c \in CopiesFrom(published)' : c = Records' \/ c = disk
  BY <1>1, <1>2 DEF CopiesFrom
<1> QED
  BY <1>1, <1>2, <1>3, <1>4, RuleRestart

\* and a boot, which leaves rules alone.
LEMMA RuleBoot ==
  ASSUME BaseInv, Boot, NEW t \in KeptRules, RuleInv(t)
  PROVE  RuleInv(t)'
<1>1. /\ \A p \in Procs : proc[p].pc = "idle"
      /\ disk' = BootRecs /\ Records' = BootRecs /\ DOMAIN BootRecs = DOMAIN disk
      /\ \A u \in DOMAIN disk : BootRecs[u] = AskMissed(u, disk[u]) /\ disk[u] \in Record
      /\ now' = now /\ proc' = proc /\ ran' = ran
  BY BootFacts DEF history
<1>2. \A q \in Procs : proc'[q].op = "none" /\ proc'[q].pc = "idle"
  BY <1>1, TheProc DEF Shaped
<1>3. \A c \in CopiesFrom(published)' : c = BootRecs
  BY <1>1, <1>2 DEF CopiesFrom
<1>4. t \in DOMAIN disk => BootRecs[t] = disk[t]
  <2>1. t \in Rules /\ now \in Times
    BY KeptRule, Here
  <2> QED
    BY <1>1, <2>1, AskMissedEdits
<1> QED
  BY <1>1, <1>2, <1>3, <1>4, RuleRestart

\* So does every step.
LEMMA RuleNext ==
  ASSUME BaseInv, CooldownInv, [Next]_vars
  PROVE  CooldownInv'
<1> SUFFICES ASSUME ~overtook', Cooldown > 0, NEW t \in KeptRules PROVE RuleInv(t)'
  BY DEF CooldownInv
<1>1. ASSUME NEW p \in Procs, NEW x, Steady(p, x) PROVE RuleInv(t)
  BY <1>1, SteadyMoves DEF Moves, CopyMoves, CooldownInv
<1>2. ASSUME NEW p \in Procs, NEW x, Steady(p, x), KeepsRules(p, x) PROVE RuleInv(t)'
  BY <1>1, <1>2, RuleKept
<1>3. ASSUME NEW p \in Procs, Plainly(p) PROVE RuleInv(t)'
  BY <1>2, <1>3 DEF Plainly, Edits, Passes
<1>4. ASSUME NEW p \in Procs, Save(p) \/ Publish(p) \/ RemoveSpent(p) \/ LateTicket(p) PROVE RuleInv(t)'
  BY <1>2, <1>4, SaveSteady, PublishSteady, RemoveSpentSteady, LateTicketSteady
<1>5. ASSUME NEW p \in Procs, NEW u \in Tasks, Answers(p, u) PROVE RuleInv(t)'
  <2>1. \E x : Edits(p, x)
    BY <1>5, AnswerSteady
  <2> QED
    BY <1>2, <2>1 DEF Edits
<1>6. ASSUME NEW p \in Procs, NEW k \in jobs, Fire(p, k) PROVE RuleInv(t)'
  BY <1>2, <1>6, FireSteady
<1>7. ASSUME NEW p \in Procs, Stamp(p) \/ StampNothing(p) \/ Execute(p) \/ \E u \in Rules : Event(p, u)
      PROVE  RuleInv(t)'
  <2>1. \E x : Steady(p, x)
    BY <1>7, AllSteady DEF Specially
  <2>2. RuleInv(t)
    BY <1>1, <2>1
  <2> QED
    BY <1>7, <2>2, RuleStamp, RuleStampNothing, RuleExecute, RuleEvent
<1>8. CASE Idles
  BY <1>8, RuleIdles DEF Idles, CooldownInv
<1>9. CASE Crash \/ Boot
  BY <1>9, RuleCrash, RuleBoot DEF Crash, Boot, history, CooldownInv
<1>10. CASE Next
  <2>1. ASSUME NEW p \in Procs, Specially(p) PROVE RuleInv(t)'
    BY <1>4, <1>5, <1>6, <1>7, <2>1 DEF Specially
  <2> QED
    BY <1>3, <1>8, <1>9, <1>10, <2>1, Kinds
<1>11. CASE UNCHANGED vars
  <2>1. Idles
    BY <1>11, Here DEF vars, Idles
  <2> QED
    BY <1>8, <2>1
<1> QED
  BY <1>10, <1>11

\* It holds at first.
LEMMA RuleInit ==
  ASSUME Init
  PROVE  CooldownInv
<1> SUFFICES ASSUME NEW t \in KeptRules PROVE RuleInv(t)
  BY DEF CooldownInv
<1>1. \A i \in Times : ran[t][i] = 0
  BY KeptRule DEF Init
<1>2. \A q \in Procs : ~Fires(q, t)
  BY DEF Init, Idle, Fires
<1> QED
  BY <1>1, <1>2 DEF RuleInv, Stamps, Spaced

\* The engine's fires of a rule are its cooldown apart, across restarts, as long as no late ticket
\* overtook a reader: each is stamped in the file before it runs, and the engine goes by the later of
\* its own note and the stamp.  (rules_to_fire, stamp_fire, rehydrate.)
THEOREM CooldownIsKept == Spec => []CooldownHolds
<1>1. BaseInv /\ CooldownInv => CooldownHolds
  <2> SUFFICES ASSUME BaseInv, ~overtook, CooldownInv, NEW t \in KeptRules, NEW i \in Times, NEW j \in Times
               PROVE  /\ Cooldown > 0 => ran[t][i] <= 1
                      /\ i < j /\ ran[t][i] > 0 /\ ran[t][j] > 0 => j - i >= Cooldown
    BY DEF CooldownHolds
  <2>1. Cooldown > 0 => Spaced(t)
    BY DEF CooldownInv, RuleInv
  <2>2. Cooldown > 0 => ran[t][i] <= 1
    BY <2>1 DEF Spaced
  <2>3. i \in Nat /\ j \in Nat /\ Cooldown \in Nat
    BY Here, SchedulerAssumption
  <2>4. ASSUME i < j, ran[t][i] > 0, ran[t][j] > 0 PROVE j - i >= Cooldown
    <3>1. CASE Cooldown > 0
      BY <2>1, <2>3, <2>4, <3>1 DEF Spaced, Apart
    <3>2. CASE Cooldown = 0
      BY <2>3, <2>4, <3>2
    <3> QED
      BY <2>3, <3>1, <3>2
  <2> QED
    BY <2>2, <2>4
<1>2. Init => BaseInv /\ CooldownInv
  BY InitBase, RuleInit
<1>3. BaseInv /\ CooldownInv /\ [Next]_vars => (BaseInv /\ CooldownInv)'
  BY NextBase, RuleNext
<1> QED
  BY <1>1, <1>2, <1>3, PTL DEF Spec

=============================================================================
