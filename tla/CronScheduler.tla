---------------------------- MODULE CronScheduler ----------------------------
(***************************************************************************)
(* Schedules and event rules (pond-infra-scheduler: cron_scheduler.rs      *)
(* CronSchedulerAdapter, RecurringJob, SnapshotWriter, TaskRunContext;     *)
(* rules_engine.rs): the task map behind one lock, the timer jobs, the     *)
(* API calls, the runs they and the timers start, the file the map is      *)
(* saved to, the questions about missed runs, and restarts.                *)
(*                                                                         *)
(* A call or a run is several steps, one for each time it takes the map's  *)
(* lock, registers or drops a job, publishes a snapshot or runs its task.  *)
(* Time counts the occurrences of a recurring schedule: one is due at      *)
(* every instant, an operation at instant n happens at or after n and      *)
(* before n + 1; a clock that is read and then waits for the map's lock    *)
(* (stamp_fire, create_task) is taken as read under it.  Labels, time      *)
(* zones and what a task does are left out, as are a failing disk and      *)
(* currently_running, which is only displayed.                             *)
(***************************************************************************)
EXTENDS Naturals, FiniteSets

CONSTANTS Timed,      \* ids of schedules fired by a timer
          Rules,      \* ids of rules fired by the rules engine
          Stored,     \* the files the first boot may find: functions from ids to records
          Requests,   \* the calls made, as <<operation, id>> (a bound)
          Cooldown,   \* cooldown_secs of the rules, in instants
          Procs,      \* calls and runs in flight at once (a bound)
          MaxTime, MaxCalls, MaxCrashes  \* bounds

Tasks == Timed \cup Rules
Times == 1 .. MaxTime
Shapes == {0} \cup Times   \* a record's fire_at; 0 for a recurring one
SameShape == MaxTime + 1   \* an update that leaves the shape alone
NoJob == 0                 \* the nil job id

\* PersistedTask
Record == [fireAt : Shapes, paused : BOOLEAN, ask : BOOLEAN, missed : Times \cup {0},
           asked : Times \cup {0}, last : Times \cup {0}, made : Times \cup {0}]

\* What the first boot, at instant 1, may find: nothing of the future, and whoever was asked about
\* a missed run was asked by then; nobody is asked about a rule.
PastRecord == {rec \in Record : /\ {rec.asked, rec.last, rec.made} \subseteq {0, 1}
                                /\ rec.missed <= rec.asked}

ASSUME SchedulerAssumption ==
    /\ Timed \cap Rules = {} /\ IsFiniteSet(Tasks) /\ IsFiniteSet(Procs)
    /\ \A f \in Stored : /\ DOMAIN f \subseteq Tasks /\ f \in [DOMAIN f -> PastRecord]
                         /\ \A t \in DOMAIN f \cap Rules : f[t].missed = 0
    /\ {Cooldown, MaxCalls, MaxCrashes} \subseteq Nat /\ MaxTime \in Nat \ {0}

VARIABLES
    now,       \* the clock
    up,        \* whether the process runs
    tasks,     \* CronSchedulerAdapter::tasks: a record and a job id for each id
    jobs,      \* the timer's jobs
    proc,      \* calls and runs in flight
    nextSeq,   \* SnapshotWriter::next_seq
    published, \* SnapshotWriter::published
    disk,      \* schedules.json
    cooldowns, \* run_rules_engine's cooldowns; 0 for none
    ran,       \* ran[t][i]: runs made for instant i of t (history)
    overtook,  \* someone read the map between a one-shot's copy and its ticket (history)
    unwritten, \* a stamp was kept from a file that still asks (history)
    unsaved,   \* a call was refused after it had changed the map, not copied since (history)
    calls, crashes  \* counters, for the bounds

vars == <<now, up, tasks, jobs, proc, nextSeq, published, disk, cooldowns, ran, overtook,
          unwritten, unsaved, calls, crashes>>
file == <<nextSeq, published, disk>>
env == <<now, up, crashes>>
history == <<ran, overtook, unwritten, unsaved>>

Empty == [t \in {} |-> 0]
Without(f, t) == [u \in DOMAIN f \ {t} |-> f[u]]
Records == [t \in DOMAIN tasks |-> tasks[t].rec]

Idle == [op |-> "none", pc |-> "idle", task |-> "", job |-> NoJob, at |-> 0, shape |-> 0,
         ask |-> {}, snap |-> Empty, seq |-> 0]

Init ==
    /\ now = 1 /\ up = FALSE
    /\ tasks = Empty /\ jobs = {}
    /\ proc = [p \in Procs |-> Idle]
    /\ nextSeq = 1 /\ published = 0 /\ disk \in Stored
    /\ cooldowns = [t \in Rules |-> 0]
    /\ ran = [t \in Tasks |-> [i \in Times |-> 0]] 
    /\ overtook = FALSE /\ unwritten = FALSE /\ unsaved = FALSE
    /\ calls = 0 /\ crashes = 0

Becomes(p, c) == proc' = [proc EXCEPT ![p] = c]
Goto(p, pc) == Becomes(p, [proc[p] EXCEPT !.pc = pc])
Return(p) == Becomes(p, Idle)
\* A call that has only to save and return.
SaveNext(p) == Becomes(p, [Idle EXCEPT !.op = "call", !.pc = "save"])
\* The entry of t: its record and its job.
Put(t, rec, job) ==
    tasks' = [u \in DOMAIN tasks \cup {t} |-> IF u = t THEN [rec |-> rec, job |-> job] ELSE tasks[u]]
At(p, pc) == up /\ proc[p].pc = pc

-----------------------------------------------------------------------------
(* The timer.                                                              *)

\* A job id nothing refers to.
UsedJobs ==
    {k.id : k \in jobs} \cup {tasks[t].job : t \in DOMAIN tasks} \cup {proc[p].job : p \in Procs}
FreshJob == CHOOSE j \in 1 .. Cardinality(UsedJobs) + 1 : j \notin UsedJobs

\* add_one_shot_to_scheduler and RecurringJob::arm: the job of a task of this
\* shape, a recurring one's for the first occurrence after now.
JobFor(j, t, shape) ==
    IF shape # 0 THEN [id |-> j, task |-> t, once |-> TRUE, at |-> shape]
                 ELSE [id |-> j, task |-> t, once |-> FALSE, at |-> now + 1]

\* A timed task is given a job; a rule is not.
Armed(t, shape) == IF t \in Rules THEN {} ELSE {JobFor(FreshJob, t, shape)}
ArmedId(t) == IF t \in Rules THEN NoJob ELSE FreshJob

\* RecurringJob::fire, for the job the entry names: the next occurrence is
\* armed, a question nobody answered is closed, and the run begins.
Fire(p, k) ==
    /\ up /\ proc[p].pc = "idle"
    /\ k \in jobs /\ ~k.once /\ k.at <= now
    /\ k.task \in DOMAIN tasks /\ tasks[k.task].job = k.id
    /\ Put(k.task, [tasks[k.task].rec EXCEPT !.missed = 0], FreshJob)
    /\ jobs' = (jobs \ {k}) \cup {JobFor(FreshJob, k.task, 0)}
    /\ Becomes(p, [Idle EXCEPT !.op = "chain", !.pc = "stamp", !.task = k.task, !.at = k.at])
    /\ UNCHANGED <<file, cooldowns, env, history, calls>>

\* A superseded job stays quiet.
FireSuperseded(k) ==
    /\ up /\ k \in jobs /\ ~k.once /\ k.at <= now
    /\ ~(k.task \in DOMAIN tasks /\ tasks[k.task].job = k.id)
    /\ jobs' = jobs \ {k}
    /\ UNCHANGED <<tasks, proc, file, cooldowns, env, history, calls>>

\* A one-shot's job runs whatever its entry has become.
FireOnce(p, k) ==
    /\ up /\ proc[p].pc = "idle"
    /\ k \in jobs /\ k.once /\ k.at <= now
    /\ jobs' = jobs \ {k}
    /\ Becomes(p, [Idle EXCEPT !.op = "once", !.pc = "stamp", !.task = k.task, !.at = k.at])
    /\ UNCHANGED <<tasks, file, cooldowns, env, history, calls>>

-----------------------------------------------------------------------------
(* The file.                                                               *)

\* Whoever reads the map while a one-shot is between its copy and its ticket
\* is overtaken by it; and the copy holds what a refused call has left there.
NoteRead ==
    /\ overtook' = (overtook \/ \E q \in Procs : proc[q].pc = "ticket")
    /\ unsaved' = FALSE

\* SnapshotWriter::ticket: later than every ticket before it.
Ticket == nextSeq
TakeTicket == nextSeq' = nextSeq + 1

\* Only the order of tickets matters, so they are numbered from 1 again once
\* nobody else holds one.
Alone(p) == \A q \in Procs \ {p} : proc[q].seq = 0
Published(p, seq) ==
    /\ published' = IF Alone(p) THEN 0 ELSE seq
    /\ nextSeq' = IF Alone(p) THEN 1 ELSE nextSeq

\* save: ticket and copy under the lock.
Save(p) ==
    /\ At(p, "save")
    /\ Becomes(p, [proc[p] EXCEPT !.pc = "publish", !.seq = Ticket, !.snap = Records])
    /\ TakeTicket /\ NoteRead
    /\ UNCHANGED <<tasks, jobs, published, disk, cooldowns, env, ran, unwritten, calls>>

\* What comes after the file is written: a run executes, an answer to run
\* starts one, anything else is over.
AfterPublish(c) ==
    CASE c.op \in {"chain", "once", "late", "now", "rule"} ->
             [c EXCEPT !.pc = "exec", !.snap = Empty, !.seq = 0]
      [] c.op = "answer" /\ c.ask = {TRUE} ->
             [Idle EXCEPT !.op = "late", !.pc = "start", !.task = c.task, !.at = c.at]
      [] OTHER -> Idle

\* Fault: the last to write wins, whatever its ticket.
PublishLast(p) ==
    /\ At(p, "publish")
    /\ Published(p, proc[p].seq) /\ disk' = proc[p].snap
    /\ Becomes(p, AfterPublish(proc[p]))
    /\ UNCHANGED <<tasks, jobs, cooldowns, env, history, calls>>

\* publish: one writer at a time; a snapshot older than the file is dropped.
Publish(p) ==
    /\ At(p, "publish")
    /\ IF published > proc[p].seq
       THEN Published(p, published) /\ UNCHANGED disk
       ELSE Published(p, proc[p].seq) /\ disk' = proc[p].snap
    /\ Becomes(p, AfterPublish(proc[p]))
    /\ UNCHANGED <<tasks, jobs, cooldowns, env, history, calls>>

-----------------------------------------------------------------------------
(* Runs (TaskRunContext::run, start_run's spawned task).                   *)

\* Fault: only schedules that ask write their stamp.
DurableIfAsked(t, rec) == rec.ask

\* Fault: only cooldown rules write their stamp.
DurableIfRule(t, rec) == t \in Rules

\* durable_fire_stamp
Durable(t, rec) == rec.ask \/ (t \in Rules /\ Cooldown > 0)

\* A stamp that is not written, though the file says it should be, or a copy
\* on its way there: the edit or the delete that did away with it is not saved yet.
Asks(recs, t) == t \in DOMAIN recs /\ Durable(t, recs[t])
NoteUnwritten(t) ==
    unwritten' = (unwritten \/ Asks(disk, t) \/ \E q \in Procs : Asks(proc[q].snap, t))

\* stamp_fire: before the run, so a crash in it still counts as a fire.
Stamp(p) ==
    LET t   == proc[p].task
        rec == [tasks[t].rec EXCEPT !.last = now]
    IN
    /\ At(p, "stamp") /\ t \in DOMAIN tasks
    /\ Put(t, rec, tasks[t].job)
    /\ IF Durable(t, rec)
       THEN /\ Becomes(p, [proc[p] EXCEPT !.pc = "publish", !.seq = Ticket,
                                          !.snap = [Records EXCEPT ![t] = rec]])
            /\ TakeTicket /\ NoteRead /\ UNCHANGED unwritten
       ELSE /\ Goto(p, "exec")
            /\ NoteUnwritten(t)
            /\ UNCHANGED <<nextSeq, overtook, unsaved>>
    /\ UNCHANGED <<jobs, published, disk, cooldowns, env, ran, calls>>

\* The task was deleted meanwhile: nothing to stamp, and the run goes on.
StampNothing(p) ==
    /\ At(p, "stamp") /\ proc[p].task \notin DOMAIN tasks
    /\ Goto(p, "exec") /\ NoteUnwritten(proc[p].task)
    /\ UNCHANGED <<tasks, jobs, file, cooldowns, env, ran, overtook, unsaved, calls>>

\* The executor runs the task; a one-shot is then removed.
Execute(p) ==
    LET c == proc[p] IN
    /\ At(p, "exec")
    /\ ran' = IF c.op \in {"chain", "late", "rule"} THEN [ran EXCEPT ![c.task][c.at] = @ + 1] ELSE ran
    /\ IF c.op = "once" THEN Becomes(p, [c EXCEPT !.op = "spent", !.pc = "remove"]) ELSE Return(p)
    /\ UNCHANGED <<tasks, jobs, file, cooldowns, env, overtook, unwritten, unsaved, calls>>

\* A spent one-shot: the entry of its id is removed and the map copied ...
RemoveSpent(p) ==
    /\ At(p, "remove")
    /\ tasks' = Without(tasks, proc[p].task)
    /\ Becomes(p, [proc[p] EXCEPT !.pc = "ticket", !.snap = Without(Records, proc[p].task)])
    /\ NoteRead
    /\ UNCHANGED <<jobs, file, cooldowns, env, ran, unwritten, calls>>

\* ... and the ticket taken once the lock is released.
LateTicket(p) ==
    /\ At(p, "ticket")
    /\ Becomes(p, [proc[p] EXCEPT !.pc = "publish", !.seq = Ticket])
    /\ TakeTicket
    /\ UNCHANGED <<tasks, jobs, published, disk, cooldowns, env, history, calls>>

\* start_run: a task that is gone is not run.
StartRun(p) ==
    /\ At(p, "start")
    /\ IF proc[p].task \in DOMAIN tasks THEN Goto(p, "stamp") ELSE Return(p)
    /\ UNCHANGED <<tasks, jobs, file, cooldowns, env, history, calls>>

-----------------------------------------------------------------------------
(* The calls of SchedulerPort.                                             *)

\* A call of this operation begins.
Call(p, op, t) ==
    /\ up /\ proc[p].pc = "idle"
    /\ <<op, t>> \in Requests
    /\ calls < MaxCalls
    /\ calls' = calls + 1

\* create_task's first look.
Create(p, t, shape) ==
    /\ Call(p, "create", t) /\ t \notin DOMAIN tasks
    /\ shape \in {0, now + 1} \cap Shapes
    /\ Becomes(p, [Idle EXCEPT !.op = "call", !.pc = "insert", !.task = t, !.shape = shape])
    /\ UNCHANGED <<tasks, jobs, file, cooldowns, env, history>>

\* create_task from registration to insert, under the lock; asks if missed.
Insert(p) ==
    LET t == proc[p].task IN
    /\ At(p, "insert")
    /\ Put(t, [fireAt |-> proc[p].shape, paused |-> FALSE, ask |-> t \notin Rules,
               missed |-> 0, asked |-> 0, last |-> 0, made |-> now], ArmedId(t))
    /\ jobs' = jobs \cup Armed(t, proc[p].shape)
    /\ SaveNext(p)
    /\ UNCHANGED <<file, cooldowns, env, history, calls>>

\* delete_task takes the entry out, then drops its job.
Delete(p, t) ==
    /\ Call(p, "delete", t) /\ t \in DOMAIN tasks
    /\ tasks' = Without(tasks, t)
    /\ Becomes(p, [Idle EXCEPT !.op = "call", !.pc = "unjob", !.task = t, !.job = tasks[t].job])
    /\ UNCHANGED <<jobs, file, cooldowns, env, history>>

\* pause_task swaps the job id for none, then drops the job.
Pause(p, t) ==
    /\ Call(p, "pause", t) /\ t \in DOMAIN tasks /\ ~tasks[t].rec.paused
    /\ Put(t, [tasks[t].rec EXCEPT !.paused = TRUE], NoJob)
    /\ Becomes(p, [Idle EXCEPT !.op = "call", !.pc = "unjob", !.task = t, !.job = tasks[t].job])
    /\ UNCHANGED <<jobs, file, cooldowns, env, history>>

\* update_task settles the question next if asking was turned off; the others save.
Onward(p) == IF proc[p].ask = {FALSE} THEN Goto(p, "settle") ELSE SaveNext(p)

\* A call that ends in an error: what it changed in the map stays there, and it saves nothing.
Refuse(p) == Return(p) /\ unsaved' = TRUE

\* JobScheduler::remove, for delete, pause and update.
Unjob(p) ==
    /\ At(p, "unjob")
    /\ jobs' = {k \in jobs : k.id # proc[p].job}
    /\ Onward(p)
    /\ UNCHANGED <<tasks, file, cooldowns, env, history, calls>>

\* It fails: the job stays.  A delete or a pause returns the error, an update ignores it.
UnjobFails(p) ==
    /\ At(p, "unjob") /\ proc[p].job # NoJob
    /\ IF proc[p].op = "edit" THEN Onward(p) /\ UNCHANGED unsaved ELSE Refuse(p)
    /\ UNCHANGED <<tasks, jobs, file, cooldowns, env, ran, overtook, unwritten, calls>>

\* resume_task, under one lock; a one-shot whose time has passed stays paused.
Resume(p, t) ==
    /\ Call(p, "resume", t) /\ t \in DOMAIN tasks /\ tasks[t].rec.paused
    /\ tasks[t].rec.fireAt = 0 \/ tasks[t].rec.fireAt > now
    /\ Put(t, [tasks[t].rec EXCEPT !.paused = FALSE, !.asked = now], ArmedId(t))
    /\ jobs' = jobs \cup Armed(t, tasks[t].rec.fireAt)
    /\ SaveNext(p)
    /\ UNCHANGED <<file, cooldowns, env, history>>

\* update_task's first lock: what is not the shape is changed.
Edit(t, reshaped, ask) ==
    LET rec == tasks[t].rec IN
    Put(t, [rec EXCEPT !.asked = IF reshaped \/ (ask = {TRUE} /\ ~rec.ask) THEN now ELSE @,
                       !.ask = IF ask = {} THEN @ ELSE ask = {TRUE}], tasks[t].job)

\* It remembers of the entry its job and whether it is armed.
Update(p, t, shape, ask) ==
    /\ Call(p, "update", t) /\ t \in DOMAIN tasks
    /\ shape \in {SameShape, 0} \cup ({now + 1} \cap Times)
    /\ ask \in {{}, {TRUE}, {FALSE}}
    /\ Edit(t, shape # SameShape, ask)
    /\ Becomes(p, [Idle EXCEPT !.op = "edit", !.task = t, !.shape = shape, !.ask = ask,
                               !.job = tasks[t].job,
                               !.pc = CASE shape # SameShape -> IF tasks[t].rec.paused \/ t \in Rules
                                                                THEN "restate" ELSE "rearm"
                                        [] shape = SameShape /\ ask = {FALSE} -> "settle"
                                        [] OTHER -> "save"])
    /\ UNCHANGED <<jobs, file, cooldowns, env, history>>

\* The same, refused while it works out the one-shot's time from a cron it cannot read.
UpdateRefused(p, t, ask) ==
    /\ Call(p, "update", t) /\ t \in DOMAIN tasks
    /\ ask \in {{}, {TRUE}, {FALSE}}
    /\ Edit(t, TRUE, ask)
    /\ Refuse(p)
    /\ UNCHANGED <<jobs, file, cooldowns, env, ran, overtook, unwritten>>

\* update_task's second lock, for a task that was armed: a new job and shape.
Rearm(p) ==
    LET t == proc[p].task IN
    /\ At(p, "rearm")
    /\ jobs' = jobs \cup Armed(t, proc[p].shape)
    /\ IF t \in DOMAIN tasks THEN Put(t, [tasks[t].rec EXCEPT !.fireAt = proc[p].shape], ArmedId(t))
                              ELSE UNCHANGED tasks
    /\ Goto(p, "unjob")
    /\ UNCHANGED <<file, cooldowns, env, history, calls>>

\* A cron that cannot be read, or has no next occurrence: the old job keeps running.
RearmRefused(p) ==
    /\ At(p, "rearm")
    /\ Refuse(p)
    /\ UNCHANGED <<tasks, jobs, file, cooldowns, env, ran, overtook, unwritten, calls>>

\* update_task's second lock, for a task that had no job: the shape alone.
Restate(p) ==
    LET t == proc[p].task IN
    /\ At(p, "restate")
    /\ IF t \in DOMAIN tasks THEN Put(t, [tasks[t].rec EXCEPT !.fireAt = proc[p].shape], tasks[t].job)
                              ELSE UNCHANGED tasks
    /\ Onward(p)
    /\ UNCHANGED <<jobs, file, cooldowns, env, history, calls>>

\* update_task settles the question once asking is turned off.
Settle(p) ==
    LET t == proc[p].task IN
    /\ At(p, "settle")
    /\ IF t \in DOMAIN tasks THEN Put(t, [tasks[t].rec EXCEPT !.missed = 0], tasks[t].job)
                              ELSE UNCHANGED tasks
    /\ SaveNext(p)
    /\ UNCHANGED <<jobs, file, cooldowns, env, history, calls>>

\* answer_missed_run: the question is taken under the lock and the map saved
\* before the run is started or the skip noted.
Answer(p, t, run) ==
    /\ Call(p, "answer", t) /\ t \in DOMAIN tasks /\ tasks[t].rec.missed # 0
    /\ Put(t, [tasks[t].rec EXCEPT !.missed = 0], tasks[t].job)
    /\ Becomes(p, [Idle EXCEPT !.op = "answer", !.pc = "save", !.task = t,
                               !.ask = {run}, !.at = tasks[t].rec.missed])
    /\ UNCHANGED <<jobs, file, cooldowns, env, history>>

\* run_now
RunNow(p, t) ==
    /\ Call(p, "run", t) /\ t \in DOMAIN tasks
    /\ Becomes(p, [Idle EXCEPT !.op = "now", !.pc = "stamp", !.task = t])
    /\ UNCHANGED <<tasks, jobs, file, cooldowns, env, history>>

-----------------------------------------------------------------------------
(* The rules engine.                                                       *)

Later(a, b) == IF a > b THEN a ELSE b

\* rules_to_fire, for a rule the event matches: debounced against the later of
\* the engine's own note and the rule's stamp.
Debounced(t) ==
    LET last == Later(cooldowns[t], tasks[t].rec.last)
    IN  tasks[t].rec.paused \/ (last # 0 /\ now - last < Cooldown)

\* run_rules_engine: an event fires a rule, by run_now.  The list of rules it
\* goes by is seconds old at most (RULES_CACHE_TTL) and taken as current.
Event(p, t) ==
    /\ up /\ proc[p].pc = "idle"
    /\ t \in DOMAIN tasks /\ ~Debounced(t)
    /\ cooldowns' = [cooldowns EXCEPT ![t] = now]
    /\ Becomes(p, [Idle EXCEPT !.op = "rule", !.pc = "start", !.task = t, !.at = now])
    /\ UNCHANGED <<tasks, jobs, file, env, history, calls>>

-----------------------------------------------------------------------------
(* Restarts.                                                               *)

Tick ==
    /\ now < MaxTime /\ now' = now + 1
    /\ UNCHANGED <<up, tasks, jobs, proc, file, cooldowns, history, calls, crashes>>

Crash ==
    /\ up /\ crashes < MaxCrashes
    /\ up' = FALSE /\ crashes' = crashes + 1
    /\ tasks' = Empty /\ jobs' = {}
    /\ proc' = [p \in Procs |-> Idle]
    /\ nextSeq' = 1 /\ published' = 0
    /\ cooldowns' = [t \in Rules |-> 0]
    /\ unsaved' = FALSE
    /\ UNCHANGED <<now, disk, ran, overtook, unwritten, calls>>

\* ask_about_a_missed_run: the latest occurrence since the last fire, or since
\* the schedule was made, unless it was asked about.
AskMissed(t, rec) ==
    LET since == Later(IF rec.last # 0 THEN rec.last ELSE rec.made, rec.asked)
    IN  IF rec.ask /\ ~rec.paused /\ rec.fireAt = 0 /\ t \notin Rules /\ now > since
        THEN [rec EXCEPT !.missed = now, !.asked = now]
        ELSE rec

\* rehydrate: every record is asked about and armed before the timer starts;
\* the file is written again if a record changed.
Boot ==
    LET recs   == [t \in DOMAIN disk |-> AskMissed(t, disk[t])]
        armed  == {t \in DOMAIN recs \cap Timed : ~recs[t].paused}
        id     == CHOOSE f \in [armed -> 1 .. Cardinality(armed)] :
                      \A a, b \in armed : a # b => f[a] # f[b]
    IN
    /\ ~up /\ up' = TRUE
    /\ tasks' = [t \in DOMAIN recs |-> [rec |-> recs[t], job |-> IF t \in armed THEN id[t] ELSE NoJob]]
    /\ jobs' = {JobFor(id[t], t, recs[t].fireAt) : t \in armed}
    /\ disk' = recs
    /\ UNCHANGED <<now, proc, nextSeq, published, cooldowns, history, calls, crashes>>

Step(p) ==
    \/ Save(p) \/ Publish(p) \/ Stamp(p) \/ StampNothing(p) \/ Execute(p)
    \/ RemoveSpent(p) \/ LateTicket(p) \/ StartRun(p)
    \/ Insert(p) \/ Unjob(p) \/ UnjobFails(p) \/ Rearm(p) \/ RearmRefused(p) \/ Restate(p) \/ Settle(p)

Begin(p, t) ==
    \/ \E shape \in Shapes : Create(p, t, shape)
    \/ Delete(p, t) \/ Pause(p, t) \/ Resume(p, t) \/ RunNow(p, t)
    \/ \E shape \in Shapes \cup {SameShape}, ask \in SUBSET BOOLEAN : Update(p, t, shape, ask)
    \/ \E ask \in SUBSET BOOLEAN : UpdateRefused(p, t, ask)
    \/ \E run \in BOOLEAN : Answer(p, t, run)

Next ==
    \/ \E p \in Procs :
         \/ Step(p)
         \/ \E t \in Tasks : Begin(p, t)
         \/ \E k \in jobs : Fire(p, k) \/ FireOnce(p, k)
         \/ \E t \in Rules : Event(p, t)
    \/ \E k \in jobs : FireSuperseded(k)
    \/ Tick \/ Crash \/ Boot

Spec == Init /\ [][Next]_vars

-----------------------------------------------------------------------------
(* Properties.                                                             *)

\* Types and bounds of the state.
TypeOK ==
    /\ now \in Times /\ up \in BOOLEAN /\ {overtook, unwritten, unsaved} \subseteq BOOLEAN
    /\ DOMAIN tasks \subseteq Tasks /\ DOMAIN disk \subseteq Tasks
    /\ \A t \in DOMAIN tasks : tasks[t].rec \in Record /\ tasks[t].job \in Nat
    /\ \A t \in DOMAIN disk : disk[t] \in Record
    /\ \A k \in jobs : k.id \in Nat \ {NoJob} /\ k.task \in Timed
    /\ published \in Nat /\ nextSeq \in Nat /\ published < nextSeq
    /\ calls <= MaxCalls /\ crashes <= MaxCrashes

\* Nobody has changed the map and still to write it.
AtRest == \A p \in Procs : proc[p].pc \in {"idle", "insert", "exec", "start", "remove"}

\* What a record must not lose.  Of a schedule that does not ask, the stamp and
\* a question a crash left half settled ride on the next save.
Kept(recs) ==
    [t \in DOMAIN recs |-> IF Durable(t, recs[t]) THEN recs[t]
                           ELSE [recs[t] EXCEPT !.last = 0, !.missed = 0]]

\* With no call or run still to write, the file holds the map: no edit, pause,
\* answer or stamp has been overwritten by an older snapshot, in whatever order
\* the writers came to publish; what a refused call has left in the map comes
\* with the next copy of it.  (SnapshotWriter; save, stamp_fire, update_task.)
NewestIsOnDisk == up /\ AtRest /\ ~unsaved => Kept(disk) = Kept(Records)

\* The same, as long as no one-shot took its ticket after somebody else read
\* the map: that is the only way the file can go back.
FileFollowsTheMap == TypeOK /\ (~overtook => NewestIsOnDisk)

\* cron_scheduler.rs, of an edit refused for its cron: "The schedule must be untouched by the failed
\* attempt."  It is changed in the map, and not in the file.
RefusedEditLeavesNoTrace == up /\ AtRest /\ ~overtook => Kept(disk) = Kept(Records)

\* An occurrence of a recurring schedule is run at most once, by its timer or
\* by an answer, whatever is edited, answered or restarted in between, and
\* nobody is asked about an occurrence that ran.  (RecurringJob::fire,
\* answer_missed_run, ask_about_a_missed_run, stamp_fire.)
OccurrenceRunsOnce ==
    ~overtook /\ ~unwritten =>
        \A t \in Timed, i \in Times :
            /\ ran[t][i] <= 1
            /\ t \in DOMAIN tasks /\ tasks[t].rec.missed = i => ran[t][i] = 0

\* Rules that keep their entry: one made again under its id starts afresh.
KeptRules == {t \in Rules : <<"create", t>> \notin Requests /\ <<"delete", t>> \notin Requests}

\* The engine's fires of a rule are at least its cooldown apart, across
\* restarts: the engine's own notes are lost, the stamp in the file is not.
\* (rules_to_fire, stamp_fire.)
CooldownHolds ==
    ~overtook =>
        \A t \in KeptRules, i, j \in Times :
            /\ Cooldown > 0 => ran[t][i] <= 1
            /\ i < j /\ ran[t][i] > 0 /\ ran[t][j] > 0 => j - i >= Cooldown

=============================================================================
