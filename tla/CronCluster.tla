----------------------------- MODULE CronCluster -----------------------------
(***************************************************************************)
(* The cron service of several replicas of the agent on one PostgreSQL     *)
(* database (cron/service.py): the tables of jobs, events and leases, the  *)
(* timer of each replica that turns due jobs into events, its worker that  *)
(* runs the events, and the calls of the cron tool (add, list, remove).    *)
(*                                                                         *)
(* A handler of a replica loads the whole store, changes it in memory and  *)
(* saves it, each in a database call of its own; it does not await in      *)
(* between, so that a replica has at most one such section under way       *)
(* ("section").  The sections of different replicas interleave, and the    *)
(* clock goes on while they last: what a section read from the clock may   *)
(* be old when it is written.  Writing the rows of a store is one step,    *)
(* and so is a load with the deletion of a job that follows it.            *)
(***************************************************************************)
EXTENDS Integers, FiniteSets

CONSTANTS
    Replicas,
    Nobody,        \* owner of a lease that no running replica owns
    Jobs,          \* ids that add_job may draw
    OneShot,       \* jobs scheduled "at" with delete_after_run, as the tool makes them
    Delay,         \* Delay[j]: one-shot: at_ms - now when added; else every_ms
    MaxTime,       \* bound of the clock
    SchedulerTtl, ExecTtl,   \* lease times
    Grace,         \* grace_period_ms
    MaxAttempts,   \* attempts after which an event is dead
    BackoffCap,    \* longest backoff
    Callers,       \* the replicas that get calls of the cron tool (bound)
    MaxUpsets      \* bound on removals, crashes and errors of the database

\* Of the powers of two the provers know nothing.
ASSUME PowersAreNumbers == \A n \in 0..MaxAttempts : 2 ^ n \in Nat

ASSUME CronAssumption ==
    /\ Nobody \notin Replicas /\ IsFiniteSet(Jobs)
    /\ OneShot \subseteq Jobs /\ Delay \in [Jobs -> Nat \ {0}]
    /\ MaxUpsets \in Nat /\ Callers \subseteq Replicas
    /\ {MaxTime, SchedulerTtl, ExecTtl, Grace, MaxAttempts, BackoffCap} \subseteq Nat \ {0}

VARIABLES
    now,
    jobs,       \* ithqbot_cron_jobs
    events,     \* ithqbot_cron_events, by dedupe_key
    leases,     \* ithqbot_cron_leases
    section,    \* per replica: the section under way and the store it has in memory
    worker,     \* per replica: the worker loop and the event it runs
    timer,      \* per replica: the time _arm_timer has armed, or Never
    added,      \* history: the ids drawn
    successes,  \* history: how often an occurrence has run to its end
    removed,    \* history: the ids a user has removed
    valid,      \* history: see Touch
    lost,       \* history: see Touch
    failures

vars == <<now, jobs, events, leases, section, worker, timer,
          added, successes, removed, valid, lost, failures>>

-----------------------------------------------------------------------------
Never == 0
Times == 1..MaxTime

\* dedupe_key of an event and, next_run_at_ms being its second half, the name
\* of the execution lock as well.
Occurrence == Jobs \X Times

\* The rows of the three tables.  "at": schedule.at_ms; "ran": last_run_at_ms is set.
Row == [there : BOOLEAN, on : BOOLEAN, at : Nat, next : Nat, ran : BOOLEAN]
NoRow == [there |-> FALSE, on |-> FALSE, at |-> Never, next |-> Never, ran |-> FALSE]

EventRow == [status : {"none", "pending", "processing", "done", "dead"},
             due : 0..MaxTime, attempts : 0..MaxAttempts]
NoEvent == [status |-> "none", due |-> 0, attempts |-> 0]

Scheduler == <<"scheduler", 0>>
LeaseNames == {Scheduler} \cup Occurrence
Lease == [owner : Replicas \cup {Nobody}, until : Int]

\* "at": when the section began or, once it has read the clock, what it read.
NoRows == [j \in Jobs |-> NoRow]
Idle == [pc |-> "idle", store |-> NoRows, at |-> Never]
Resting == [pc |-> "idle", event |-> <<>>, since |-> 0, result |-> "ok"]

Interval == Jobs \ OneShot
Ever == MaxTime + 1
AllValid == [j \in Interval |-> Ever]

\* The replicas have started on empty tables.
Init ==
    /\ now = 1
    /\ jobs = NoRows
    /\ events = [o \in Occurrence |-> NoEvent]
    /\ leases = [n \in LeaseNames |-> [owner |-> Nobody, until |-> 0]]
    /\ section = [r \in Replicas |-> Idle]
    /\ worker = [r \in Replicas |-> Resting]
    /\ timer = [r \in Replicas |-> Never]
    /\ added = {} /\ successes = [o \in Occurrence |-> 0]
    /\ removed = {} /\ lost = {} /\ failures = 0
    /\ valid = [r \in Replicas |-> AllValid]

\* No section of the replica is under way.
Ready(r) == section[r].pc = "idle"

-----------------------------------------------------------------------------
(* Leases.                                                                 *)

\* acquire_lease, called with the time "at", returns TRUE.
CanAcquire(name, r, at) ==
    leases[name].owner = r \/ leases[name].until < at

Acquire(name, r, at, ttl) ==
    leases' = [leases EXCEPT ![name] = [owner |-> r, until |-> at + ttl]]

-----------------------------------------------------------------------------
(* What is done to a loaded store at the time "at".                        *)

\* _compute_next_run; None is Never.
NextRun(j, row, at) ==
    IF j \in OneShot THEN (IF row.at > at THEN row.at ELSE Never) ELSE at + Delay[j]

\* Mutant: a replica that starts makes every interval job due.
Recomputed_AtOnce(store, at) ==
    [j \in Jobs |-> IF ~store[j].on \/ j \in OneShot THEN store[j]
                   ELSE [store[j] EXCEPT !.next = at]]

\* _recompute_next_runs.
Recomputed(store, at) ==
    [j \in Jobs |->
        LET row == store[j]  next == NextRun(j, row, at) IN
        IF ~row.on \/ (j \in OneShot /\ next = Never /\ ~row.ran) THEN row
        ELSE [row EXCEPT !.next = next]]

\* A one-time job that was missed.
Missed(j, row, at) == row.on /\ j \in OneShot /\ ~row.ran /\ row.at <= at

\* _reconcile_missed_one_time_jobs.
Reconciled(store, at) ==
    [j \in Jobs |->
        IF ~Missed(j, store[j], at) THEN store[j]
        ELSE IF at - store[j].at < Grace THEN [store[j] EXCEPT !.next = at]
        ELSE [store[j] EXCEPT !.on = FALSE, !.next = Never]]

\* The jobs that are due.
DueJobs(store, at) ==
    {j \in Jobs : store[j].on /\ store[j].next # Never /\ store[j].next <= at}

\* What _on_timer makes of the store: a one-time job leaves the memory, but not
\* the table.
MovedOn(store, at) ==
    [j \in Jobs |->
        IF j \notin DueJobs(store, at) THEN store[j]
        ELSE IF j \in OneShot THEN NoRow
        ELSE [store[j] EXCEPT !.next = NextRun(j, store[j], at)]]

\* _get_next_wake_ms, and so what _arm_timer arms.
Wake(store) ==
    LET times == {store[j].next : j \in {i \in Jobs : store[i].on}} \ {Never} IN
    IF times = {} THEN Never ELSE CHOOSE t \in times : \A u \in times : t <= u

\* save_store: rows are inserted or overwritten, and never deleted.  If it
\* raises, only some rows may be.
Saved(store, some) ==
    [j \in Jobs |-> IF j \in some /\ store[j].there THEN store[j] ELSE jobs[j]]

\* A crash, or a database call that raises after its three attempts.
Fails == Cardinality(removed) + failures < MaxUpsets /\ failures' = failures + 1

\* A section of replica r begins: what is left of it is in pc.
Begin(r, pc, store) ==
    section' = [section EXCEPT ![r] = [pc |-> pc, store |-> store, at |-> now]]

\* It goes on with a call that needs no store.
GoOn(r, pc) == section' = [section EXCEPT ![r] = [Idle EXCEPT !.pc = pc]]

End(r) == GoOn(r, "idle")

-----------------------------------------------------------------------------
(* History: lost updates.                                                  *)

\* The sections that have a copy of the store in memory.
WithStore == {"start", "list", "tick", "enqueue", "save", "save run"}

Planned(row) == IF row.on THEN row.next ELSE Never

\* A section of replica r that has begun at the time "since" writes or enqueues the
\* interval jobs js: the copies that other sections have of them are overtaken, those
\* of a section of the same instant only when the clock moves on (valid: the last
\* time at which a copy is not overtaken).  What r does from an overtaken copy is a
\* lost update.
Overtaken(r, j) == valid[r][j] < now

Earlier(t, u) == IF t < u THEN t ELSE u

Touch(r, js, since) ==
    /\ lost' = lost \cup {j \in js : Overtaken(r, j)}
    /\ valid' = [s \in Replicas |->
            IF section'[s].pc \notin WithStore THEN AllValid
            ELSE [j \in Interval |->
                    IF s = r \/ j \notin js THEN valid[s][j]
                    ELSE Earlier(valid[s][j], Earlier(since, section[s].at))]]

\* A section ends that has written nothing.
Leave(r) == End(r) /\ Touch(r, {}, now)

\* Rows of the store are written: all of them, unless it raises.
Write(r, store, some) ==
    /\ jobs' = Saved(store, some)
    /\ Touch(r, {j \in Interval : Planned(Saved(store, some)[j]) # Planned(jobs[j])},
             section[r].at)

-----------------------------------------------------------------------------
(* start, the timer, the calls of the tool.                                *)

\* start loads the store ...
Start(r) ==
    /\ section[r].pc = "down"
    /\ Begin(r, "start", jobs)
    /\ UNCHANGED <<now, jobs, events, leases, worker, timer, added, successes,
                   removed, valid, lost, failures>>

\* ... which is brought up to the time "at", read later, and saved.
UpToDate(r, at) ==
    LET store == section[r].store IN
    CASE section[r].pc = "start" -> Reconciled(Recomputed(store, at), at)
      [] section[r].pc = "list"  -> Reconciled(store, at)
      [] OTHER -> store

\* list_jobs saves only what it has changed.
HasToSave(r, at) ==
    section[r].pc = "list" => \E j \in Jobs : Missed(j, section[r].store[j], at)

\* The timer fires: _on_timer loads the store, ...
TimerFires(r) ==
    /\ Ready(r) /\ timer[r] # Never /\ timer[r] <= now
    /\ timer' = [timer EXCEPT ![r] = Never]
    /\ Begin(r, "tick", jobs)
    /\ UNCHANGED <<now, jobs, events, leases, worker, added, successes,
                   removed, valid, lost, failures>>

\* ... reads the clock and becomes the scheduler ...
BecomeScheduler(r, at) ==
    /\ section[r].pc = "tick" /\ CanAcquire(Scheduler, r, at)
    /\ Acquire(Scheduler, r, at, SchedulerTtl)
    /\ section' = [section EXCEPT ![r].pc = "enqueue", ![r].at = at]
    /\ UNCHANGED <<now, jobs, events, worker, timer, added, successes,
                   removed, valid, lost, failures>>

\* enqueue_job_event for the due jobs among "some".
MakeEvents(r, some) ==
    LET store == section[r].store
        due   == DueJobs(store, section[r].at) \cap some
        keys  == {<<j, store[j].next>> : j \in due}
    IN
    /\ events' = [o \in Occurrence |->
                    IF o \in keys /\ events[o].status = "none"
                    THEN [NoEvent EXCEPT !.status = "pending", !.due = o[2]]
                    ELSE events[o]]
    /\ Touch(r, due \cap Interval, section[r].at)

\* ... and makes events of the due jobs.
Enqueue(r) ==
    /\ section[r].pc = "enqueue"
    /\ section' = [section EXCEPT ![r].pc = "save",
                                  ![r].store = MovedOn(@, section[r].at)]
    /\ MakeEvents(r, Jobs)
    /\ UNCHANGED <<now, jobs, leases, worker, timer, added, successes, removed, failures>>

\* Another replica is the scheduler: the timer is armed for the store as loaded.
NotScheduler(r, at) ==
    /\ section[r].pc = "tick" /\ ~CanAcquire(Scheduler, r, at)
    /\ timer' = [timer EXCEPT ![r] = Wake(section[r].store)]
    /\ Leave(r)
    /\ UNCHANGED <<now, jobs, events, leases, worker, added, successes,
                   removed, failures>>

\* A call raises, before or after it has changed the table: that ends the timer
\* task, and nothing arms another.
TickFails(r) ==
    /\ section[r].pc = "tick" /\ Fails
    /\ \/ UNCHANGED leases
       \/ CanAcquire(Scheduler, r, now) /\ Acquire(Scheduler, r, now, SchedulerTtl)
    /\ Leave(r)
    /\ UNCHANGED <<now, jobs, events, worker, timer, added, successes, removed>>

EnqueueFails(r) ==
    /\ section[r].pc = "enqueue" /\ Fails
    /\ End(r)
    /\ \E some \in SUBSET Jobs : MakeEvents(r, some)
    /\ UNCHANGED <<now, jobs, leases, worker, timer, added, successes, removed>>

\* _save_store, then _arm_timer.
SaveAndArm(r, at) ==
    LET store == UpToDate(r, at) IN
    /\ section[r].pc \in {"start", "save"}
    /\ End(r) /\ Write(r, store, Jobs)
    /\ timer' = [timer EXCEPT ![r] = Wake(store)]
    /\ UNCHANGED <<now, events, leases, worker, added, successes, removed, failures>>

\* save_store raises: no timer is armed, and a replica does not start.
SaveFails(r, at) ==
    /\ section[r].pc \in {"start", "save", "list"} /\ HasToSave(r, at) /\ Fails
    /\ GoOn(r, IF section[r].pc = "start" THEN "down" ELSE "idle")
    /\ \E some \in SUBSET Jobs : Write(r, UpToDate(r, at), some)
    /\ UNCHANGED <<now, events, leases, worker, timer, added, successes, removed>>

\* list_jobs, when it may have something to reconcile (otherwise it only reads) ...
ListJobs(r) ==
    /\ Ready(r) /\ \E j \in OneShot : jobs[j].on /\ ~jobs[j].ran
    /\ Begin(r, "list", jobs)
    /\ UNCHANGED <<now, jobs, events, leases, worker, timer, added, successes,
                   removed, valid, lost, failures>>

\* ... and _save_store of what it has reconciled: no timer.
SaveList(r, at) ==
    /\ section[r].pc = "list"
    /\ IF HasToSave(r, at) THEN End(r) /\ Write(r, UpToDate(r, at), Jobs)
                           ELSE Leave(r) /\ UNCHANGED jobs
    /\ UNCHANGED <<now, events, leases, worker, timer, added, successes,
                   removed, failures>>

\* add_job under a new id.
AddJob(r, j) ==
    LET row == [there |-> TRUE, on |-> TRUE, next |-> Never, ran |-> FALSE,
                at |-> IF j \in OneShot THEN now + Delay[j] ELSE Never]
    IN
    /\ Ready(r) /\ j \notin added
    /\ added' = added \cup {j}
    /\ Begin(r, "save", [jobs EXCEPT ![j] = [row EXCEPT !.next = NextRun(j, row, now)]])
    /\ UNCHANGED <<now, jobs, events, leases, worker, timer, successes,
                   removed, valid, lost, failures>>

\* delete_job: the row and the done events of the job ("failed" is no status).
DeleteRow(j) == jobs' = [jobs EXCEPT ![j] = NoRow]

Delete(j) ==
    /\ DeleteRow(j)
    /\ events' = [o \in Occurrence |->
                    IF o[1] = j /\ events[o].status = "done" THEN NoEvent ELSE events[o]]

RemoveJob(r, j) ==
    /\ Ready(r) /\ jobs[j].there /\ Cardinality(removed) + failures < MaxUpsets
    /\ removed' = removed \cup {j}
    /\ Delete(j)
    /\ Begin(r, "save", [jobs EXCEPT ![j] = NoRow])
    /\ Touch(r, {j} \cap Interval, now)
    /\ UNCHANGED <<now, leases, worker, timer, added, successes, failures>>

\* delete_job raises after its first statement or its second.
RemoveFails(r, j) ==
    /\ Ready(r) /\ jobs[j].there /\ Fails
    /\ removed' = removed \cup {j}
    /\ Delete(j) \/ (DeleteRow(j) /\ UNCHANGED events)
    /\ UNCHANGED section
    /\ Touch(r, {j} \cap Interval, now)
    /\ UNCHANGED <<now, leases, worker, timer, added, successes>>

-----------------------------------------------------------------------------
(* The worker loop.                                                        *)

\* Mutant: an event in processing may be claimed as well.
DueEvents_Processing ==
    {o \in Occurrence : events[o].status \in {"pending", "processing"} /\ events[o].due <= now}

DueEvents == {o \in Occurrence : events[o].status = "pending" /\ events[o].due <= now}

\* claim_due_event ...
Claim(r, o) ==
    /\ Ready(r) /\ worker[r].pc = "idle"
    /\ o \in DueEvents /\ \A e \in DueEvents : events[o].due <= events[e].due
    /\ events' = [events EXCEPT ![o].status = "processing", ![o].attempts = @ + 1]
    /\ worker' = [worker EXCEPT ![r] = [Resting EXCEPT !.pc = "running", !.event = o]]
    /\ Begin(r, "lock", NoRows)
    /\ UNCHANGED <<now, jobs, leases, timer, added, successes, removed,
                   valid, lost, failures>>

\* The answer of claim_due_event is lost: the call is made again, for another event.
ClaimLost(r, o) ==
    /\ Ready(r) /\ worker[r].pc = "idle" /\ Fails
    /\ o \in DueEvents /\ \A e \in DueEvents : events[o].due <= events[e].due
    /\ events' = [events EXCEPT ![o].status = "processing", ![o].attempts = @ + 1]
    /\ UNCHANGED <<now, jobs, leases, section, worker, timer, added, successes, removed,
                   valid, lost>>

\* ... and the execution lock: a replica that does not get it has "skipped" the job.
Lock(r, at) ==
    LET o == worker[r].event IN
    /\ section[r].pc = "lock"
    /\ IF CanAcquire(o, r, at)
       THEN /\ Acquire(o, r, at, ExecTtl)
            /\ worker' = [worker EXCEPT ![r].since = now]
            /\ End(r)
       ELSE /\ worker' = [worker EXCEPT ![r].pc = "ended", ![r].result = "skipped"]
            /\ GoOn(r, "record")
            /\ UNCHANGED leases
    /\ UNCHANGED <<now, jobs, events, timer, added, successes, removed,
                   valid, lost, failures>>

\* An error of acquire_lease ends the worker loop: the event stays in processing.
LockFails(r) ==
    LET o == worker[r].event IN
    /\ section[r].pc = "lock" /\ Fails
    /\ UNCHANGED leases \/ (CanAcquire(o, r, now) /\ Acquire(o, r, now, ExecTtl))
    /\ worker' = [worker EXCEPT ![r] = [Resting EXCEPT !.pc = "stopped"]]
    /\ End(r)
    /\ UNCHANGED <<now, jobs, events, timer, added, successes, removed, valid, lost>>

\* on_job returns or raises.
RunEnds(r, result) ==
    /\ Ready(r) /\ worker[r].pc = "running" /\ worker[r].since < now
    /\ worker' = [worker EXCEPT ![r].pc = "ended", ![r].result = result]
    /\ successes' = [successes EXCEPT ![worker[r].event] = IF result = "ok" THEN @ + 1 ELSE @]
    /\ GoOn(r, "record")
    /\ UNCHANGED <<now, jobs, events, leases, timer, added, removed, valid, lost, failures>>

\* A one-time job that has succeeded is deleted.
ToDelete(r) == worker[r].event[1] \in OneShot /\ worker[r].result = "ok"

\* The state of the job is updated in a store loaded anew ...
RecordRun(r) ==
    LET j == worker[r].event[1] IN
    /\ section[r].pc = "record"
    /\ Begin(r, "save run", [jobs EXCEPT ![j] = IF ToDelete(r) THEN NoRow
                                                ELSE [@ EXCEPT !.ran = jobs[j].there]])
    /\ IF ToDelete(r) THEN Delete(j) ELSE UNCHANGED <<jobs, events>>
    /\ UNCHANGED <<now, leases, worker, timer, added, successes, removed,
                   valid, lost, failures>>

\* ... or load_store or delete_job raises: that is logged, and nothing saved.
RecordFails(r) ==
    LET j == worker[r].event[1] IN
    /\ section[r].pc = "record" /\ Fails
    /\ GoOn(r, "complete")
    /\ \/ UNCHANGED <<jobs, events>>
       \/ ToDelete(r) /\ DeleteRow(j) /\ UNCHANGED events
       \/ ToDelete(r) /\ Delete(j)
    /\ UNCHANGED <<now, leases, worker, timer, added, successes, removed, valid, lost>>

\* ... and saved, which may raise as well.
SaveRun(r) ==
    /\ section[r].pc = "save run"
    /\ GoOn(r, "complete") /\ Write(r, section[r].store, Jobs)
    /\ UNCHANGED <<now, events, leases, worker, timer, added, successes, removed, failures>>

SaveRunFails(r) ==
    /\ section[r].pc = "save run" /\ Fails
    /\ GoOn(r, "complete")
    /\ \E some \in SUBSET Jobs : Write(r, section[r].store, some)
    /\ UNCHANGED <<now, events, leases, worker, timer, added, successes, removed>>

\* Backoff: min(60 s, 2^(attempts - 1) s); a time beyond MaxTime is MaxTime.
RetryAt(attempts) ==
    LET backoff == IF 2 ^ (attempts - 1) < BackoffCap THEN 2 ^ (attempts - 1) ELSE BackoffCap
    IN  IF now + backoff < MaxTime THEN now + backoff ELSE MaxTime

\* Mutant: a failed event is tried again for ever.
Outcome_NeverDead(result, attempts) ==
    CASE result = "ok" -> "done" [] OTHER -> "pending"

\* Mutant: the result of the run is not looked at.
Outcome_Retried(result, attempts) ==
    IF attempts >= MaxAttempts THEN "dead" ELSE "pending"

\* What becomes of an event.
Outcome(result, attempts) ==
    IF result = "ok" THEN "done"
    ELSE IF attempts >= MaxAttempts THEN "dead" ELSE "pending"

\* complete_event, whatever became of the store.
Complete(r) ==
    LET o   == worker[r].event
        out == Outcome(worker[r].result, events[o].attempts)
    IN
    /\ section[r].pc = "complete"
    /\ events' = [events EXCEPT ![o].status = out,
                    ![o].due = IF out = "pending" THEN RetryAt(events[o].attempts) ELSE @]
    /\ worker' = [worker EXCEPT ![r] = Resting]
    /\ End(r)
    /\ UNCHANGED <<now, jobs, leases, timer, added, successes, removed,
                   valid, lost, failures>>

\* An error of complete_event ends the worker loop: the replica claims nothing more.
CompleteFails(r) ==
    /\ section[r].pc = "complete" /\ Fails
    /\ worker' = [worker EXCEPT ![r] = [Resting EXCEPT !.pc = "stopped"]]
    /\ End(r)
    /\ UNCHANGED <<now, jobs, events, leases, timer, added, successes, removed,
                   valid, lost>>

-----------------------------------------------------------------------------
(* Crashes and the clock.                                                  *)

\* The process ends without a trace in the tables.  It will be another instance
\* when it comes back: its leases belong to nobody then.
Crash(r) ==
    /\ section[r].pc # "down" /\ Fails
    /\ GoOn(r, "down") /\ Touch(r, {}, now)
    /\ worker' = [worker EXCEPT ![r] = Resting]
    /\ timer' = [timer EXCEPT ![r] = Never]
    /\ leases' = [n \in LeaseNames |-> IF leases[n].owner = r
                                       THEN [leases[n] EXCEPT !.owner = Nobody] ELSE leases[n]]
    /\ UNCHANGED <<now, jobs, events, added, successes, removed>>

Tick ==
    /\ now < MaxTime
    /\ now' = now + 1
    /\ UNCHANGED <<jobs, events, leases, section, worker, timer, added, successes,
                   removed, valid, lost, failures>>

-----------------------------------------------------------------------------
\* The sections once begun.
SectionStep(r) ==
    \/ \E at \in section[r].at..now :
        \/ BecomeScheduler(r, at) \/ NotScheduler(r, at)
        \/ SaveAndArm(r, at) \/ SaveFails(r, at) \/ SaveList(r, at)
    \/ TickFails(r) \/ Enqueue(r) \/ EnqueueFails(r)

WorkerStep(r) ==
    \/ \E o \in Occurrence : Claim(r, o) \/ ClaimLost(r, o)
    \/ \E at \in section[r].at..now : Lock(r, at)
    \/ LockFails(r)
    \/ \E result \in {"ok", "error"} : RunEnds(r, result)
    \/ RecordRun(r) \/ RecordFails(r) \/ SaveRun(r) \/ SaveRunFails(r)
    \/ Complete(r) \/ CompleteFails(r)

Next ==
    \/ \E r \in Replicas :
        \/ Start(r) \/ TimerFires(r)
        \/ SectionStep(r) \/ WorkerStep(r)
        \/ Crash(r)
    \/ \E r \in Callers : ListJobs(r) \/ \E j \in Jobs : AddJob(r, j) \/ RemoveJob(r, j) \/ RemoveFails(r, j)
    \/ Tick

Spec == Init /\ [][Next]_vars

-----------------------------------------------------------------------------
(* Properties.                                                             *)

Running(r) == worker[r].pc \in {"running", "ended"}

Section == [pc : {"down", "idle", "lock", "record", "complete"} \cup WithStore,
            store : [Jobs -> Row], at : Nat]
Work == [pc : {"idle", "running", "ended", "stopped"}, event : Occurrence \cup {<<>>},
         since : Nat, result : {"ok", "error", "skipped"}]

TypeOK ==
    /\ now \in Times
    /\ jobs \in [Jobs -> Row]
    /\ events \in [Occurrence -> EventRow]
    /\ leases \in [LeaseNames -> Lease]
    /\ section \in [Replicas -> Section]
    /\ \A r \in Replicas : section[r].at <= now
    /\ worker \in [Replicas -> Work]
    /\ \A r \in Replicas : Running(r) => worker[r].event \in Occurrence
    /\ timer \in [Replicas -> Nat]
    /\ added \subseteq Jobs /\ successes \in [Occurrence -> Nat]
    /\ removed \subseteq Jobs /\ failures \in Nat
    /\ valid \in [Replicas -> [Interval -> Nat]] /\ lost \subseteq Interval

\* An event is run by one replica at a time, and the table says so for as long
\* as it runs, also beyond the execution lock's lease.
OneExecutor ==
    \A r \in Replicas : Running(r) =>
        /\ events[worker[r].event].status = "processing"
        /\ \A s \in Replicas \ {r} : Running(s) => worker[s].event # worker[r].event

\* To delete a job is to forget what of it was done, also for a replica that still has
\* its row in memory: a user removes it, or (a one-time job) another occurrence of it
\* has succeeded.
Remembered(o) ==
    /\ o[1] \notin removed
    /\ o[1] \in OneShot => \A t \in Times \ {o[2]} : successes[<<o[1], t>>] = 0

\* The table of events tells what was run: an event that waits or was given up
\* has not succeeded, one that is done has succeeded once, and only one that
\* was tried MaxAttempts times was given up.
EventsTellTruth ==
    \A o \in Occurrence : Remembered(o) =>
        /\ successes[o] <= 1
        /\ events[o].status \in {"pending", "dead"} => successes[o] = 0
        /\ events[o].status = "done" => successes[o] = 1
        /\ events[o].status = "dead" => events[o].attempts = MaxAttempts

\* The occurrences of an interval job are an interval apart, however long the
\* replicas take to write what they computed and wherever they fail, unless one has
\* saved or enqueued the job from a copy that another had overtaken.
IntervalKept ==
    \A j \in Interval \ lost : \A t, u \in Times :
        /\ events[<<j, t>>].status # "none" /\ events[<<j, u>>].status # "none" /\ t < u
        => u - t >= Delay[j]

\* A one-time job runs to its end once (docs: the dedupe_key keeps an event from
\* being delivered twice; no repeated triggers with several instances).
OneShotRunsOnce ==
    \A j \in OneShot : Cardinality({t \in Times : successes[<<j, t>>] > 0}) <= 1

-----------------------------------------------------------------------------
(* The invariant that every step keeps (see CronClusterProofs).            *)

\* While a replica takes the execution lock, or writes what a run has left, it has the
\* run's event.
SectionHasEvent ==
    \A r \in Replicas :
        /\ section[r].pc = "lock" => worker[r].pc = "running"
        /\ section[r].pc \in {"record", "save run", "complete"} => worker[r].pc = "ended"

\* What of the types is needed for it.
Shapes ==
    /\ DOMAIN events = Occurrence
    /\ \A o \in Occurrence : {"status", "due", "attempts"} = DOMAIN events[o]
    /\ DOMAIN worker = Replicas /\ DOMAIN section = Replicas
    /\ \A r \in Replicas :
        /\ DOMAIN worker[r] = {"pc", "event", "since", "result"}
        /\ DOMAIN section[r] = {"pc", "store", "at"}
        /\ Running(r) => worker[r].event \in Occurrence

IInv == OneExecutor /\ SectionHasEvent /\ Shapes

\* An event is claimed only while it has an attempt left.
AttemptsCounted ==
    \A o \in Occurrence :
        /\ events[o].status = "pending" => events[o].attempts < MaxAttempts
        /\ events[o].status = "processing" => events[o].attempts > 0

\* A run that has succeeded counts, and no run that has not.
RunsTellTruth ==
    \A r \in Replicas, o \in Occurrence : Running(r) /\ worker[r].event = o =>
        IF worker[r].pc = "ended" /\ worker[r].result = "ok"
        THEN successes[o] > 0
        ELSE Remembered(o) => successes[o] = 0

\* What was never an event, or is no longer one, has not succeeded.
NothingForgotten ==
    \A o \in Occurrence :
        Remembered(o) /\ events[o].status = "none" => successes[o] = 0

TruthInv == RunsTellTruth /\ NothingForgotten /\ EventsTellTruth

\* The times for which the row of a job, or a copy of it that is not overtaken, has it
\* scheduled; those among them that a section of this very instant may write; and
\* those for which it has become an event.
Current(r, j) == section[r].pc \in WithStore /\ ~Overtaken(r, j)
PlansOf(j, rs) ==
    ({Planned(jobs[j])} \cup {Planned(section[r].store[j]) : r \in rs}) \ {Never}
Plans(j) == PlansOf(j, {r \in Replicas : Current(r, j)})
PlansNow(j) == PlansOf(j, {r \in Replicas : Current(r, j) /\ section[r].at = now})
Enqueued(j) == {t \in Times : events[<<j, t>>].status # "none"}

\* An event and a plan are the same or an interval apart.  Plans differ only in that
\* some were moved on at this instant, to the same time, or are those of the section
\* that has enqueued what the row still has.
SpacedOf(j) ==
    /\ \A t \in Enqueued(j) : t <= now
    /\ \A t \in Enqueued(j), n \in Plans(j) : n = t \/ n >= t + Delay[j]
    /\ \A m, n \in PlansNow(j) : m = n \/ now + Delay[j] \in {m, n}
    /\ \A r \in Replicas : Current(r, j) /\ section[r].pc # "save" =>
            \A t \in Enqueued(j) : t <= section[r].at
    /\ \A r \in Replicas : section[r].pc \in WithStore /\ valid[r][j] = Ever =>
            \/ Planned(section[r].store[j]) = Planned(jobs[j])
            \/ section[r].pc = "save" /\ Planned(jobs[j]) \in Enqueued(j) \cup {Never}

\* A copy that is overtaken is so since the time its section read, or longer.
ValidSince(j) ==
    \A r \in Replicas : valid[r][j] # Ever =>
        section[r].pc \in WithStore /\ valid[r][j] <= section[r].at

\* A job that nobody has added is in no store.
Unknown ==
    \A j \in Jobs \ added : /\ ~jobs[j].on
                           /\ \A r \in Replicas : ~section[r].store[j].on

SpacingInv ==
    Unknown /\ \A j \in Interval : ValidSince(j) /\ (j \in lost \/ SpacedOf(j))
=============================================================================
