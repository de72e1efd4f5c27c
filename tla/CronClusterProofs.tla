-------------------------- MODULE CronClusterProofs --------------------------
(***************************************************************************)
(* For any replicas, jobs, delays, lease times, and number of crashes and  *)
(* failures: an event is run by one replica at a time, the table of events *)
(* tells what was run, and the events of an interval job are an interval   *)
(* apart unless an overtaken copy of its row was used.  The leases play no *)
(* part in the argument.  An event is claimed when it is pending, it is    *)
(* processing from then on, and only the replica that has it makes it      *)
(* pending again.  Copies of a job's row that are not overtaken differ     *)
(* from it only in that they, or it, were moved on just now.               *)
(***************************************************************************)
EXTENDS CronCluster, WellFoundedInduction, TLAPS

LEMMA InitInv == Init => IInv
<1> SUFFICES ASSUME Init PROVE IInv
  OBVIOUS
<1>1. \A r \in Replicas : worker[r] = Resting /\ section[r] = Idle
  BY DEF Init
<1>2. \A r \in Replicas : ~Running(r) /\ section[r].pc = "idle"
  <2>1. Resting.pc = "idle" /\ Idle.pc = "idle"
    BY DEF Resting, Idle
  <2> QED
    BY <1>1, <2>1 DEF Running
<1>3. Shapes
  BY <1>1, <1>2 DEF Init, Shapes, NoEvent, Resting, Idle
<1> QED
  BY <1>2, <1>3 DEF IInv, OneExecutor, SectionHasEvent

\* The section of one replica changes, and is at pc then.
MovesTo(r, pc) ==
    /\ DOMAIN section' = Replicas /\ DOMAIN section'[r] = {"pc", "store", "at"}
    /\ section'[r].pc = pc /\ \A s \in Replicas \ {r} : section'[s] = section[s]

LEMMA Moves ==
    ASSUME Shapes, NEW r \in Replicas
    PROVE  /\ \A pc, store : Begin(r, pc, store) => MovesTo(r, pc)
           /\ \A pc : GoOn(r, pc) => MovesTo(r, pc)
           /\ End(r) \/ Leave(r) => MovesTo(r, "idle")
           /\ UNCHANGED section => MovesTo(r, section[r].pc)
<1>1. \A pc, store : Begin(r, pc, store) => MovesTo(r, pc)
  BY DEF Begin, MovesTo, Shapes
<1>2. \A pc : GoOn(r, pc) => MovesTo(r, pc)
  BY DEF GoOn, MovesTo, Shapes, Idle
<1>3. UNCHANGED section => MovesTo(r, section[r].pc)
  BY DEF MovesTo, Shapes
<1> QED
  BY <1>1, <1>2, <1>3 DEF End, Leave

\* Events come, go and change, but none that is in processing.
KeepsProcessing ==
    /\ DOMAIN events' = Occurrence
    /\ \A o \in Occurrence :
        /\ DOMAIN events'[o] = {"status", "due", "attempts"}
        /\ events[o].status = "processing" => events'[o].status = "processing"

LEMMA EventsKept ==
    ASSUME Shapes
    PROVE  /\ UNCHANGED events => KeepsProcessing
           /\ \A j : Delete(j) => KeepsProcessing
           /\ \A r, some : MakeEvents(r, some) => KeepsProcessing
<1>1. UNCHANGED events => KeepsProcessing
  BY DEF Shapes, KeepsProcessing
<1>2. \A j : Delete(j) => KeepsProcessing
  BY DEF Delete, NoEvent, Shapes, KeepsProcessing
<1>3. ASSUME NEW r, NEW some, MakeEvents(r, some) PROVE KeepsProcessing
  BY <1>3 DEF MakeEvents, NoEvent, Shapes, KeepsProcessing
<1> QED
  BY <1>1, <1>2, <1>3

\* Steps that touch neither the workers nor an event in processing keep the invariant,
\* if the section that moves goes on with the event that its replica has.
LEMMA QuietStep ==
    ASSUME IInv, UNCHANGED worker, KeepsProcessing, NEW r \in Replicas, NEW pc,
           MovesTo(r, pc),
           pc = "lock" => worker[r].pc = "running",
           pc \in {"record", "save run", "complete"} => worker[r].pc = "ended"
    PROVE  IInv'
<1>1. OneExecutor'
  BY DEF IInv, OneExecutor, Shapes, Running, KeepsProcessing
<1>2. SectionHasEvent'
  BY DEF IInv, SectionHasEvent, MovesTo
<1>3. Shapes'
  BY DEF IInv, Shapes, Running, KeepsProcessing, MovesTo
<1> QED
  BY <1>1, <1>2, <1>3 DEF IInv

\* The worker of one replica changes.
Works(r, pc, o) ==
    /\ DOMAIN worker' = Replicas
    /\ DOMAIN worker'[r] = {"pc", "event", "since", "result"}
    /\ worker'[r].pc = pc /\ worker'[r].event = o
    /\ \A s \in Replicas \ {r} : worker'[s] = worker[s]

\* A replica that claims an event is the only one that has it, since it was pending.
LEMMA ClaimInv ==
    ASSUME IInv, NEW r \in Replicas, NEW o \in Occurrence, Claim(r, o)
    PROVE  IInv'
<1>1. events[o].status = "pending"
  BY DEF Claim, DueEvents
<1>2. /\ DOMAIN events' = Occurrence
      /\ \A e \in Occurrence : DOMAIN events'[e] = {"status", "due", "attempts"}
      /\ events'[o].status = "processing"
      /\ \A e \in Occurrence \ {o} : events'[e] = events[e]
  BY DEF Claim, IInv, Shapes
<1>3. Works(r, "running", o)
  BY DEF Claim, IInv, Shapes, Works, Resting
<1>4. \A s \in Replicas \ {r} : Running(s) => worker[s].event # o
  BY <1>1 DEF IInv, OneExecutor
<1>5. MovesTo(r, "lock")
  BY Moves DEF Claim, IInv
<1>6. OneExecutor'
  BY <1>2, <1>3, <1>4 DEF IInv, OneExecutor, Running, Shapes, Works
<1>7. SectionHasEvent'
  BY <1>3, <1>5 DEF IInv, SectionHasEvent, MovesTo, Works
<1>8. Shapes'
  BY <1>2, <1>3, <1>5 DEF IInv, Shapes, Running, MovesTo, Works
<1> QED
  BY <1>6, <1>7, <1>8 DEF IInv

\* A claim whose answer is lost leaves an event that nobody has.
LEMMA ClaimLostInv ==
    ASSUME IInv, NEW r \in Replicas, NEW o \in Occurrence, ClaimLost(r, o)
    PROVE  IInv'
<1>1. /\ DOMAIN events' = Occurrence
      /\ \A e \in Occurrence : DOMAIN events'[e] = {"status", "due", "attempts"}
      /\ events'[o].status = "processing"
      /\ \A e \in Occurrence \ {o} : events'[e] = events[e]
  BY DEF ClaimLost, IInv, Shapes
<1>2. KeepsProcessing
  BY <1>1 DEF KeepsProcessing
<1>3. UNCHANGED <<worker, section>> /\ section[r].pc = "idle"
  BY DEF ClaimLost, Ready
<1>4. MovesTo(r, "idle")
  BY <1>3, Moves DEF IInv
<1> QED
  BY <1>2, <1>3, <1>4, QuietStep

\* A run goes on to its end with the event that it has.
LEMMA RunGoesOn ==
    ASSUME IInv, NEW r \in Replicas, worker[r].pc = "running",
           NEW pc \in {"running", "ended"}, Works(r, pc, worker[r].event), UNCHANGED events,
           NEW at, MovesTo(r, at), at = "idle" \/ (at = "record" /\ pc = "ended")
    PROVE  IInv'
<1>1. \A s \in Replicas : (Running(s)' <=> Running(s)) /\ worker'[s].event = worker[s].event
  BY DEF Running, Works
<1>2. OneExecutor'
  BY <1>1 DEF IInv, OneExecutor
<1>3. SectionHasEvent'
  BY DEF IInv, SectionHasEvent, Works, MovesTo
<1>4. Shapes'
  BY <1>1 DEF IInv, Shapes, Works, MovesTo
<1> QED
  BY <1>2, <1>3, <1>4 DEF IInv

\* A replica that is through with its event has no event, and nobody else had that one.
LEMMA LetGo ==
    ASSUME IInv, NEW r \in Replicas, NEW pc \in {"idle", "stopped"}, NEW o, Works(r, pc, o),
           NEW at \in {"idle", "down"}, MovesTo(r, at),
           DOMAIN events' = Occurrence,
           \A e \in Occurrence : DOMAIN events'[e] = {"status", "due", "attempts"},
           \A e \in Occurrence : events'[e] = events[e] \/ (Running(r) /\ e = worker[r].event)
    PROVE  IInv'
<1>1. OneExecutor'
  <2> SUFFICES ASSUME NEW s \in Replicas, Running(s)'
      PROVE  /\ events'[worker'[s].event].status = "processing"
             /\ \A t \in Replicas \ {s} : Running(t)' => worker'[t].event # worker'[s].event
    BY DEF OneExecutor
  <2>1. s # r /\ worker'[s] = worker[s] /\ Running(s)
    BY DEF Running, Works
  <2>2. worker[s].event \in Occurrence /\ events[worker[s].event].status = "processing"
    BY <2>1 DEF IInv, OneExecutor, Shapes
  <2>3. events'[worker[s].event] = events[worker[s].event]
    BY <2>1, <2>2 DEF IInv, OneExecutor
  <2>4. \A t \in Replicas \ {s} : Running(t)' => t # r /\ worker'[t] = worker[t] /\ Running(t)
    BY DEF Running, Works
  <2>5. \A t \in Replicas \ {s} : Running(t) => worker[t].event # worker[s].event
    BY <2>1 DEF IInv, OneExecutor
  <2> QED
    BY <2>1, <2>2, <2>3, <2>4, <2>5
<1>2. SectionHasEvent'
  BY DEF IInv, SectionHasEvent, Works, MovesTo
<1>3. Shapes'
  BY DEF IInv, Shapes, Running, Works, MovesTo
<1> QED
  BY <1>1, <1>2, <1>3 DEF IInv

\* A worker that rests or has stopped.
LEMMA Rests ==
    ASSUME Shapes, NEW r \in Replicas
    PROVE  /\ worker' = [worker EXCEPT ![r] = Resting] => Works(r, "idle", <<>>)
           /\ worker' = [worker EXCEPT ![r] = [Resting EXCEPT !.pc = "stopped"]]
                => Works(r, "stopped", <<>>)
BY DEF Shapes, Works, Resting

\* Every action keeps the invariant.
LEMMA NextInv == IInv /\ [Next]_vars => IInv'
<1> SUFFICES ASSUME IInv, [Next]_vars PROVE IInv'
  OBVIOUS
<1>s. Shapes
  BY DEF IInv
<1>1. ASSUME NEW r \in Replicas, Start(r) \/ TimerFires(r) \/ ListJobs(r) PROVE IInv'
  <2>1. MovesTo(r, "start") \/ MovesTo(r, "tick") \/ MovesTo(r, "list")
    BY <1>1, <1>s, Moves DEF Start, TimerFires, ListJobs
  <2>2. UNCHANGED <<worker, events>>
    BY <1>1 DEF Start, TimerFires, ListJobs
  <2> QED
    BY <1>s, <2>1, <2>2, EventsKept, QuietStep
<1>2. ASSUME NEW r \in Replicas, NEW at, BecomeScheduler(r, at) PROVE IInv'
  <2>1. MovesTo(r, "enqueue") /\ UNCHANGED <<worker, events>>
    BY <1>2, <1>s DEF BecomeScheduler, Shapes, MovesTo
  <2> QED
    BY <1>s, <2>1, EventsKept, QuietStep
<1>3. ASSUME NEW r \in Replicas, Enqueue(r) PROVE IInv'
  <2>1. MovesTo(r, "save") /\ UNCHANGED worker /\ MakeEvents(r, Jobs)
    BY <1>3, <1>s DEF Enqueue, Shapes, MovesTo
  <2> QED
    BY <1>s, <2>1, EventsKept, QuietStep
<1>4. ASSUME NEW r \in Replicas, NEW at,
             \/ NotScheduler(r, at) \/ TickFails(r) \/ SaveAndArm(r, at) \/ SaveFails(r, at)
             \/ SaveList(r, at) \/ EnqueueFails(r)
      PROVE  IInv'
  <2>1. (MovesTo(r, "idle") \/ MovesTo(r, "down")) /\ UNCHANGED worker
    BY <1>4, <1>s, Moves
    DEF NotScheduler, TickFails, SaveAndArm, SaveFails, SaveList, EnqueueFails
  <2>2. UNCHANGED events \/ \E some : MakeEvents(r, some)
    BY <1>4 DEF NotScheduler, TickFails, SaveAndArm, SaveFails, SaveList, EnqueueFails
  <2> QED
    BY <1>s, <2>1, <2>2, EventsKept, QuietStep
<1>5. ASSUME NEW r \in Replicas, NEW j \in Jobs,
             AddJob(r, j) \/ RemoveJob(r, j) \/ RemoveFails(r, j)
      PROVE  IInv'
  <2>1. MovesTo(r, "save") \/ MovesTo(r, "idle")
    <3>1. AddJob(r, j) \/ RemoveJob(r, j) => \E store : Begin(r, "save", store)
      BY DEF AddJob, RemoveJob
    <3>2. RemoveFails(r, j) => UNCHANGED section /\ section[r].pc = "idle"
      BY DEF RemoveFails, Ready
    <3> QED
      BY <1>5, <1>s, <3>1, <3>2, Moves
  <2>2. UNCHANGED worker /\ (UNCHANGED events \/ Delete(j))
    BY <1>5 DEF AddJob, RemoveJob, RemoveFails
  <2> QED
    BY <1>s, <2>1, <2>2, EventsKept, QuietStep
<1>6. ASSUME NEW r \in Replicas, NEW o \in Occurrence, Claim(r, o) \/ ClaimLost(r, o)
      PROVE  IInv'
  BY <1>6, ClaimInv, ClaimLostInv
<1>7. ASSUME NEW r \in Replicas, NEW at, Lock(r, at) PROVE IInv'
  <2>1. worker[r].pc = "running" /\ UNCHANGED events
    BY <1>7 DEF Lock, IInv, SectionHasEvent
  <2>2. \/ MovesTo(r, "idle") /\ Works(r, "running", worker[r].event)
        \/ MovesTo(r, "record") /\ Works(r, "ended", worker[r].event)
    BY <1>7, <1>s, <2>1, Moves DEF Lock, Shapes, Works
  <2> QED
    BY <2>1, <2>2, RunGoesOn
<1>8. ASSUME NEW r \in Replicas, NEW result, RunEnds(r, result) PROVE IInv'
  <2>1. /\ worker[r].pc = "running" /\ UNCHANGED events
        /\ MovesTo(r, "record") /\ Works(r, "ended", worker[r].event)
    BY <1>8, <1>s, Moves DEF RunEnds, Shapes, Works
  <2> QED
    BY <2>1, RunGoesOn
<1>9. ASSUME NEW r \in Replicas,
             RecordRun(r) \/ RecordFails(r) \/ SaveRun(r) \/ SaveRunFails(r)
      PROVE  IInv'
  <2>1. UNCHANGED worker /\ worker[r].pc = "ended"
    BY <1>9 DEF RecordRun, RecordFails, SaveRun, SaveRunFails, IInv, SectionHasEvent
  <2>2. MovesTo(r, "save run") \/ MovesTo(r, "complete")
    <3>1. RecordRun(r) => \E store : Begin(r, "save run", store)
      BY DEF RecordRun
    <3> QED
      BY <1>9, <1>s, <3>1, Moves DEF RecordFails, SaveRun, SaveRunFails
  <2>3. UNCHANGED events \/ \E j : Delete(j)
    BY <1>9 DEF RecordRun, RecordFails, SaveRun, SaveRunFails
  <2> QED
    BY <1>s, <2>1, <2>2, <2>3, EventsKept, QuietStep
<1>10. ASSUME NEW r \in Replicas, Complete(r) PROVE IInv'
  <2>1. Running(r) /\ worker[r].event \in Occurrence
    BY <1>10 DEF Complete, IInv, SectionHasEvent, Shapes, Running
  <2>2. /\ DOMAIN events' = Occurrence
        /\ \A e \in Occurrence : DOMAIN events'[e] = {"status", "due", "attempts"}
        /\ \A e \in Occurrence : e # worker[r].event => events'[e] = events[e]
    BY <1>10, <1>s, <2>1 DEF Complete, Shapes
  <2>3. Works(r, "idle", <<>>) /\ MovesTo(r, "idle")
    BY <1>10, <1>s, Rests, Moves DEF Complete
  <2> QED
    BY <2>1, <2>2, <2>3, LetGo
<1>11. ASSUME NEW r \in Replicas, LockFails(r) \/ CompleteFails(r) \/ Crash(r) PROVE IInv'
  <2>1. UNCHANGED events /\ (Works(r, "stopped", <<>>) \/ Works(r, "idle", <<>>))
    BY <1>11, <1>s, Rests DEF LockFails, CompleteFails, Crash
  <2>2. MovesTo(r, "idle") \/ MovesTo(r, "down")
    BY <1>11, <1>s, Moves DEF LockFails, CompleteFails, Crash
  <2> QED
    BY <1>s, <2>1, <2>2, LetGo DEF Shapes
<1>12. CASE Tick \/ UNCHANGED vars
  <2>1. UNCHANGED <<worker, events, section>>
    BY <1>12 DEF Tick, vars
  <2> QED
    BY <2>1 DEF IInv, OneExecutor, SectionHasEvent, Shapes, Running
<1> QED
  BY <1>1, <1>2, <1>3, <1>4, <1>5, <1>6, <1>7, <1>8, <1>9, <1>10, <1>11, <1>12,
     CronAssumption
  DEF Next, SectionStep, WorkerStep

\* However the replicas' claims, crashes, lost leases and failing database calls
\* interleave, an event is run by one replica at a time, and the table says so while it
\* runs.
THEOREM OneExecutorHolds == Spec => []OneExecutor
<1>1. IInv => OneExecutor
  BY DEF IInv
<1> QED
  BY <1>1, InitInv, NextInv, PTL DEF Spec

-----------------------------------------------------------------------------
(* Types.                                                                  *)

TypeInv == TypeOK /\ AttemptsCounted

\* What the types of the variables say of the values the actions read.
LEMMA Reads ==
    ASSUME TypeOK
    PROVE  /\ now \in Nat /\ MaxTime \in Nat \ {0} /\ MaxAttempts \in Nat \ {0}
           /\ SchedulerTtl \in Nat /\ ExecTtl \in Nat /\ BackoffCap \in Nat \ {0}
           /\ \A r \in Replicas :
                /\ section[r].store \in [Jobs -> Row]
                /\ section[r].at \in Nat /\ section[r].at <= now
                /\ \A at \in section[r].at..now : at \in Nat
           /\ \A r \in Replicas : Running(r) => worker[r].event \in Occurrence
<1>1. MaxTime \in Nat \ {0} /\ MaxAttempts \in Nat \ {0}
  BY CronAssumption
<1>2. SchedulerTtl \in Nat /\ ExecTtl \in Nat /\ BackoffCap \in Nat \ {0}
  BY CronAssumption
<1>3. now \in Nat
  BY <1>1 DEF TypeOK, Times
<1>4. ASSUME NEW r \in Replicas
      PROVE  /\ section[r].store \in [Jobs -> Row]
             /\ section[r].at \in Nat /\ section[r].at <= now
  BY DEF TypeOK, Section
<1>5. \A r \in Replicas : \A at \in section[r].at..now : at \in Nat
  BY <1>3, <1>4
<1> QED
  BY <1>1, <1>2, <1>3, <1>4, <1>5 DEF TypeOK

LEMMA NextRunType ==
    ASSUME NEW at \in Nat, NEW j \in Jobs, NEW row \in Row
    PROVE  NextRun(j, row, at) \in Nat
BY CronAssumption DEF NextRun, Never, Row

LEMMA NoRowType ==
    /\ NoRow \in Row /\ NoRows \in [Jobs -> Row] /\ Resting \in Work
    /\ [Resting EXCEPT !.pc = "stopped"] \in Work
BY DEF NoRow, NoRows, Row, Never, Resting, Work

\* What is done to a store leaves it a store.
LEMMA StoreTypes ==
    ASSUME NEW at \in Nat, NEW store \in [Jobs -> Row]
    PROVE  /\ Recomputed(store, at) \in [Jobs -> Row]
           /\ Reconciled(store, at) \in [Jobs -> Row]
           /\ MovedOn(store, at) \in [Jobs -> Row]
<1>1. ASSUME NEW j \in Jobs
      PROVE  /\ Recomputed(store, at)[j] \in Row /\ Reconciled(store, at)[j] \in Row
             /\ MovedOn(store, at)[j] \in Row
  <2> DEFINE next == NextRun(j, store[j], at)
  <2>1. store[j] \in Row
    OBVIOUS
  <2>2. next \in Nat
    BY <2>1, NextRunType
  <2>3. Recomputed(store, at)[j] \in {store[j], [store[j] EXCEPT !.next = next]}
    BY DEF Recomputed
  <2>4. Reconciled(store, at)[j] \in {store[j], [store[j] EXCEPT !.next = at],
                                      [store[j] EXCEPT !.on = FALSE, !.next = Never]}
    BY DEF Reconciled
  <2>5. MovedOn(store, at)[j] \in {store[j], NoRow, [store[j] EXCEPT !.next = next]}
    BY DEF MovedOn
  <2>6. ASSUME NEW t \in Nat PROVE [store[j] EXCEPT !.next = t] \in Row
    BY <2>1 DEF Row
  <2>7. [store[j] EXCEPT !.on = FALSE, !.next = Never] \in Row
    BY <2>1 DEF Row, Never
  <2> HIDE DEF next
  <2> QED
    BY <2>1, <2>2, <2>3, <2>4, <2>5, <2>6, <2>7, NoRowType
<1> QED
  BY <1>1 DEF Recomputed, Reconciled, MovedOn

LEMMA UpToDateType ==
    ASSUME TypeOK, NEW r \in Replicas, NEW at \in section[r].at..now
    PROVE  UpToDate(r, at) \in [Jobs -> Row]
<1> DEFINE store == section[r].store
<1>1. at \in Nat /\ store \in [Jobs -> Row]
  BY Reads
<1>2. UpToDate(r, at) \in {Reconciled(Recomputed(store, at), at), Reconciled(store, at), store}
  BY DEF UpToDate
<1> HIDE DEF store
<1>3. Reconciled(Recomputed(store, at), at) \in [Jobs -> Row]
  BY <1>1, StoreTypes
<1> QED
  BY <1>1, <1>2, <1>3, StoreTypes

LEMMA SavedType ==
    ASSUME jobs \in [Jobs -> Row], NEW store \in [Jobs -> Row], NEW some
    PROVE  Saved(store, some) \in [Jobs -> Row]
BY DEF Saved

\* There is a first of some times, so that a timer can be armed for it.
LEMMA FirstTime ==
    ASSUME NEW T \in SUBSET Nat, T # {}
    PROVE  \E t \in T : \A u \in T : t <= u
<1> DEFINE R == OpToRel(<, Nat)
<1>1. IsWellFoundedOn(R, Nat)
  BY NatLessThanWellFounded
<1>2. \A t, u \in Nat : t < u => <<t, u>> \in R
  BY DEF OpToRel
<1> HIDE DEF R
<1>3. PICK t \in T : \A u \in T : ~ (<<u, t>> \in R)
  BY <1>1, WFMin
<1>4. ASSUME NEW u \in T PROVE t <= u
  <2>1. t \in Nat /\ u \in Nat
    OBVIOUS
  <2>2. ~ (u < t)
    BY <1>2, <1>3, <2>1
  <2> QED
    BY <2>1, <2>2
<1> QED
  BY <1>4

LEMMA WakeType ==
    ASSUME NEW store \in [Jobs -> Row]
    PROVE  Wake(store) \in Nat
<1> DEFINE times == {store[j].next : j \in {i \in Jobs : store[i].on}} \ {Never}
<1>1. times \in SUBSET Nat
  BY DEF Row
<1>2. CASE times = {}
  BY <1>2 DEF Wake, Never
<1>3. CASE times # {}
  <2>1. \E t \in times : \A u \in times : t <= u
    <3> HIDE DEF times
    <3> QED
      BY <1>1, <1>3, FirstTime
  <2>2. Wake(store) = CHOOSE t \in times : \A u \in times : t <= u
    BY <1>3 DEF Wake
  <2> QED
    <3> HIDE DEF times
    <3> QED
      BY <1>1, <2>1, <2>2
<1> QED
  BY <1>2, <1>3

\* What a section has, and what its clock says, is of its type.
SectionOK ==
    /\ section \in [Replicas -> Section]
    /\ \A r \in Replicas : section[r].at <= now

LEMMA SectionType ==
    ASSUME TypeOK, UNCHANGED now, NEW r \in Replicas
    PROVE  /\ \A pc \in WithStore \cup {"lock"}, store \in [Jobs -> Row] :
                Begin(r, pc, store) => SectionOK'
           /\ \A pc \in {"idle", "down", "record", "complete"} : GoOn(r, pc) => SectionOK'
           /\ End(r) \/ Leave(r) => SectionOK'
           /\ UNCHANGED section => SectionOK'
<1>1. now \in Nat /\ SectionOK
  BY Reads DEF TypeOK, SectionOK
<1>2. ASSUME NEW sec \in Section, sec.at <= now, section' = [section EXCEPT ![r] = sec]
      PROVE  SectionOK'
  BY <1>1, <1>2 DEF SectionOK
<1>3. ASSUME NEW pc \in WithStore \cup {"lock"}, NEW store \in [Jobs -> Row],
             Begin(r, pc, store)
      PROVE  SectionOK'
  <2> DEFINE sec == [pc |-> pc, store |-> store, at |-> now]
  <2>1. sec \in Section
    BY <1>1 DEF Section
  <2>2. sec.at <= now
    BY <1>1
  <2>3. section' = [section EXCEPT ![r] = sec]
    BY <1>3 DEF Begin
  <2> HIDE DEF sec
  <2> QED
    BY <1>2, <2>1, <2>2, <2>3
<1>4. ASSUME NEW pc \in {"idle", "down", "record", "complete"}, GoOn(r, pc) PROVE SectionOK'
  <2> DEFINE sec == [pc |-> pc, store |-> NoRows, at |-> Never]
  <2>1. sec \in Section
    <3>1. NoRows \in [Jobs -> Row] /\ Never \in Nat
      BY NoRowType DEF Never
    <3> QED
      BY <3>1 DEF Section
  <2>2. sec.at <= now
    BY <1>1 DEF Never
  <2>3. section' = [section EXCEPT ![r] = sec]
    <3>1. [Idle EXCEPT !.pc = pc] = sec
      BY DEF Idle
    <3> QED
      BY <1>4, <3>1 DEF GoOn
  <2> HIDE DEF sec
  <2> QED
    BY <1>2, <2>1, <2>2, <2>3
<1>5. End(r) \/ Leave(r) => SectionOK'
  BY <1>4 DEF End, Leave
<1> QED
  BY <1>1, <1>3, <1>4, <1>5 DEF SectionOK

\* The histories of lost updates.
HistoryOK == valid \in [Replicas -> [Interval -> Nat]] /\ lost \subseteq Interval

LEMMA TouchType ==
    ASSUME TypeOK, SectionOK', NEW r \in Replicas, NEW js \in SUBSET Interval,
           NEW since \in Nat, Touch(r, js, since)
    PROVE  HistoryOK'
<1>1. Ever \in Nat /\ AllValid \in [Interval -> Nat]
  BY Reads DEF Ever, AllValid
<1>2. ASSUME NEW s \in Replicas, NEW j \in Interval
      PROVE  Earlier(valid[s][j], Earlier(since, section[s].at)) \in Nat /\ valid[s][j] \in Nat
  <2>1. valid[s][j] \in Nat /\ section[s].at \in Nat
    BY Reads DEF TypeOK
  <2> QED
    BY <2>1 DEF Earlier
<1>3. \A s \in Replicas : valid'[s] \in [Interval -> Nat]
  BY <1>1, <1>2 DEF Touch
<1>4. valid' \in [Replicas -> [Interval -> Nat]]
  BY <1>3 DEF Touch
<1>5. lost' \subseteq Interval
  BY DEF Touch, TypeOK
<1> QED
  BY <1>4, <1>5 DEF HistoryOK

\* The steps that write nothing touch nothing either.
LEMMA HistoryType ==
    ASSUME TypeOK, SectionOK', NEW r \in Replicas
    PROVE  /\ UNCHANGED <<valid, lost>> => HistoryOK'
           /\ Leave(r) \/ Touch(r, {}, now) => HistoryOK'
           /\ \A j : Touch(r, {j} \cap Interval, now) => HistoryOK'
           /\ \A some : MakeEvents(r, some) => HistoryOK'
           /\ \A store, some : Write(r, store, some) => HistoryOK'
<1>1. now \in Nat /\ section[r].at \in Nat
  BY Reads
<1>2. UNCHANGED <<valid, lost>> => HistoryOK'
  BY DEF TypeOK, HistoryOK
<1>3. ASSUME NEW js \in SUBSET Interval, NEW since \in Nat PROVE Touch(r, js, since) => HistoryOK'
  BY TouchType
<1>4. Leave(r) \/ Touch(r, {}, now) => HistoryOK'
  BY <1>1, <1>3 DEF Leave
<1>5. \A j : Touch(r, {j} \cap Interval, now) => HistoryOK'
  BY <1>1, <1>3
<1>6. ASSUME NEW some, MakeEvents(r, some) PROVE HistoryOK'
  BY <1>1, <1>3, <1>6 DEF MakeEvents
<1>7. ASSUME NEW store, NEW some, Write(r, store, some) PROVE HistoryOK'
  BY <1>1, <1>3, <1>7 DEF Write
<1> QED
  BY <1>2, <1>4, <1>5, <1>6, <1>7

\* What becomes of the table of events, row by row.
LEMMA EventsType ==
    ASSUME TypeInv, DOMAIN events' = Occurrence, events' = [o \in Occurrence |-> events'[o]],
           \A o \in Occurrence :
              \/ events'[o] = events[o]
              \/ events'[o] = NoEvent
              \/ /\ events'[o] \in EventRow
                 /\ events'[o].status = "pending" => events'[o].attempts < MaxAttempts
                 /\ events'[o].status = "processing" => events'[o].attempts > 0
    PROVE  events' \in [Occurrence -> EventRow] /\ AttemptsCounted'
<1>1. NoEvent \in EventRow /\ NoEvent.status = "none"
  BY CronAssumption DEF NoEvent, EventRow
<1> QED
  BY <1>1 DEF TypeInv, TypeOK, AttemptsCounted

LEMMA DeleteType ==
    ASSUME TypeInv, NEW j \in Jobs
    PROVE  /\ DeleteRow(j) => jobs' \in [Jobs -> Row]
           /\ Delete(j) => /\ jobs' \in [Jobs -> Row]
                           /\ events' \in [Occurrence -> EventRow] /\ AttemptsCounted'
<1>1. DeleteRow(j) => jobs' \in [Jobs -> Row]
  BY NoRowType DEF DeleteRow, TypeInv, TypeOK
<1>2. Delete(j) =>
        /\ DOMAIN events' = Occurrence /\ events' = [o \in Occurrence |-> events'[o]]
        /\ \A o \in Occurrence : events'[o] = events[o] \/ events'[o] = NoEvent
  BY DEF Delete
<1> QED
  BY <1>1, <1>2, EventsType DEF Delete

LEMMA MakeEventsType ==
    ASSUME TypeInv, NEW r \in Replicas, NEW some, MakeEvents(r, some)
    PROVE  events' \in [Occurrence -> EventRow] /\ AttemptsCounted'
<1> DEFINE store == section[r].store
           due == DueJobs(store, section[r].at) \cap some
           keys == {<<j, store[j].next>> : j \in due}
<1>1. MaxAttempts \in Nat \ {0} /\ MaxTime \in Nat
  BY Reads DEF TypeInv
<1>2. events' = [o \in Occurrence |->
                  IF o \in keys /\ events[o].status = "none"
                  THEN [NoEvent EXCEPT !.status = "pending", !.due = o[2]]
                  ELSE events[o]]
  BY DEF MakeEvents
<1>3. ASSUME NEW o \in Occurrence
      PROVE  LET e == [NoEvent EXCEPT !.status = "pending", !.due = o[2]]
             IN  e \in EventRow /\ e.status = "pending" /\ e.attempts < MaxAttempts
  <2>1. o[2] \in 1..MaxTime
    BY DEF Occurrence, Times
  <2>2. o[2] \in 0..MaxTime /\ 0 \in 0..MaxAttempts /\ 0 < MaxAttempts
    BY <1>1, <2>1
  <2> QED
    BY <2>2 DEF NoEvent, EventRow
<1> HIDE DEF keys
<1>4. \A o \in Occurrence :
        events'[o] \in {events[o], [NoEvent EXCEPT !.status = "pending", !.due = o[2]]}
  BY <1>2
<1>5. DOMAIN events' = Occurrence /\ events' = [o \in Occurrence |-> events'[o]]
  BY <1>2
<1> QED
  BY <1>3, <1>4, <1>5, EventsType

\* A lease is taken for some time.
LEMMA AcquireType ==
    ASSUME TypeOK, NEW r \in Replicas, NEW name \in LeaseNames, NEW at \in Nat,
           NEW ttl \in Nat, Acquire(name, r, at, ttl)
    PROVE  leases' \in [LeaseNames -> Lease]
<1>1. at + ttl \in Int
  OBVIOUS
<1>2. [owner |-> r, until |-> at + ttl] \in Lease
  BY <1>1 DEF Lease
<1> QED
  BY <1>2 DEF Acquire, TypeOK

\* What the workers do.
WorkOK ==
    /\ worker \in [Replicas -> Work]
    /\ \A r \in Replicas : Running(r) => worker[r].event \in Occurrence

LEMMA WorkType ==
    ASSUME TypeOK, NEW r \in Replicas, NEW work \in Work,
           worker' = [worker EXCEPT ![r] = work],
           work.pc \in {"running", "ended"} => work.event \in Occurrence
    PROVE  WorkOK'
<1>1. worker \in [Replicas -> Work] /\ \A s \in Replicas : Running(s) => worker[s].event \in Occurrence
  BY DEF TypeOK
<1>2. worker' \in [Replicas -> Work]
  BY <1>1
<1>3. worker'[r] = work /\ \A s \in Replicas \ {r} : worker'[s] = worker[s]
  BY <1>1
<1>4. ASSUME NEW s \in Replicas, Running(s)' PROVE worker'[s].event \in Occurrence
  <2>1. CASE s = r
    BY <1>3, <1>4, <2>1 DEF Running
  <2>2. CASE s # r
    BY <1>1, <1>3, <1>4, <2>2 DEF Running
  <2> QED
    BY <2>1, <2>2
<1> QED
  BY <1>2, <1>4 DEF WorkOK

LEMMA InitType == Init => TypeInv
<1> SUFFICES ASSUME Init PROVE TypeInv
  OBVIOUS
<1>1. 0 \in Nat /\ 0 \in Int /\ MaxTime \in Nat \ {0} /\ MaxAttempts \in Nat /\ Ever \in Nat
  BY CronAssumption DEF Ever
<1>2. now \in Times
  BY <1>1 DEF Init, Times
<1>3. jobs \in [Jobs -> Row] /\ worker \in [Replicas -> Work]
  BY NoRowType DEF Init
<1>4. events \in [Occurrence -> EventRow] /\ AttemptsCounted
  BY <1>1 DEF Init, NoEvent, EventRow, AttemptsCounted
<1>5. leases \in [LeaseNames -> Lease]
  BY <1>1 DEF Init, Lease
<1>6. \A r \in Replicas : ~Running(r)
  BY DEF Init, Running, Resting
<1>7. /\ timer \in [Replicas -> Nat] /\ added \subseteq Jobs
      /\ successes \in [Occurrence -> Nat] /\ removed \subseteq Jobs /\ failures \in Nat
  BY <1>1 DEF Init, Never
<1>8. Idle \in Section /\ Idle.at <= now
  BY NoRowType DEF Idle, Section, Never, Init
<1>9. section \in [Replicas -> Section] /\ \A r \in Replicas : section[r].at <= now
  BY <1>8 DEF Init
<1>10. valid \in [Replicas -> [Interval -> Nat]] /\ lost \subseteq Interval
  BY <1>1 DEF Init, AllValid
<1> QED
  BY <1>2, <1>3, <1>4, <1>5, <1>6, <1>7, <1>9, <1>10 DEF TypeInv, TypeOK

\* The rest of the types.
TimersOK == timer \in [Replicas -> Nat]
RowsOK == jobs \in [Jobs -> Row] /\ events \in [Occurrence -> EventRow] /\ AttemptsCounted
RunsOK == added \subseteq Jobs /\ successes \in [Occurrence -> Nat] /\ removed \subseteq Jobs
          /\ failures \in Nat

LEMMA TypeParts ==
    /\ TypeInv => RowsOK /\ TimersOK /\ SectionOK /\ WorkOK /\ HistoryOK /\ RunsOK
    /\ (/\ now' \in Times /\ RowsOK' /\ leases' \in [LeaseNames -> Lease] /\ SectionOK'
        /\ WorkOK' /\ TimersOK' /\ HistoryOK' /\ RunsOK') => TypeInv'
BY DEF TypeInv, TypeOK, RowsOK, TimersOK, SectionOK, WorkOK, HistoryOK, RunsOK, Running

\* What a step leaves alone keeps its type.
LEMMA Unchanged ==
    ASSUME TypeInv
    PROVE  /\ UNCHANGED now => now' \in Times
           /\ UNCHANGED leases => leases' \in [LeaseNames -> Lease]
           /\ UNCHANGED timer => TimersOK'
           /\ UNCHANGED <<jobs, events>> => RowsOK'
           /\ UNCHANGED <<added, successes, removed, failures>> => RunsOK'
           /\ UNCHANGED <<added, successes, removed>> /\ Fails => RunsOK'
           /\ UNCHANGED worker => WorkOK'
           /\ UNCHANGED <<valid, lost>> => HistoryOK'
<1>1. TypeOK /\ AttemptsCounted /\ failures + 1 \in Nat
  BY DEF TypeInv, TypeOK
<1>2. UNCHANGED worker => WorkOK'
  BY <1>1 DEF TypeOK, WorkOK, Running
<1>3. UNCHANGED <<jobs, events>> => RowsOK'
  BY <1>1 DEF TypeOK, AttemptsCounted, RowsOK
<1> QED
  BY <1>1, <1>2, <1>3 DEF TypeOK, TimersOK, RunsOK, HistoryOK, Fails

LEMMA TimerType ==
    ASSUME TypeInv, NEW r \in Replicas, NEW t \in Nat, timer' = [timer EXCEPT ![r] = t]
    PROVE  TimersOK'
BY DEF TypeInv, TypeOK, TimersOK

LEMMA WriteType ==
    ASSUME TypeInv, NEW r \in Replicas, NEW store \in [Jobs -> Row], NEW some,
           Write(r, store, some), UNCHANGED events
    PROVE  RowsOK'
<1>1. jobs' \in [Jobs -> Row]
  BY SavedType DEF Write, TypeInv, TypeOK
<1> QED
  BY <1>1 DEF RowsOK, TypeInv, TypeOK, AttemptsCounted

\* A section begins, or ends without having changed a table.
LEMMA BeginsType ==
    ASSUME TypeInv, NEW r \in Replicas,
           \/ Start(r) \/ TimerFires(r) \/ ListJobs(r) \/ (\E at \in section[r].at..now : NotScheduler(r, at))
           \/ (\E j \in Jobs : AddJob(r, j))
    PROVE  TypeInv'
<1>1. TypeOK /\ now \in Nat /\ jobs \in [Jobs -> Row] /\ Never \in Nat
  BY Reads DEF TypeInv, TypeOK, Never
<1>2. CASE Start(r) \/ ListJobs(r)
  <2>1. Begin(r, "start", jobs) \/ Begin(r, "list", jobs)
    BY <1>2 DEF Start, ListJobs
  <2>2. SectionOK'
    BY <1>1, <1>2, <2>1, SectionType DEF WithStore, Start, ListJobs
  <2> QED
    BY <1>2, <2>2, Unchanged, TypeParts DEF Start, ListJobs
<1>3. CASE TimerFires(r)
  <2>1. SectionOK'
    BY <1>1, <1>3, SectionType DEF WithStore, TimerFires
  <2>2. TimersOK'
    BY <1>1, <1>3, TimerType DEF TimerFires
  <2> QED
    BY <1>3, <2>1, <2>2, Unchanged, TypeParts DEF TimerFires
<1>4. ASSUME NEW at \in section[r].at..now, NotScheduler(r, at) PROVE TypeInv'
  <2>1. SectionOK'
    BY <1>1, <1>4, SectionType DEF NotScheduler
  <2>2. HistoryOK'
    BY <1>1, <1>4, <2>1, HistoryType DEF NotScheduler
  <2>3. Wake(section[r].store) \in Nat
    BY <1>1, Reads, WakeType
  <2>4. TimersOK'
    BY <1>4, <2>3, TimerType DEF NotScheduler
  <2> QED
    BY <1>4, <2>1, <2>2, <2>4, Unchanged, TypeParts DEF NotScheduler
<1>5. ASSUME NEW j \in Jobs, AddJob(r, j) PROVE TypeInv'
  <2> DEFINE row == [there |-> TRUE, on |-> TRUE, next |-> Never, ran |-> FALSE,
                     at |-> IF j \in OneShot THEN now + Delay[j] ELSE Never]
             next == NextRun(j, row, now)
  <2>1. row \in Row
    <3>1. (IF j \in OneShot THEN now + Delay[j] ELSE Never) \in Nat
      BY <1>1, CronAssumption
    <3> QED
      BY <1>1, <3>1 DEF Row
  <2>2. Begin(r, "save", [jobs EXCEPT ![j] = [row EXCEPT !.next = next]])
    BY <1>5 DEF AddJob
  <2>3. next \in Nat
    <3> HIDE DEF row
    <3> QED
      BY <1>1, <2>1, NextRunType
  <2> HIDE DEF row, next
  <2>4. [row EXCEPT !.next = next] \in Row
    BY <2>1, <2>3 DEF Row
  <2>5. [jobs EXCEPT ![j] = [row EXCEPT !.next = next]] \in [Jobs -> Row]
    BY <1>1, <2>4
  <2>6. SectionOK'
    BY <1>1, <1>5, <2>2, <2>5, SectionType DEF WithStore, AddJob
  <2>7. RunsOK'
    BY <1>1, <1>5 DEF RunsOK, AddJob, TypeOK
  <2> QED
    BY <1>5, <2>6, <2>7, Unchanged, TypeParts DEF AddJob
<1> QED
  BY <1>2, <1>3, <1>4, <1>5

\* What a section does to the tables of leases and events.
LEMMA TickType ==
    ASSUME TypeInv, NEW r \in Replicas,
           \/ (\E at \in section[r].at..now : BecomeScheduler(r, at))
           \/ TickFails(r) \/ Enqueue(r) \/ EnqueueFails(r)
    PROVE  TypeInv'
<1>1. /\ TypeOK /\ now \in Nat /\ section[r] \in Section /\ section[r].at <= now
      /\ section \in [Replicas -> Section] /\ Scheduler \in LeaseNames /\ SchedulerTtl \in Nat
      /\ section[r].at \in Nat
  BY Reads DEF TypeInv, TypeOK, LeaseNames
<1>2. ASSUME NEW at \in section[r].at..now, BecomeScheduler(r, at) PROVE TypeInv'
  <2>1. at \in Nat /\ at <= now
    BY <1>1
  <2>2. [section[r] EXCEPT !.pc = "enqueue", !.at = at] \in Section
    BY <1>1, <2>1 DEF Section, WithStore
  <2>3. /\ section' \in [Replicas -> Section] /\ section'[r].at = at
        /\ \A s \in Replicas \ {r} : section'[s] = section[s]
    BY <1>1, <1>2, <2>2 DEF BecomeScheduler, Section
  <2>4. SectionOK'
    BY <1>1, <1>2, <2>1, <2>3 DEF SectionOK, TypeOK, BecomeScheduler
  <2>5. leases' \in [LeaseNames -> Lease]
    BY <1>1, <1>2, <2>1, AcquireType DEF BecomeScheduler
  <2> QED
    BY <1>2, <2>4, <2>5, Unchanged, TypeParts DEF BecomeScheduler
<1>3. CASE TickFails(r)
  <2>1. SectionOK'
    BY <1>1, <1>3, SectionType DEF TickFails
  <2>2. HistoryOK'
    BY <1>1, <1>3, <2>1, HistoryType DEF TickFails
  <2>3. UNCHANGED leases \/ Acquire(Scheduler, r, now, SchedulerTtl)
    BY <1>3 DEF TickFails
  <2>4. leases' \in [LeaseNames -> Lease]
    BY <1>1, <2>3, AcquireType DEF TypeOK
  <2> QED
    BY <1>3, <2>1, <2>2, <2>4, Unchanged, TypeParts DEF TickFails
<1>4. ASSUME NEW some, MakeEvents(r, some), UNCHANGED jobs PROVE RowsOK'
  BY <1>1, <1>4, MakeEventsType DEF RowsOK, TypeOK
<1>5. CASE Enqueue(r)
  <2> DEFINE moved == MovedOn(section[r].store, section[r].at)
  <2>1. moved \in [Jobs -> Row]
    BY <1>1, Reads, StoreTypes
  <2>2. section' = [section EXCEPT ![r] = [section[r] EXCEPT !.pc = "save", !.store = moved]]
    BY <1>1, <1>5 DEF Enqueue
  <2> HIDE DEF moved
  <2>3. [section[r] EXCEPT !.pc = "save", !.store = moved] \in Section
    BY <1>1, <2>1 DEF Section, WithStore
  <2>4. SectionOK'
    <3>1. section' \in [Replicas -> Section] /\ section'[r].at = section[r].at
      BY <1>1, <2>2, <2>3 DEF Section
    <3>2. \A s \in Replicas \ {r} : section'[s] = section[s]
      BY <1>1, <2>2
    <3> QED
      BY <1>1, <1>5, <3>1, <3>2 DEF SectionOK, TypeOK, Enqueue
  <2>5. HistoryOK' /\ RowsOK'
    BY <1>1, <1>4, <1>5, <2>4, HistoryType DEF Enqueue
  <2> QED
    BY <1>5, <2>4, <2>5, Unchanged, TypeParts DEF Enqueue
<1>6. CASE EnqueueFails(r)
  <2>1. SectionOK'
    BY <1>1, <1>6, SectionType DEF EnqueueFails
  <2>2. HistoryOK' /\ RowsOK'
    BY <1>1, <1>4, <1>6, <2>1, HistoryType DEF EnqueueFails
  <2> QED
    BY <1>6, <2>1, <2>2, Unchanged, TypeParts DEF EnqueueFails
<1> QED
  BY <1>2, <1>3, <1>5, <1>6

\* A section ends with the writing of the store.
LEMMA SavesType ==
    ASSUME TypeInv, NEW r \in Replicas,
           \/ \E at \in section[r].at..now : SaveAndArm(r, at) \/ SaveFails(r, at) \/ SaveList(r, at)
           \/ SaveRun(r) \/ SaveRunFails(r)
    PROVE  TypeInv'
<1>1. TypeOK /\ section[r].store \in [Jobs -> Row]
  BY Reads DEF TypeInv
<1>2. ASSUME NEW store \in [Jobs -> Row], NEW some, SectionOK', Write(r, store, some),
             UNCHANGED events
      PROVE  HistoryOK' /\ RowsOK'
  BY <1>1, <1>2, HistoryType, WriteType
<1>3. ASSUME NEW at \in section[r].at..now,
             SaveAndArm(r, at) \/ SaveFails(r, at) \/ SaveList(r, at)
      PROVE  TypeInv'
  <2> DEFINE store == UpToDate(r, at)
  <2>1. store \in [Jobs -> Row]
    BY <1>1, UpToDateType
  <2>2. CASE SaveAndArm(r, at)
    <3>1. SectionOK'
      BY <1>1, <2>2, SectionType DEF SaveAndArm
    <3>2. HistoryOK' /\ RowsOK'
      BY <1>2, <2>1, <2>2, <3>1 DEF SaveAndArm
    <3>3. TimersOK'
      BY <2>1, <2>2, WakeType, TimerType DEF SaveAndArm
    <3> QED
      BY <2>2, <3>1, <3>2, <3>3, Unchanged, TypeParts DEF SaveAndArm
  <2>3. CASE SaveFails(r, at)
    <3>1. SectionOK'
      <4>1. GoOn(r, "down") \/ GoOn(r, "idle")
        BY <2>3 DEF SaveFails
      <4> QED
        BY <1>1, <2>3, <4>1, SectionType DEF SaveFails
    <3>2. HistoryOK' /\ RowsOK'
      BY <1>2, <2>1, <2>3, <3>1 DEF SaveFails
    <3> QED
      BY <2>3, <3>1, <3>2, Unchanged, TypeParts DEF SaveFails
  <2>4. CASE SaveList(r, at)
    <3>1. SectionOK'
      BY <1>1, <2>4, SectionType DEF SaveList
    <3>2. CASE Write(r, store, Jobs)
      <4>1. HistoryOK' /\ RowsOK'
        BY <1>2, <2>1, <2>4, <3>1, <3>2 DEF SaveList
      <4> QED
        BY <2>4, <3>1, <4>1, Unchanged, TypeParts DEF SaveList
    <3>3. CASE Leave(r) /\ UNCHANGED jobs
      <4>1. HistoryOK'
        BY <1>1, <3>1, <3>3, HistoryType
      <4> QED
        BY <2>4, <3>1, <3>3, <4>1, Unchanged, TypeParts DEF SaveList
    <3> QED
      BY <2>4, <3>2, <3>3 DEF SaveList
  <2> QED
    BY <1>3, <2>2, <2>3, <2>4
<1>4. CASE SaveRun(r)
  <2>1. SectionOK'
    BY <1>1, <1>4, SectionType DEF SaveRun
  <2>2. HistoryOK' /\ RowsOK'
    BY <1>1, <1>2, <1>4, <2>1 DEF SaveRun
  <2> QED
    BY <1>4, <2>1, <2>2, Unchanged, TypeParts DEF SaveRun
<1>5. CASE SaveRunFails(r)
  <2>1. SectionOK'
    BY <1>1, <1>5, SectionType DEF SaveRunFails
  <2>2. HistoryOK' /\ RowsOK'
    BY <1>1, <1>2, <1>5, <2>1 DEF SaveRunFails
  <2> QED
    BY <1>5, <2>1, <2>2, Unchanged, TypeParts DEF SaveRunFails
<1> QED
  BY <1>3, <1>4, <1>5

\* A job is deleted.
LEMMA RemovesType ==
    ASSUME TypeInv, NEW r \in Replicas, NEW j \in Jobs, RemoveJob(r, j) \/ RemoveFails(r, j)
    PROVE  TypeInv'
<1>1. TypeOK /\ [jobs EXCEPT ![j] = NoRow] \in [Jobs -> Row]
  BY NoRowType DEF TypeInv, TypeOK
<1>2. RowsOK'
  <2>1. Delete(j) \/ (DeleteRow(j) /\ UNCHANGED events)
    BY DEF RemoveJob, RemoveFails
  <2> QED
    BY <2>1, DeleteType DEF RowsOK, TypeInv, TypeOK, AttemptsCounted
<1>3. SectionOK'
  <2>1. Begin(r, "save", [jobs EXCEPT ![j] = NoRow]) \/ UNCHANGED section
    BY DEF RemoveJob, RemoveFails
  <2> QED
    BY <1>1, <2>1, SectionType DEF RemoveJob, RemoveFails, WithStore
<1>4. HistoryOK'
  BY <1>1, <1>3, HistoryType DEF RemoveJob, RemoveFails
<1>5. RunsOK'
  BY <1>1 DEF RunsOK, TypeOK, RemoveJob, RemoveFails, Fails
<1> QED
  BY <1>2, <1>3, <1>4, <1>5, Unchanged, TypeParts DEF RemoveJob, RemoveFails

\* An event that is claimed has one attempt less left.
LEMMA ClaimedType ==
    ASSUME TypeInv, NEW o \in DueEvents,
           events' = [events EXCEPT ![o].status = "processing", ![o].attempts = @ + 1]
    PROVE  events' \in [Occurrence -> EventRow] /\ AttemptsCounted'
<1>1. o \in Occurrence /\ events[o] \in EventRow /\ MaxAttempts \in Nat
  BY Reads DEF DueEvents, TypeInv, TypeOK
<1>2. events[o].status = "pending" /\ events[o].attempts < MaxAttempts
  BY DEF DueEvents, TypeInv, AttemptsCounted
<1>3. /\ DOMAIN events' = Occurrence /\ events' = [e \in Occurrence |-> events'[e]]
      /\ events'[o] = [events[o] EXCEPT !.status = "processing", !.attempts = @ + 1]
      /\ \A e \in Occurrence \ {o} : events'[e] = events[e]
  BY <1>1 DEF TypeInv, TypeOK
<1>4. events[o].attempts \in 0..MaxAttempts
  BY <1>1 DEF EventRow
<1>5. events[o].attempts + 1 \in 0..MaxAttempts /\ events[o].attempts + 1 > 0
  BY <1>1, <1>2, <1>4
<1>6. /\ events'[o] \in EventRow /\ events'[o].status = "processing"
      /\ events'[o].attempts > 0
  BY <1>1, <1>3, <1>5 DEF EventRow
<1> QED
  BY <1>1, <1>3, <1>6, EventsType

LEMMA ClaimType ==
    ASSUME TypeInv, NEW r \in Replicas, NEW o \in Occurrence, Claim(r, o) \/ ClaimLost(r, o)
    PROVE  TypeInv'
<1>1. TypeOK /\ now \in Nat
  BY Reads DEF TypeInv
<1>2. o \in DueEvents /\ events' = [events EXCEPT ![o].status = "processing", ![o].attempts = @ + 1]
  BY DEF Claim, ClaimLost
<1>3. RowsOK'
  <2>1. UNCHANGED jobs
    BY DEF Claim, ClaimLost
  <2> QED
    BY <1>1, <1>2, <2>1, ClaimedType DEF RowsOK, TypeOK
<1>4. CASE Claim(r, o)
  <2> DEFINE work == [Resting EXCEPT !.pc = "running", !.event = o]
  <2>1. work \in Work /\ work.event = o
    BY DEF Work, Resting
  <2>2. worker' = [worker EXCEPT ![r] = work]
    BY <1>4 DEF Claim
  <2>3. WorkOK'
    <3> HIDE DEF work
    <3> QED
      BY <1>1, <2>1, <2>2, WorkType
  <2>4. SectionOK'
    BY <1>1, <1>4, NoRowType, SectionType DEF Claim
  <2> QED
    BY <1>3, <1>4, <2>3, <2>4, Unchanged, TypeParts DEF Claim
<1>5. CASE ClaimLost(r, o)
  <2>1. SectionOK'
    BY <1>1, <1>5, SectionType DEF ClaimLost
  <2> QED
    BY <1>3, <1>5, <2>1, Unchanged, TypeParts DEF ClaimLost
<1> QED
  BY <1>4, <1>5

\* A worker that rests, has stopped or goes on with its event.
LEMMA WorksType ==
    ASSUME TypeInv, NEW r \in Replicas
    PROVE  /\ worker' = [worker EXCEPT ![r] = Resting] => WorkOK'
           /\ worker' = [worker EXCEPT ![r] = [Resting EXCEPT !.pc = "stopped"]] => WorkOK'
           /\ Running(r) => \A result \in {"ok", "error", "skipped"} :
                worker' = [worker EXCEPT ![r].pc = "ended", ![r].result = result] => WorkOK'
           /\ Running(r) => (worker' = [worker EXCEPT ![r].since = now] => WorkOK')
<1>1. TypeOK /\ worker \in [Replicas -> Work] /\ now \in Nat
  BY Reads DEF TypeInv, TypeOK
<1>2. worker[r] \in Work
  BY <1>1
<1>3. Resting.pc = "idle" /\ [Resting EXCEPT !.pc = "stopped"].pc = "stopped"
  BY DEF Resting
<1>4. Running(r) => worker[r].event \in Occurrence
  BY <1>1 DEF TypeOK
<1>5. ASSUME Running(r), NEW result \in {"ok", "error", "skipped"},
             worker' = [worker EXCEPT ![r].pc = "ended", ![r].result = result]
      PROVE  WorkOK'
  <2> DEFINE work == [worker[r] EXCEPT !.pc = "ended", !.result = result]
  <2>1. worker' = [worker EXCEPT ![r] = work]
    BY <1>1, <1>5
  <2>2. work \in Work /\ work.event = worker[r].event
    BY <1>2 DEF Work
  <2> HIDE DEF work
  <2> QED
    BY <1>1, <1>4, <1>5, <2>1, <2>2, WorkType
<1>6. ASSUME Running(r), worker' = [worker EXCEPT ![r].since = now]
      PROVE  WorkOK'
  <2> DEFINE work == [worker[r] EXCEPT !.since = now]
  <2>1. worker' = [worker EXCEPT ![r] = work]
    BY <1>1, <1>6
  <2>2. work \in Work /\ work.event = worker[r].event
    BY <1>1, <1>2 DEF Work
  <2> HIDE DEF work
  <2> QED
    BY <1>1, <1>4, <1>6, <2>1, <2>2, WorkType
<1>7. worker' = [worker EXCEPT ![r] = Resting] => WorkOK'
  BY <1>1, <1>3, NoRowType, WorkType
<1>8. worker' = [worker EXCEPT ![r] = [Resting EXCEPT !.pc = "stopped"]] => WorkOK'
  BY <1>1, <1>3, NoRowType, WorkType
<1> QED
  BY <1>5, <1>6, <1>7, <1>8

LEMMA LockType ==
    ASSUME IInv, TypeInv, NEW r \in Replicas, NEW at \in section[r].at..now,
           Lock(r, at) \/ LockFails(r)
    PROVE  TypeInv'
<1> DEFINE o == worker[r].event
<1>1. /\ TypeOK /\ now \in Nat /\ at \in Nat /\ ExecTtl \in Nat
      /\ Running(r) /\ o \in Occurrence /\ o \in LeaseNames
  BY Reads DEF TypeInv, Lock, LockFails, IInv, SectionHasEvent, Running, LeaseNames
<1>2. leases' \in [LeaseNames -> Lease]
  <2>1. UNCHANGED leases \/ Acquire(o, r, at, ExecTtl) \/ Acquire(o, r, now, ExecTtl)
    BY DEF Lock, LockFails
  <2> HIDE DEF o
  <2> QED
    BY <1>1, <2>1, AcquireType DEF TypeOK
<1>3. CASE Lock(r, at)
  <2>1. SectionOK'
    <3>1. End(r) \/ GoOn(r, "record")
      BY <1>3 DEF Lock
    <3> QED
      BY <1>1, <1>3, <3>1, SectionType DEF Lock
  <2>2. WorkOK'
    <3>1. \/ worker' = [worker EXCEPT ![r].since = now]
          \/ worker' = [worker EXCEPT ![r].pc = "ended", ![r].result = "skipped"]
      BY <1>3 DEF Lock
    <3> QED
      BY <1>1, <3>1, WorksType
  <2> QED
    BY <1>2, <1>3, <2>1, <2>2, Unchanged, TypeParts DEF Lock
<1>4. CASE LockFails(r)
  <2>1. SectionOK' /\ WorkOK'
    BY <1>1, <1>4, SectionType, WorksType DEF LockFails
  <2> QED
    BY <1>2, <1>4, <2>1, Unchanged, TypeParts DEF LockFails
<1> QED
  BY <1>3, <1>4

LEMMA RunEndsType ==
    ASSUME TypeInv, NEW r \in Replicas, NEW result \in {"ok", "error"}, RunEnds(r, result)
    PROVE  TypeInv'
<1>1. /\ TypeOK /\ Running(r) /\ worker[r].event \in Occurrence
      /\ successes \in [Occurrence -> Nat]
  BY DEF RunEnds, Running, TypeInv, TypeOK
<1>2. SectionOK' /\ WorkOK'
  BY <1>1, SectionType, WorksType DEF RunEnds
<1>3. RunsOK'
  <2>1. successes' \in [Occurrence -> Nat]
    BY <1>1 DEF RunEnds
  <2> QED
    BY <1>1, <2>1 DEF RunEnds, RunsOK, TypeOK
<1> QED
  BY <1>2, <1>3, Unchanged, TypeParts DEF RunEnds

LEMMA RecordRunType ==
    ASSUME IInv, TypeInv, NEW r \in Replicas, RecordRun(r) \/ RecordFails(r) PROVE TypeInv'
<1> DEFINE j == worker[r].event[1]
           row == IF ToDelete(r) THEN NoRow ELSE [jobs[j] EXCEPT !.ran = jobs[j].there]
<1>1. TypeOK /\ worker[r].event \in Occurrence
  BY DEF RecordRun, RecordFails, Running, TypeInv, TypeOK, IInv, SectionHasEvent
<1>2. j \in Jobs
  BY <1>1 DEF Occurrence
<1>3. RowsOK'
  <2>1. Delete(j) \/ (DeleteRow(j) /\ UNCHANGED events) \/ UNCHANGED <<jobs, events>>
    BY DEF RecordRun, RecordFails
  <2> HIDE DEF j
  <2> QED
    BY <1>2, <2>1, DeleteType DEF RowsOK, TypeInv, TypeOK, AttemptsCounted
<1>4. CASE RecordRun(r)
  <2>1. Begin(r, "save run", [jobs EXCEPT ![j] = row])
    <3>1. jobs[j] = jobs[j] /\ DOMAIN jobs = Jobs
      BY <1>1 DEF TypeOK
    <3> QED
      BY <1>2, <1>4, <3>1 DEF RecordRun
  <2>2. [jobs EXCEPT ![j] = row] \in [Jobs -> Row]
    <3> HIDE DEF j
    <3>1. jobs[j] \in Row /\ jobs \in [Jobs -> Row]
      BY <1>1, <1>2 DEF TypeOK
    <3>2. [jobs[j] EXCEPT !.ran = jobs[j].there] \in Row
      BY <3>1 DEF Row
    <3>3. row \in Row
      BY <3>2, NoRowType
    <3> HIDE DEF row
    <3> QED
      BY <3>1, <3>3
  <2> HIDE DEF j, row
  <2>3. SectionOK'
    BY <1>1, <1>4, <2>1, <2>2, SectionType DEF RecordRun, WithStore
  <2> QED
    BY <1>3, <1>4, <2>3, Unchanged, TypeParts DEF RecordRun
<1>5. CASE RecordFails(r)
  <2>1. SectionOK'
    BY <1>1, <1>5, SectionType DEF RecordFails
  <2> QED
    BY <1>3, <1>5, <2>1, Unchanged, TypeParts DEF RecordFails
<1> QED
  BY <1>4, <1>5

\* An event that is tried again is due at a time of the model.
LEMMA RetryType ==
    ASSUME TypeOK, NEW attempts \in 1..MaxAttempts
    PROVE  RetryAt(attempts) \in 0..MaxTime
<1> DEFINE power == 2 ^ (attempts - 1)
           backoff == IF power < BackoffCap THEN power ELSE BackoffCap
<1>1. MaxTime \in Nat /\ BackoffCap \in Nat /\ now \in Nat /\ MaxAttempts \in Nat
  BY Reads
<1>2. attempts - 1 \in 0..MaxAttempts
  BY <1>1
<1>3. power \in Nat
  BY <1>2, PowersAreNumbers
<1>4. backoff \in Nat
  BY <1>1, <1>3
<1>5. RetryAt(attempts) = IF now + backoff < MaxTime THEN now + backoff ELSE MaxTime
  BY DEF RetryAt
<1> HIDE DEF backoff
<1> QED
  BY <1>1, <1>4, <1>5

LEMMA CompleteType ==
    ASSUME IInv, TypeInv, NEW r \in Replicas, Complete(r) PROVE TypeInv'
<1> DEFINE o == worker[r].event
           out == Outcome(worker[r].result, events[o].attempts)
           due == IF out = "pending" THEN RetryAt(events[o].attempts) ELSE events[o].due
<1>1. TypeOK /\ MaxTime \in Nat /\ MaxAttempts \in Nat
  BY Reads DEF TypeInv
<1>2. o \in Occurrence /\ events[o].status = "processing"
  BY Reads DEF Complete, TypeInv, IInv, SectionHasEvent, OneExecutor, Running
<1>3. events[o] \in EventRow /\ events[o].attempts > 0
  BY <1>1, <1>2 DEF TypeOK, TypeInv, AttemptsCounted
<1>4. events[o].attempts \in 1..MaxAttempts
  BY <1>1, <1>3 DEF EventRow
<1>5. RetryAt(events[o].attempts) \in 0..MaxTime
  <2> HIDE DEF o
  <2> QED
    BY <1>1, <1>4, RetryType
<1>6. due \in 0..MaxTime
  <2> HIDE DEF out
  <2> QED
    BY <1>3, <1>5 DEF EventRow
<1>7. /\ out \in {"done", "dead", "pending"}
      /\ out = "pending" => events[o].attempts < MaxAttempts
  <2> HIDE DEF o
  <2> QED
    BY <1>1, <1>4 DEF Outcome
<1>8. /\ events'[o] = [events[o] EXCEPT !.status = out, !.due = due]
      /\ \A e \in Occurrence \ {o} : events'[e] = events[e]
      /\ DOMAIN events' = Occurrence /\ events' = [e \in Occurrence |-> events'[e]]
  BY <1>1, <1>2 DEF Complete, TypeOK
<1>9. RowsOK'
  <2> HIDE DEF o, out, due
  <2>1. /\ events'[o] \in EventRow /\ events'[o].status = out
        /\ events'[o].attempts = events[o].attempts
    BY <1>3, <1>6, <1>7, <1>8 DEF EventRow
  <2>2. events' \in [Occurrence -> EventRow] /\ AttemptsCounted'
    BY <1>2, <1>3, <1>7, <1>8, <2>1, EventsType
  <2> QED
    BY <1>1, <2>2 DEF Complete, RowsOK, TypeOK
<1>10. SectionOK' /\ WorkOK'
  BY <1>1, SectionType, WorksType DEF Complete
<1> QED
  BY <1>9, <1>10, Unchanged, TypeParts DEF Complete

LEMMA CrashType ==
    ASSUME TypeInv, NEW r \in Replicas, Crash(r) \/ CompleteFails(r) PROVE TypeInv'
<1>1. TypeOK /\ Never \in Nat
  BY DEF TypeInv, Never
<1>2. SectionOK' /\ WorkOK'
  BY <1>1, SectionType, WorksType DEF Crash, CompleteFails
<1>3. CASE CompleteFails(r)
  BY <1>2, <1>3, Unchanged, TypeParts DEF CompleteFails
<1>4. CASE Crash(r)
  <2>1. HistoryOK' /\ TimersOK'
    BY <1>1, <1>2, <1>4, HistoryType, TimerType DEF Crash
  <2>2. leases' \in [LeaseNames -> Lease]
    <3>1. \A n \in LeaseNames : [leases[n] EXCEPT !.owner = Nobody] \in Lease
      BY <1>1 DEF TypeOK, Lease
    <3> QED
      BY <1>1, <1>4, <3>1 DEF Crash, TypeOK
  <2> QED
    BY <1>2, <1>4, <2>1, <2>2, Unchanged, TypeParts DEF Crash
<1> QED
  BY <1>3, <1>4

LEMMA NextType == IInv /\ TypeInv /\ [Next]_vars => TypeInv'
<1> SUFFICES ASSUME IInv, TypeInv, [Next]_vars PROVE TypeInv'
  OBVIOUS
<1>1. CASE Tick
  <2>1. TypeOK /\ now \in Nat /\ now < MaxTime /\ now' = now + 1 /\ MaxTime \in Nat
    BY <1>1, Reads DEF Tick, TypeInv
  <2>2. now' \in Times
    BY <2>1 DEF Times
  <2>3. SectionOK'
    <3>1. UNCHANGED section /\ \A r \in Replicas : section[r].at \in Nat /\ section[r].at <= now
      BY <1>1, <2>1, Reads DEF Tick
    <3> QED
      BY <2>1, <3>1 DEF SectionOK, TypeOK
  <2> QED
    BY <1>1, <2>2, <2>3, Unchanged, TypeParts DEF Tick
<1>2. CASE UNCHANGED vars
  BY <1>2 DEF vars, TypeInv, TypeOK, AttemptsCounted, Running
<1>3. ASSUME NEW r \in Replicas, SectionStep(r) PROVE TypeInv'
  BY <1>3, BeginsType, TickType, SavesType DEF SectionStep
<1>4. ASSUME NEW r \in Replicas, WorkerStep(r) PROVE TypeInv'
  <2>1. now \in section[r].at..now
    BY Reads DEF TypeInv
  <2> QED
    BY <1>4, <2>1, ClaimType, LockType, RunEndsType, RecordRunType, SavesType, CompleteType,
       CrashType DEF WorkerStep
<1>5. ASSUME NEW r \in Replicas, NEW j \in Jobs,
             ListJobs(r) \/ AddJob(r, j) \/ RemoveJob(r, j) \/ RemoveFails(r, j)
      PROVE  TypeInv'
  BY <1>5, BeginsType, RemovesType
<1>6. ASSUME NEW r \in Replicas, ListJobs(r) \/ Start(r) \/ TimerFires(r) \/ Crash(r)
      PROVE  TypeInv'
  BY <1>6, BeginsType, CrashType
<1> QED
  BY <1>1, <1>2, <1>3, <1>4, <1>5, <1>6, CronAssumption DEF Next

\* Whatever the replicas do, rows, events and leases stay what the tables can hold: above
\* all, no event is tried more often than MaxAttempts times.
THEOREM TypeCorrect == Spec => []TypeOK
<1>1. TypeInv => TypeOK
  BY DEF TypeInv
<1> QED
  BY <1>1, InitInv, NextInv, InitType, NextType, PTL DEF Spec

-----------------------------------------------------------------------------
(* What the table of events tells.                                         *)

LEMMA InitTruth == Init => TruthInv
<1> SUFFICES ASSUME Init PROVE TruthInv
  OBVIOUS
<1>1. \A o \in Occurrence : successes[o] = 0 /\ events[o].status = "none"
  BY DEF Init, NoEvent
<1>2. \A r \in Replicas : ~Running(r)
  BY DEF Init, Running, Resting
<1> QED
  BY <1>1, <1>2 DEF TruthInv, RunsTellTruth, NothingForgotten, EventsTellTruth

\* What is remembered now was so before, for nothing is ever taken back.
LEMMA StillRemembered ==
    ASSUME TypeOK, removed \subseteq removed',
           \A o \in Occurrence : successes'[o] \in {successes[o], successes[o] + 1},
           NEW o \in Occurrence, Remembered(o)'
    PROVE  Remembered(o)
<1>1. \A t \in Times : <<o[1], t>> \in Occurrence
  BY DEF Occurrence
<1>2. \A e \in Occurrence : successes[e] \in Nat /\ (successes'[e] = 0 => successes[e] = 0)
  BY DEF TypeOK
<1> QED
  BY <1>1, <1>2 DEF Remembered

\* Of two occurrences of a one-time job that have succeeded none is remembered.
LEMMA OtherSucceeded ==
    ASSUME TypeOK, NEW o \in Occurrence, NEW e \in Occurrence, o # e, o[1] = e[1],
           o[1] \in OneShot, successes[e] > 0
    PROVE  ~Remembered(o)
<1>1. e[2] \in Times /\ e = <<o[1], e[2]>> /\ e[2] # o[2]
  BY DEF Occurrence
<1>2. successes[e] # 0
  BY DEF TypeOK
<1> QED
  BY <1>1, <1>2 DEF Remembered

\* No run begins, succeeds or ends, and no job is removed: events are made, or claimed
\* for nobody.
LEMMA TruthStep ==
    ASSUME TruthInv, UNCHANGED <<worker, successes, removed>>,
           \A o \in Occurrence :
              \/ events'[o] = events[o]
              \/ events[o].status = "none" /\ events'[o].status = "pending"
              \/ events[o].status = "pending" /\ events'[o].status = "processing"
    PROVE  TruthInv'
<1>1. \A o \in Occurrence : Remembered(o)' <=> Remembered(o)
  BY DEF Remembered
<1>2. NothingForgotten'
  BY <1>1 DEF TruthInv, NothingForgotten
<1>3. EventsTellTruth'
  BY <1>1 DEF TruthInv, NothingForgotten, EventsTellTruth
<1>4. RunsTellTruth'
  BY DEF TruthInv, RunsTellTruth, Running, Remembered
<1> QED
  BY <1>2, <1>3, <1>4 DEF TruthInv

\* A run ends without a trace.
LEMMA LetGoTruth ==
    ASSUME TruthInv, NEW r \in Replicas, NEW work,
           worker' = [worker EXCEPT ![r] = work], DOMAIN worker = Replicas,
           work.pc \notin {"running", "ended"},
           UNCHANGED <<successes, removed, events>>
    PROVE  TruthInv'
<1>1. ~Running(r)' /\ \A s \in Replicas \ {r} : worker'[s] = worker[s]
  BY DEF Running
<1>2. RunsTellTruth'
  BY <1>1 DEF TruthInv, RunsTellTruth, Running, Remembered
<1> QED
  BY <1>2 DEF TruthInv, NothingForgotten, EventsTellTruth, Remembered

LEMMA ClaimTruth ==
    ASSUME TypeInv, TruthInv, NEW r \in Replicas, NEW o \in Occurrence, Claim(r, o)
    PROVE  TruthInv'
<1>1. events[o].status = "pending" /\ UNCHANGED <<successes, removed>>
  BY DEF Claim, DueEvents
<1>2. events'[o].status = "processing" /\ \A e \in Occurrence \ {o} : events'[e] = events[e]
  BY DEF Claim, TypeInv, TypeOK
<1>3. /\ \A s \in Replicas \ {r} : worker'[s] = worker[s]
      /\ worker'[r].event = o
      /\ ~(worker'[r].pc = "ended" /\ worker'[r].result = "ok")
  BY DEF Claim, TypeInv, TypeOK
<1>4. \A e \in Occurrence : Remembered(e)' <=> Remembered(e)
  BY <1>1 DEF Remembered
<1>5. Remembered(o) => successes[o] = 0
  BY <1>1 DEF TruthInv, EventsTellTruth
<1>6. RunsTellTruth'
  <2> SUFFICES ASSUME NEW s \in Replicas, NEW e \in Occurrence, Running(s)',
                      worker'[s].event = e
               PROVE  IF worker'[s].pc = "ended" /\ worker'[s].result = "ok"
                      THEN successes'[e] > 0
                      ELSE Remembered(e)' => successes'[e] = 0
    BY DEF RunsTellTruth
  <2>1. CASE s = r
    BY <2>1, <1>1, <1>3, <1>4, <1>5
  <2>2. CASE s # r
    <3>1. Running(s) /\ worker[s].event = e
      BY <2>2, <1>3 DEF Running
    <3> QED
      BY <2>2, <3>1, <1>1, <1>3, <1>4 DEF TruthInv, RunsTellTruth
  <2> QED
    BY <2>1, <2>2
<1>7. NothingForgotten'
  BY <1>1, <1>2, <1>4 DEF TruthInv, NothingForgotten
<1>8. EventsTellTruth'
  BY <1>1, <1>2, <1>4 DEF TruthInv, EventsTellTruth
<1> QED
  BY <1>6, <1>7, <1>8 DEF TruthInv

\* A run that gets the lock, or is skipped, has not succeeded.
LEMMA LockTruth ==
    ASSUME IInv, TypeInv, TruthInv, NEW r \in Replicas, NEW at, Lock(r, at)
    PROVE  TruthInv'
<1>1. /\ worker[r].pc = "running" /\ UNCHANGED <<successes, removed, events>>
      /\ worker \in [Replicas -> Work]
  BY DEF Lock, IInv, SectionHasEvent, TypeInv, TypeOK
<1>2. /\ \A s \in Replicas \ {r} : worker'[s] = worker[s]
      /\ worker'[r].event = worker[r].event
      /\ ~(worker'[r].pc = "ended" /\ worker'[r].result = "ok")
  BY <1>1 DEF Lock, Work
<1>3. RunsTellTruth'
  <2> SUFFICES ASSUME NEW s \in Replicas, NEW e \in Occurrence, Running(s)',
                      worker'[s].event = e
               PROVE  IF worker'[s].pc = "ended" /\ worker'[s].result = "ok"
                      THEN successes'[e] > 0
                      ELSE Remembered(e)' => successes'[e] = 0
    BY DEF RunsTellTruth
  <2>1. Running(s) /\ worker[s].event = e
    BY <1>1, <1>2 DEF Running
  <2> QED
    BY <2>1, <1>1, <1>2 DEF TruthInv, RunsTellTruth, Remembered
<1> QED
  BY <1>1, <1>3 DEF TruthInv, NothingForgotten, EventsTellTruth, Remembered

LEMMA RunEndsTruth ==
    ASSUME IInv, TypeInv, TruthInv, NEW r \in Replicas, NEW result \in {"ok", "error"},
           RunEnds(r, result)
    PROVE  TruthInv'
<1> DEFINE o == worker[r].event
<1>1. /\ worker[r].pc = "running" /\ UNCHANGED <<events, removed>> /\ TypeOK /\ Running(r)
      /\ o \in Occurrence
  BY Reads DEF RunEnds, Running, TypeInv
<1>2. events[o].status = "processing" /\ \A s \in Replicas \ {r} : Running(s) => worker[s].event # o
  BY <1>1 DEF IInv, OneExecutor
<1>3. /\ \A s \in Replicas \ {r} : worker'[s] = worker[s]
      /\ worker'[r].event = o /\ worker'[r].pc = "ended" /\ worker'[r].result = result
  BY <1>1 DEF RunEnds, TypeOK, Work
<1>4. /\ \A e \in Occurrence \ {o} : successes'[e] = successes[e]
      /\ successes'[o] = IF result = "ok" THEN successes[o] + 1 ELSE successes[o]
      /\ \A e \in Occurrence : successes[e] \in Nat
  BY <1>1 DEF RunEnds, TypeOK
<1>5. \A e \in Occurrence : Remembered(e)' => Remembered(e)
  BY <1>1, <1>4, StillRemembered
<1>6. Remembered(o) => successes[o] = 0
  BY <1>1 DEF TruthInv, RunsTellTruth
<1> HIDE DEF o
<1>7. RunsTellTruth'
  <2> SUFFICES ASSUME NEW s \in Replicas, NEW e \in Occurrence, Running(s)',
                      worker'[s].event = e
               PROVE  IF worker'[s].pc = "ended" /\ worker'[s].result = "ok"
                      THEN successes'[e] > 0
                      ELSE Remembered(e)' => successes'[e] = 0
    BY DEF RunsTellTruth
  <2>1. CASE s = r
    <3>1. CASE result = "ok"
      BY <2>1, <3>1, <1>1, <1>3, <1>4
    <3>2. CASE result # "ok"
      BY <2>1, <3>2, <1>1, <1>3, <1>4, <1>5, <1>6
    <3> QED
      BY <3>1, <3>2
  <2>2. CASE s # r
    <3>1. Running(s) /\ worker[s].event = e
      BY <2>2, <1>3 DEF Running
    <3>2. e # o
      BY <2>2, <3>1, <1>2
    <3>3. IF worker[s].pc = "ended" /\ worker[s].result = "ok"
          THEN successes[e] > 0
          ELSE Remembered(e) => successes[e] = 0
      BY <3>1 DEF TruthInv, RunsTellTruth
    <3> QED
      BY <2>2, <3>1, <3>2, <3>3, <1>3, <1>4, <1>5
  <2> QED
    BY <2>1, <2>2
<1>8. NothingForgotten'
  BY <1>1, <1>2, <1>4, <1>5 DEF TruthInv, NothingForgotten
<1>9. EventsTellTruth'
  <2> SUFFICES ASSUME NEW e \in Occurrence, Remembered(e)'
               PROVE  /\ successes'[e] <= 1
                      /\ events'[e].status \in {"pending", "dead"} => successes'[e] = 0
                      /\ events'[e].status = "done" => successes'[e] = 1
                      /\ events'[e].status = "dead" => events'[e].attempts = MaxAttempts
    BY DEF EventsTellTruth, Remembered
  <2>1. CASE e = o
    BY <2>1, <1>1, <1>2, <1>4, <1>5, <1>6
  <2>2. CASE e # o
    BY <2>2, <1>1, <1>4, <1>5 DEF TruthInv, EventsTellTruth
  <2> QED
    BY <2>1, <2>2
<1> QED
  BY <1>7, <1>8, <1>9 DEF TruthInv

\* What is forgotten with a job that is deleted is not remembered.
LEMMA DeleteTruth ==
    ASSUME TypeInv, TruthInv, NEW j \in Jobs, Delete(j) \/ UNCHANGED events,
           removed \subseteq removed',
           UNCHANGED <<worker, successes>>,
           \A o \in Occurrence :
              o[1] = j /\ events[o].status = "done" => ~Remembered(o)'
    PROVE  TruthInv'
<1>1. TypeOK
  BY DEF TypeInv
<1>2. \A o \in Occurrence : successes'[o] = successes[o]
  OBVIOUS
<1>3. \A o \in Occurrence : Remembered(o)' => Remembered(o)
  BY <1>1, <1>2, StillRemembered
<1>4. \A o \in Occurrence : Remembered(o)' => events'[o] = events[o]
  BY DEF Delete
<1>5. RunsTellTruth'
  <2> SUFFICES ASSUME NEW s \in Replicas, NEW e \in Occurrence, Running(s)',
                      worker'[s].event = e
               PROVE  IF worker'[s].pc = "ended" /\ worker'[s].result = "ok"
                      THEN successes'[e] > 0
                      ELSE Remembered(e)' => successes'[e] = 0
    BY DEF RunsTellTruth
  <2>1. Running(s) /\ worker[s].event = e
    BY DEF Running
  <2> QED
    BY <2>1, <1>3 DEF TruthInv, RunsTellTruth
<1>6. NothingForgotten'
  BY <1>2, <1>3, <1>4 DEF TruthInv, NothingForgotten
<1>7. EventsTellTruth'
  BY <1>2, <1>3, <1>4 DEF TruthInv, EventsTellTruth
<1> QED
  BY <1>5, <1>6, <1>7 DEF TruthInv

LEMMA RecordRunTruth ==
    ASSUME IInv, TypeInv, TruthInv, NEW r \in Replicas, RecordRun(r) \/ RecordFails(r)
    PROVE  TruthInv'
<1> DEFINE o == worker[r].event
<1>1. /\ TypeOK /\ Running(r) /\ worker[r].pc = "ended" /\ o \in Occurrence
      /\ UNCHANGED <<worker, successes, removed>>
  BY Reads DEF RecordRun, RecordFails, Running, TypeInv, IInv, SectionHasEvent
<1>2. events[o].status = "processing"
  BY <1>1 DEF IInv, OneExecutor
<1>3. CASE ToDelete(r)
  <2>1. (Delete(o[1]) \/ UNCHANGED events) /\ o[1] \in Jobs /\ o[1] \in OneShot
    BY <1>1, <1>3 DEF RecordRun, RecordFails, Occurrence, ToDelete
  <2>2. successes[o] > 0
    BY <1>1, <1>3 DEF TruthInv, RunsTellTruth, ToDelete
  <2>3. ASSUME NEW e \in Occurrence, e[1] = o[1], events[e].status = "done"
        PROVE  ~Remembered(e)'
    <3>1. e # o
      BY <1>2, <2>3
    <3> HIDE DEF o
    <3>2. ~Remembered(e)
      BY <1>1, <2>1, <2>2, <2>3, <3>1, OtherSucceeded
    <3> QED
      BY <1>1, <3>2 DEF Remembered
  <2> HIDE DEF o
  <2> QED
    BY <1>1, <2>1, <2>3, DeleteTruth
<1>4. CASE ~ToDelete(r)
  <2>1. UNCHANGED events
    BY <1>4 DEF RecordRun, RecordFails
  <2> HIDE DEF o
  <2> QED
    BY <1>1, <2>1, TruthStep
<1> QED
  BY <1>3, <1>4

LEMMA RemoveJobTruth ==
    ASSUME TypeInv, TruthInv, NEW r \in Replicas, NEW j \in Jobs,
           RemoveJob(r, j) \/ RemoveFails(r, j)
    PROVE  TruthInv'
<1>1. /\ Delete(j) \/ UNCHANGED events
      /\ removed' = removed \cup {j} /\ UNCHANGED <<worker, successes>>
  BY DEF RemoveJob, RemoveFails
<1>2. \A o \in Occurrence : o[1] = j => ~Remembered(o)'
  BY <1>1 DEF Remembered
<1> QED
  BY <1>1, <1>2, DeleteTruth

LEMMA CompleteTruth ==
    ASSUME IInv, TypeInv, TruthInv, NEW r \in Replicas, Complete(r) PROVE TruthInv'
<1> DEFINE o == worker[r].event
           out == Outcome(worker[r].result, events[o].attempts)
<1>1. /\ TypeOK /\ Running(r) /\ worker[r].pc = "ended" /\ o \in Occurrence
      /\ UNCHANGED <<successes, removed>>
  BY Reads DEF Complete, Running, TypeInv, IInv, SectionHasEvent
<1>2. events[o].status = "processing" /\ \A s \in Replicas \ {r} : Running(s) => worker[s].event # o
  BY <1>1 DEF IInv, OneExecutor
<1>3. /\ events'[o].status = out /\ events'[o].attempts = events[o].attempts
      /\ \A e \in Occurrence \ {o} : events'[e] = events[e]
  BY <1>1 DEF Complete, TypeOK, EventRow
<1>4. ~Running(r)' /\ \A s \in Replicas \ {r} : worker'[s] = worker[s]
  BY <1>1 DEF Complete, TypeOK, Running, Resting
<1>5. \A e \in Occurrence : Remembered(e)' <=> Remembered(e)
  BY <1>1 DEF Remembered
<1>6. events[o].attempts <= MaxAttempts /\ events[o].attempts \in Nat
  <2>1. events[o].attempts \in 0..MaxAttempts /\ MaxAttempts \in Nat
    BY <1>1, Reads DEF TypeOK, EventRow
  <2> QED
    BY <2>1
<1>7. /\ worker[r].result = "ok" => out = "done"
      /\ worker[r].result # "ok" => out \in {"dead", "pending"}
      /\ out = "dead" => events[o].attempts >= MaxAttempts
  BY DEF Outcome
<1>8. Remembered(o) => /\ successes[o] = IF worker[r].result = "ok" THEN 1 ELSE 0
                       /\ successes[o] <= 1
  <2>1. worker[r].result = "ok" => successes[o] > 0
    BY <1>1 DEF TruthInv, RunsTellTruth
  <2>2. Remembered(o) /\ worker[r].result # "ok" => successes[o] = 0
    BY <1>1 DEF TruthInv, RunsTellTruth
  <2>3. Remembered(o) => successes[o] <= 1
    BY <1>1 DEF TruthInv, EventsTellTruth
  <2>4. successes[o] \in Nat
    BY <1>1 DEF TypeOK
  <2> QED
    BY <2>1, <2>2, <2>3, <2>4
<1> HIDE DEF o, out
<1>9. RunsTellTruth'
  <2> SUFFICES ASSUME NEW s \in Replicas, NEW e \in Occurrence, Running(s)',
                      worker'[s].event = e
               PROVE  IF worker'[s].pc = "ended" /\ worker'[s].result = "ok"
                      THEN successes'[e] > 0
                      ELSE Remembered(e)' => successes'[e] = 0
    BY DEF RunsTellTruth
  <2>1. s # r /\ worker'[s] = worker[s] /\ Running(s) /\ worker[s].event = e
    BY <1>4 DEF Running
  <2> QED
    BY <2>1, <1>1, <1>5 DEF TruthInv, RunsTellTruth
<1>10. NothingForgotten'
  BY <1>1, <1>3, <1>5, <1>7 DEF TruthInv, NothingForgotten
<1>11. EventsTellTruth'
  <2> SUFFICES ASSUME NEW e \in Occurrence, Remembered(e)'
               PROVE  /\ successes'[e] <= 1
                      /\ events'[e].status \in {"pending", "dead"} => successes'[e] = 0
                      /\ events'[e].status = "done" => successes'[e] = 1
                      /\ events'[e].status = "dead" => events'[e].attempts = MaxAttempts
    BY DEF EventsTellTruth
  <2>1. CASE e = o
    <3>1. /\ successes[o] = (IF worker[r].result = "ok" THEN 1 ELSE 0) /\ successes[o] <= 1
      BY <2>1, <1>5, <1>8
    <3>2. out = "dead" => events[o].attempts = MaxAttempts
      BY <1>6, <1>7, <1>1, Reads
    <3> QED
      BY <2>1, <3>1, <3>2, <1>1, <1>3, <1>7
  <2>2. CASE e # o
    BY <2>2, <1>1, <1>3, <1>5 DEF TruthInv, EventsTellTruth
  <2> QED
    BY <2>1, <2>2
<1> QED
  BY <1>9, <1>10, <1>11 DEF TruthInv

LEMMA ClaimLostTruth ==
    ASSUME TypeInv, TruthInv, NEW r \in Replicas, NEW o \in Occurrence, ClaimLost(r, o)
    PROVE  TruthInv'
<1>1. events[o].status = "pending" /\ UNCHANGED <<worker, successes, removed>>
  BY DEF ClaimLost, DueEvents
<1>2. events'[o].status = "processing" /\ \A e \in Occurrence \ {o} : events'[e] = events[e]
  BY DEF ClaimLost, TypeInv, TypeOK
<1> QED
  BY <1>1, <1>2, TruthStep

LEMMA NextTruth == IInv /\ TypeInv /\ TruthInv /\ [Next]_vars => TruthInv'
<1> SUFFICES ASSUME IInv, TypeInv, TruthInv, [Next]_vars PROVE TruthInv'
  OBVIOUS
<1>1. DOMAIN worker = Replicas
  BY DEF TypeInv, TypeOK
<1>2. ASSUME NEW r \in Replicas, NEW some, MakeEvents(r, some),
             UNCHANGED <<worker, successes, removed>>
      PROVE  TruthInv'
  <2>1. \A o \in Occurrence :
            \/ events'[o] = events[o]
            \/ events[o].status = "none" /\ events'[o].status = "pending"
    BY <1>2 DEF MakeEvents, NoEvent
  <2> QED
    BY <1>2, <2>1, TruthStep
<1>3. ASSUME NEW r \in Replicas, SectionStep(r) PROVE TruthInv'
  <2>1. CASE Enqueue(r) \/ EnqueueFails(r)
    BY <1>2, <2>1 DEF Enqueue, EnqueueFails
  <2>2. CASE TickFails(r)
    BY <2>2, TruthStep DEF TickFails
  <2>3. ASSUME NEW at, \/ BecomeScheduler(r, at) \/ NotScheduler(r, at)
                       \/ SaveAndArm(r, at) \/ SaveFails(r, at) \/ SaveList(r, at)
        PROVE  TruthInv'
    <3>1. UNCHANGED <<events, worker, successes, removed>>
      BY <2>3 DEF BecomeScheduler, NotScheduler, SaveAndArm, SaveFails, SaveList
    <3> QED
      BY <3>1, TruthStep
  <2> QED
    BY <1>3, <2>1, <2>2, <2>3 DEF SectionStep
<1>4. ASSUME NEW r \in Replicas, CompleteFails(r) \/ LockFails(r) \/ Crash(r) PROVE TruthInv'
  <2> DEFINE stopped == [Resting EXCEPT !.pc = "stopped"]
  <2>1. stopped.pc = "stopped" /\ Resting.pc = "idle"
    BY DEF Resting
  <2>2. /\ worker' = [worker EXCEPT ![r] = stopped] \/ worker' = [worker EXCEPT ![r] = Resting]
        /\ UNCHANGED <<successes, removed, events>>
    BY <1>4 DEF CompleteFails, LockFails, Crash
  <2> HIDE DEF stopped
  <2> QED
    BY <1>1, <2>1, <2>2, LetGoTruth
<1>5. ASSUME NEW r \in Replicas, SaveRun(r) \/ SaveRunFails(r) PROVE TruthInv'
  BY <1>5, TruthStep DEF SaveRun, SaveRunFails
<1>6. ASSUME NEW r \in Replicas, WorkerStep(r) PROVE TruthInv'
  BY <1>4, <1>5, <1>6, ClaimTruth, ClaimLostTruth, LockTruth, RunEndsTruth, RecordRunTruth,
     CompleteTruth DEF WorkerStep
<1>7. ASSUME NEW r \in Replicas, Start(r) \/ TimerFires(r) \/ ListJobs(r) PROVE TruthInv'
  BY <1>7, TruthStep DEF Start, TimerFires, ListJobs
<1>8. ASSUME NEW r \in Replicas, NEW j \in Jobs, AddJob(r, j) PROVE TruthInv'
  BY <1>8, TruthStep DEF AddJob
<1>9. CASE Tick \/ UNCHANGED vars
  BY <1>9, TruthStep DEF Tick, vars
<1> QED
  BY <1>3, <1>4, <1>6, <1>7, <1>8, <1>9, RemoveJobTruth, CronAssumption DEF Next

\* However claims, runs, failed saves, crashes and removals interleave, an event that waits
\* or was given up has not succeeded, and one that is done has succeeded once.
THEOREM EventsAreTrue == Spec => []EventsTellTruth
<1>1. TruthInv => EventsTellTruth
  BY DEF TruthInv
<1> QED
  BY <1>1, InitInv, NextInv, InitType, NextType, InitTruth, NextTruth, PTL DEF Spec

-----------------------------------------------------------------------------
(* How far the events of an interval job are apart.                        *)

Apart == SpacingInv /\ IntervalKept

\* A section that has a copy of the store, and what it plans for a job.
HasCopy(r) == section[r].pc \in WithStore
Copy(r, j) == Planned(section[r].store[j])

\* What the types say of the plans.
Numbers(j) ==
    /\ now \in Nat /\ now < Ever /\ Ever \in Nat /\ j \in Jobs /\ j \notin OneShot
    /\ Delay[j] \in Nat /\ Delay[j] > 0 /\ jobs[j] \in Row /\ Planned(jobs[j]) \in Nat
    /\ Enqueued(j) \subseteq Nat
    /\ \A r \in Replicas :
        /\ section[r].at \in Nat /\ section[r].at <= now
        /\ Copy(r, j) \in Nat /\ section[r].store[j] \in Row
        /\ valid[r][j] \in Nat

LEMMA SpacingReads == TypeInv => \A j \in Interval : Numbers(j)
<1> SUFFICES ASSUME TypeInv, NEW j \in Interval PROVE Numbers(j)
  OBVIOUS
<1>1. /\ TypeOK /\ now \in Nat /\ now \in 1..MaxTime /\ MaxTime \in Nat /\ j \in Jobs
      /\ j \notin OneShot
  BY Reads DEF TypeInv, TypeOK, Times, Interval
<1>2. Delay[j] \in Nat /\ Delay[j] > 0
  BY <1>1, CronAssumption
<1>3. jobs[j] \in Row
  BY <1>1 DEF TypeOK
<1>4. \A row \in Row : Planned(row) \in Nat
  BY DEF Planned, Row, Never
<1>5. ASSUME NEW r \in Replicas
      PROVE  /\ section[r].at \in Nat /\ section[r].at <= now
             /\ section[r].store[j] \in Row /\ valid[r][j] \in Nat
  <2>1. section[r].store \in [Jobs -> Row]
    BY <1>1, Reads
  <2>2. valid[r] \in [Interval -> Nat]
    BY <1>1 DEF TypeOK
  <2> QED
    BY <1>1, <2>1, <2>2, Reads
<1>6. Enqueued(j) \subseteq Nat
  BY <1>1 DEF Enqueued, Times
<1> QED
  BY <1>1, <1>2, <1>3, <1>4, <1>5, <1>6 DEF Ever, Copy, Numbers

LEMMA SpacingReadsPrime == (TypeInv => \A j \in Interval : Numbers(j))'
BY SpacingReads, PTL

\* The spacing of a job, plan by plan.
Plan(j, n) ==
    n # Never /\ (n = Planned(jobs[j]) \/ \E r \in Replicas : Current(r, j) /\ n = Copy(r, j))
PlanNow(j, n) ==
    n # Never /\ (\/ n = Planned(jobs[j])
                  \/ \E r \in Replicas : Current(r, j) /\ section[r].at = now /\ n = Copy(r, j))
Spaced(j) ==
    /\ \A t \in Enqueued(j) : t <= now
    /\ \A t \in Enqueued(j) : \A n : Plan(j, n) => n = t \/ n >= t + Delay[j]
    /\ \A m, n : PlanNow(j, m) /\ PlanNow(j, n) => m = n \/ now + Delay[j] \in {m, n}
    /\ \A r \in Replicas : Current(r, j) /\ section[r].pc # "save" =>
            \A t \in Enqueued(j) : t <= section[r].at
    /\ \A r \in Replicas : HasCopy(r) /\ valid[r][j] = Ever =>
            \/ Copy(r, j) = Planned(jobs[j])
            \/ section[r].pc = "save" /\ Planned(jobs[j]) \in Enqueued(j) \cup {Never}

LEMMA SpacedPointwise == \A j : SpacedOf(j) <=> Spaced(j)
<1> SUFFICES ASSUME NEW j PROVE SpacedOf(j) <=> Spaced(j)
  OBVIOUS
<1>1. \A n : n \in Plans(j) <=> Plan(j, n)
  BY DEF Plans, PlansOf, Plan, Copy
<1>2. \A n : n \in PlansNow(j) <=> PlanNow(j, n)
  BY DEF PlansNow, PlansOf, PlanNow, Copy
<1> HIDE DEF Plan, PlanNow
<1> QED
  BY <1>1, <1>2 DEF SpacedOf, Spaced, HasCopy, Copy

LEMMA SpacedPointwisePrime == (\A j : SpacedOf(j) <=> Spaced(j))'
BY SpacedPointwise, PTL

\* What a step does to the copies of the other replicas: nothing, or it overtakes them.
OthersKept(r, j) ==
    \A s \in Replicas \ {r} : /\ section'[s] = section[s]
                              /\ valid'[s][j] = IF HasCopy(s) THEN valid[s][j] ELSE Ever
OthersOvertaken(r, j, since) ==
    \A s \in Replicas \ {r} :
        /\ section'[s] = section[s]
        /\ valid'[s][j] = IF HasCopy(s)
                          THEN Earlier(valid[s][j], Earlier(since, section[s].at)) ELSE Ever

\* Touch says which of the two.
LEMMA Touched ==
    ASSUME NEW r \in Replicas, NEW j \in Interval, NEW js, NEW since, Touch(r, js, since),
           \A s \in Replicas \ {r} : section'[s] = section[s]
    PROVE  /\ j \notin js => OthersKept(r, j)
           /\ j \in js => OthersOvertaken(r, j, since) /\ (j \in lost' \/ ~Overtaken(r, j))
           /\ lost \subseteq lost'
           /\ valid'[r][j] = IF HasCopy(r)' THEN valid[r][j] ELSE Ever
BY DEF Touch, OthersKept, OthersOvertaken, HasCopy, AllValid

\* A step that neither enqueues nor plans anew, of a section that ends, begins with the
\* rows of the table, or goes on with its copy.
LEMMA QuietSpacing ==
    ASSUME TypeInv, TypeInv', NEW r \in Replicas, NEW j \in Interval, ValidSince(j),
           UNCHANGED now, OthersKept(r, j), Planned(jobs'[j]) = Planned(jobs[j]),
           Enqueued(j)' = Enqueued(j),
           \/ ~HasCopy(r)' /\ valid'[r][j] = Ever
           \/ HasCopy(r)' /\ valid'[r][j] = Ever /\ section'[r].at = now /\ Copy(r, j)' = Planned(jobs[j])
           \/ /\ HasCopy(r) /\ section[r].pc # "save" /\ HasCopy(r)'
              /\ valid'[r][j] = valid[r][j] /\ Copy(r, j)' = Copy(r, j)
              /\ section'[r].at >= section[r].at
    PROVE  ValidSince(j)' /\ (Spaced(j) => Spaced(j)')
<1>r. Numbers(j) /\ Numbers(j)'
  BY SpacingReads, SpacingReadsPrime
<1>o. \A s \in Replicas \ {r} : /\ HasCopy(s)' = HasCopy(s) /\ Copy(s, j)' = Copy(s, j)
                                /\ Current(s, j)' = Current(s, j)
                                /\ section'[s] = section[s]
                                /\ HasCopy(s) => valid'[s][j] = valid[s][j]
                                /\ ~HasCopy(s) => valid'[s][j] = Ever
  BY DEF OthersKept, HasCopy, Copy, Current, Overtaken
<1>v. ValidSince(j)'
  BY <1>r, <1>o DEF ValidSince, HasCopy, Numbers
<1> SUFFICES ASSUME Spaced(j) PROVE Spaced(j)'
  BY <1>v
<1>c. \A s \in Replicas : Current(s, j) <=> HasCopy(s) /\ valid[s][j] >= now
  BY <1>r DEF Current, HasCopy, Overtaken, Numbers
<1>d. \A s \in Replicas : Current(s, j)' <=> HasCopy(s)' /\ valid'[s][j] >= now
  BY <1>r DEF Current, HasCopy, Overtaken, Numbers
<1>e. \A s \in Replicas : Current(s, j) => valid[s][j] = Ever \/ section[s].at = now
  BY <1>c, <1>r DEF ValidSince, Numbers
<1>p. \A n : Plan(j, n)' => Plan(j, n)
  <2> SUFFICES ASSUME NEW n, Plan(j, n)', n # Planned(jobs[j]),
                      NEW s \in Replicas, Current(s, j)', n = Copy(s, j)'
               PROVE  Plan(j, n)
    BY DEF Plan
  <2>1. n # Never
    BY DEF Plan
  <2>2. CASE s # r
    BY <2>1, <2>2, <1>o DEF Plan
  <2>3. CASE s = r
    <3>1. Current(r, j) /\ n = Copy(r, j)
      BY <2>3, <1>c, <1>d
    <3> QED
      BY <2>1, <3>1 DEF Plan
  <2> QED
    BY <2>2, <2>3
<1>n. \A n : PlanNow(j, n)' => PlanNow(j, n)
  <2> SUFFICES ASSUME NEW n, PlanNow(j, n)', n # Planned(jobs[j]), NEW s \in Replicas,
                      Current(s, j)', section'[s].at = now, n = Copy(s, j)'
               PROVE  PlanNow(j, n)
    BY DEF PlanNow
  <2>1. n # Never
    BY DEF PlanNow
  <2>2. CASE s # r
    BY <2>1, <2>2, <1>o DEF PlanNow
  <2>3. CASE s = r
    <3>1. Current(r, j) /\ n = Copy(r, j) /\ section[r].pc # "save"
      BY <2>3, <1>c, <1>d
    <3>2. valid[r][j] # Ever
      BY <3>1 DEF Spaced, Current, HasCopy
    <3> QED
      BY <2>1, <3>1, <3>2, <1>e DEF PlanNow
  <2> QED
    BY <2>2, <2>3
<1>1. \A t \in Enqueued(j)' : t <= now'
  BY DEF Spaced
<1>2. \A t \in Enqueued(j)' : \A n : Plan(j, n)' => n = t \/ n >= t + Delay[j]
  BY <1>p DEF Spaced
<1>3. \A m, n : PlanNow(j, m)' /\ PlanNow(j, n)' => m = n \/ now' + Delay[j] \in {m, n}
  BY <1>n DEF Spaced
<1>4. \A s \in Replicas : Current(s, j)' /\ section'[s].pc # "save" =>
            \A t \in Enqueued(j)' : t <= section'[s].at
  <2> SUFFICES ASSUME NEW s \in Replicas, Current(s, j)', section'[s].pc # "save",
                      NEW t \in Enqueued(j)
               PROVE  t <= section'[s].at
    OBVIOUS
  <2>1. CASE s # r
    BY <2>1, <1>o DEF Spaced
  <2>2. CASE s = r
    <3>1. CASE section'[r].at = now
      BY <2>2, <3>1 DEF Spaced
    <3>2. CASE section'[r].at # now
      <4>1. Current(r, j) /\ section[r].pc # "save" /\ section'[r].at >= section[r].at
        BY <2>2, <3>2, <1>c, <1>d
      <4>2. t <= section[r].at
        BY <4>1 DEF Spaced
      <4> QED
        BY <2>2, <4>1, <4>2, <1>r DEF Numbers
    <3> QED
      BY <3>1, <3>2
  <2> QED
    BY <2>1, <2>2
<1>5. \A s \in Replicas : HasCopy(s)' /\ valid'[s][j] = Ever =>
            \/ Copy(s, j)' = Planned(jobs'[j])
            \/ section'[s].pc = "save" /\ Planned(jobs'[j]) \in Enqueued(j)' \cup {Never}
  <2> SUFFICES ASSUME NEW s \in Replicas, HasCopy(s)', valid'[s][j] = Ever
               PROVE  \/ Copy(s, j)' = Planned(jobs[j])
                      \/ section'[s].pc = "save" /\ Planned(jobs[j]) \in Enqueued(j) \cup {Never}
    OBVIOUS
  <2>1. CASE s # r
    BY <2>1, <1>o DEF Spaced
  <2>2. CASE s = r
    BY <2>2 DEF Spaced
  <2> QED
    BY <2>1, <2>2
<1> HIDE DEF Plan, PlanNow
<1> QED
  BY <1>1, <1>2, <1>3, <1>4, <1>5 DEF Spaced

\* Copies that are overtaken count on only in the instant in which they were read.
LEMMA OvertakenSpacing ==
    ASSUME NEW r \in Replicas, NEW j \in Interval, Numbers(j), Numbers(j)', ValidSince(j),
           UNCHANGED now, NEW since \in Nat, since <= now, OthersOvertaken(r, j, since)
    PROVE  \A s \in Replicas \ {r} :
              /\ section'[s] = section[s] /\ HasCopy(s)' = HasCopy(s) /\ Copy(s, j)' = Copy(s, j)
              /\ Current(s, j)' => Current(s, j) /\ section[s].at = now /\ since = now
              /\ HasCopy(s) => valid'[s][j] # Ever /\ valid'[s][j] <= section[s].at
              /\ ~HasCopy(s) => valid'[s][j] = Ever
<1> SUFFICES ASSUME NEW s \in Replicas \ {r}
             PROVE  /\ section'[s] = section[s] /\ HasCopy(s)' = HasCopy(s) /\ Copy(s, j)' = Copy(s, j)
                    /\ Current(s, j)' => Current(s, j) /\ section[s].at = now /\ since = now
                    /\ HasCopy(s) => valid'[s][j] # Ever /\ valid'[s][j] <= section[s].at
                    /\ ~HasCopy(s) => valid'[s][j] = Ever
  OBVIOUS
<1>1. /\ section'[s] = section[s] /\ HasCopy(s)' = HasCopy(s) /\ Copy(s, j)' = Copy(s, j)
      /\ ~HasCopy(s) => valid'[s][j] = Ever
  BY DEF OthersOvertaken, HasCopy, Copy
<1>2. /\ now \in Nat /\ Ever \in Nat /\ now < Ever /\ valid[s][j] \in Nat
      /\ section[s].at \in Nat /\ section[s].at <= now
  BY DEF Numbers
<1>3. HasCopy(s) => /\ valid'[s][j] \in Nat /\ valid'[s][j] <= section[s].at
                    /\ valid'[s][j] <= since /\ valid'[s][j] <= valid[s][j]
  BY <1>2 DEF OthersOvertaken, Earlier
<1>4. Current(s, j)' => HasCopy(s) /\ valid'[s][j] >= now
  BY <1>1, <1>2, <1>3 DEF Current, HasCopy, Overtaken
<1>5. HasCopy(s) /\ valid[s][j] >= now => Current(s, j)
  BY <1>2 DEF Current, HasCopy, Overtaken
<1>6. Current(s, j)' => Current(s, j) /\ section[s].at = now /\ since = now
  BY <1>2, <1>3, <1>4, <1>5
<1> QED
  BY <1>1, <1>2, <1>3, <1>6

\* What a copy that is not overtaken plans, the spacing says.
LEMMA CurrentPlans ==
    ASSUME NEW j \in Interval, Numbers(j), NEW r \in Replicas, Current(r, j), ValidSince(j)
    PROVE  /\ Copy(r, j) # Never => Plan(j, Copy(r, j))
           /\ Copy(r, j) # Never /\ section[r].at = now => PlanNow(j, Copy(r, j))
           /\ HasCopy(r) /\ (valid[r][j] = Ever \/ section[r].at = now)
<1>1. HasCopy(r) /\ valid[r][j] >= now
  BY DEF Current, HasCopy, Overtaken, Numbers
<1>2. valid[r][j] = Ever \/ section[r].at = now
  BY <1>1 DEF ValidSince, Numbers
<1> QED
  BY <1>1, <1>2 DEF Plan, PlanNow

\* A section ends and writes another plan: that of its copy, or the next time from a time
\* at which it had the copy.
LEMMA WriteSpacing ==
    ASSUME TypeInv, TypeInv', NEW r \in Replicas, NEW j \in Interval, ValidSince(j),
           UNCHANGED now, OthersOvertaken(r, j, section[r].at), Current(r, j),
           Enqueued(j)' = Enqueued(j), ~HasCopy(r)', valid'[r][j] = Ever,
           \/ Planned(jobs'[j]) = Copy(r, j)
           \/ /\ section[r].pc # "save"
              /\ \E at \in section[r].at..now : Planned(jobs'[j]) = at + Delay[j]
    PROVE  ValidSince(j)' /\ (Spaced(j) => Spaced(j)')
<1> DEFINE w == Planned(jobs'[j])
<1>r. Numbers(j) /\ Numbers(j)'
  BY SpacingReads, SpacingReadsPrime
<1>o. \A s \in Replicas \ {r} :
              /\ section'[s] = section[s] /\ HasCopy(s)' = HasCopy(s) /\ Copy(s, j)' = Copy(s, j)
              /\ Current(s, j)' => Current(s, j) /\ section[s].at = now /\ section[r].at = now
              /\ HasCopy(s) => valid'[s][j] # Ever /\ valid'[s][j] <= section[s].at
              /\ ~HasCopy(s) => valid'[s][j] = Ever
  <2>1. section[r].at \in Nat /\ section[r].at <= now
    BY <1>r DEF Numbers
  <2> QED
    BY <1>r, <2>1, OvertakenSpacing
<1>v. ValidSince(j)'
  BY <1>r, <1>o DEF ValidSince, HasCopy, Numbers
<1> SUFFICES ASSUME Spaced(j) PROVE Spaced(j)'
  BY <1>v
<1>c. /\ Copy(r, j) # Never => Plan(j, Copy(r, j))
      /\ Copy(r, j) # Never /\ section[r].at = now => PlanNow(j, Copy(r, j))
  BY <1>r, CurrentPlans
<1>a. ~Current(r, j)' /\ UNCHANGED now
  BY DEF Current, HasCopy
<1>w. \/ w = Copy(r, j)
      \/ /\ section[r].pc # "save" /\ w >= section[r].at + Delay[j]
         /\ section[r].at = now => w = now + Delay[j]
  BY <1>r DEF Numbers
<1> HIDE DEF w
<1>p. \A n : Plan(j, n)' => n # Never /\ (n = w \/ Plan(j, n))
  BY <1>a, <1>o DEF Plan, w
<1>n. \A n : PlanNow(j, n)' => n # Never /\ (n = w \/ (PlanNow(j, n) /\ section[r].at = now))
  BY <1>a, <1>o DEF PlanNow, w
<1>1. \A t \in Enqueued(j)' : t <= now'
  BY DEF Spaced
<1>2. \A t \in Enqueued(j)' : \A n : Plan(j, n)' => n = t \/ n >= t + Delay[j]
  <2> SUFFICES ASSUME NEW t \in Enqueued(j), NEW n, Plan(j, n)'
               PROVE  n = t \/ n >= t + Delay[j]
    OBVIOUS
  <2>1. CASE Plan(j, n)
    BY <2>1 DEF Spaced
  <2>2. CASE n = w /\ w = Copy(r, j)
    BY <2>2, <1>p, <1>c DEF Spaced
  <2>3. CASE n = w /\ section[r].pc # "save" /\ w >= section[r].at + Delay[j]
    <3>1. t <= section[r].at
      BY <2>3 DEF Spaced
    <3>2. t \in Nat /\ section[r].at \in Nat /\ Delay[j] \in Nat /\ w \in Nat
      BY <1>r DEF Numbers, w
    <3> QED
      BY <2>3, <3>1, <3>2
  <2> QED
    BY <2>1, <2>2, <2>3, <1>p, <1>w
<1>3. \A m, n : PlanNow(j, m)' /\ PlanNow(j, n)' => m = n \/ now' + Delay[j] \in {m, n}
  <2> SUFFICES ASSUME NEW m, NEW n, PlanNow(j, m)', PlanNow(j, n)', m # n
               PROVE  now + Delay[j] \in {m, n}
    OBVIOUS
  <2>1. section[r].at = now
    BY <1>n
  <2>2. w = now + Delay[j] \/ w = Copy(r, j)
    BY <1>w, <2>1
  <2>3. w = now + Delay[j] \/ (PlanNow(j, m) /\ PlanNow(j, n))
    BY <1>n, <1>c, <2>1, <2>2
  <2>4. CASE PlanNow(j, m) /\ PlanNow(j, n)
    BY <2>4 DEF Spaced
  <2>5. CASE w = now + Delay[j] /\ w \in {m, n}
    BY <2>5
  <2> QED
    BY <2>3, <2>4, <2>5, <1>n
<1>4. \A s \in Replicas : Current(s, j)' /\ section'[s].pc # "save" =>
            \A t \in Enqueued(j)' : t <= section'[s].at
  BY <1>a, <1>o DEF Spaced
<1>5. \A s \in Replicas : HasCopy(s)' /\ valid'[s][j] = Ever =>
            \/ Copy(s, j)' = Planned(jobs'[j])
            \/ section'[s].pc = "save" /\ Planned(jobs'[j]) \in Enqueued(j)' \cup {Never}
  BY <1>o
<1> HIDE DEF Plan, PlanNow
<1> QED
  BY <1>1, <1>2, <1>3, <1>4, <1>5 DEF Spaced

\* A section enqueues what its copy plans: the event is the plan of the table or earlier, by
\* an interval or more, and likewise apart from the events there are.
LEMMA EnqueueSpacing ==
    ASSUME TypeInv, TypeInv', NEW r \in Replicas, NEW j \in Interval, ValidSince(j),
           UNCHANGED now, OthersOvertaken(r, j, section[r].at), Current(r, j),
           section[r].pc = "enqueue", Copy(r, j) # Never, Copy(r, j) <= section[r].at,
           Enqueued(j)' = Enqueued(j) \cup {Copy(r, j)}, Planned(jobs'[j]) = Planned(jobs[j]),
           \/ ~HasCopy(r)' /\ valid'[r][j] = Ever
           \/ /\ section'[r].pc = "save" /\ valid'[r][j] = valid[r][j]
              /\ section'[r].at = section[r].at /\ Copy(r, j)' = section[r].at + Delay[j]
    PROVE  /\ ValidSince(j)'
           /\ Spaced(j) =>
                /\ Spaced(j)'
                /\ \A t \in Enqueued(j) : Copy(r, j) = t \/ Copy(r, j) >= t + Delay[j]
<1> DEFINE c == Copy(r, j)
           P == Planned(jobs[j])
           next == section[r].at + Delay[j]
<1>r. Numbers(j) /\ Numbers(j)'
  BY SpacingReads, SpacingReadsPrime
<1>b. /\ now \in Nat /\ section[r].at \in Nat /\ section[r].at <= now /\ Delay[j] \in Nat
      /\ Delay[j] > 0 /\ c \in Nat /\ P \in Nat
  BY <1>r DEF Numbers
<1>o. \A s \in Replicas \ {r} :
              /\ section'[s] = section[s] /\ HasCopy(s)' = HasCopy(s) /\ Copy(s, j)' = Copy(s, j)
              /\ Current(s, j)' => Current(s, j) /\ section[s].at = now /\ section[r].at = now
              /\ HasCopy(s) => valid'[s][j] # Ever /\ valid'[s][j] <= section[s].at
              /\ ~HasCopy(s) => valid'[s][j] = Ever
  BY <1>r, <1>b, OvertakenSpacing
<1>v. ValidSince(j)'
  BY <1>r, <1>o DEF ValidSince, HasCopy, Numbers, WithStore
<1> SUFFICES ASSUME Spaced(j)
             PROVE  Spaced(j)' /\ \A t \in Enqueued(j) : c = t \/ c >= t + Delay[j]
  BY <1>v
<1>c. /\ Plan(j, c) /\ (section[r].at = now => PlanNow(j, c))
      /\ HasCopy(r) /\ (valid[r][j] = Ever \/ section[r].at = now)
  BY <1>r, CurrentPlans
<1>a. Current(r, j)' => section'[r].pc = "save" /\ Copy(r, j)' = next /\ section'[r].at = section[r].at
  BY DEF Current, HasCopy
<1>e. valid[r][j] = Ever => c = P
  BY <1>c DEF Spaced
<1> HIDE DEF P, next
<1>p. \A n : Plan(j, n)' => n # Never /\ (n = next \/ n = P \/ (PlanNow(j, n) /\ section[r].at = now))
  BY <1>a, <1>o DEF Plan, PlanNow, P
<1>q. \A n : Plan(j, n)' => n = next \/ Plan(j, n)
  BY <1>a, <1>o DEF Plan, P
<1>n. \A n : PlanNow(j, n)' => n # Never /\ (PlanNow(j, n) \/ n = now + Delay[j])
  BY <1>a, <1>o DEF PlanNow, next
<1>s. P # Never => PlanNow(j, P)
  BY DEF PlanNow, P
<1>t. \A t \in Enqueued(j) : t \in Nat /\ t <= section[r].at
  BY <1>r DEF Spaced, Numbers
<1>1. \A t \in Enqueued(j)' : t <= now'
  BY <1>b, <1>t
<1>2. \A t \in Enqueued(j)' : \A n : Plan(j, n)' => n = t \/ n >= t + Delay[j]
  <2> SUFFICES ASSUME NEW t \in Enqueued(j) \cup {c}, NEW n, Plan(j, n)'
               PROVE  n = t \/ n >= t + Delay[j]
    OBVIOUS
  <2>1. CASE n = next
    BY <2>1, <1>b, <1>t DEF next
  <2>2. CASE t \in Enqueued(j) /\ n # next
    BY <2>2, <1>q DEF Spaced
  <2>3. CASE t = c /\ section[r].at = now /\ PlanNow(j, n)
    <3>1. c = n \/ now + Delay[j] \in {c, n}
      BY <2>3, <1>c DEF Spaced
    <3>2. c # now + Delay[j]
      BY <1>b
    <3>3. n = now + Delay[j] => n >= c + Delay[j]
      BY <1>b
    <3> QED
      BY <2>3, <3>1, <3>2, <3>3
  <2>4. CASE t = c /\ n = P
    <3>1. CASE valid[r][j] = Ever
      BY <2>4, <3>1, <1>e
    <3>2. CASE section[r].at = now
      BY <2>3, <2>4, <3>2, <1>p, <1>s
    <3> QED
      BY <3>1, <3>2, <1>c
  <2> QED
    BY <2>1, <2>2, <2>3, <2>4, <1>p
<1>3. \A m, n : PlanNow(j, m)' /\ PlanNow(j, n)' => m = n \/ now' + Delay[j] \in {m, n}
  BY <1>n DEF Spaced
<1>4. \A s \in Replicas : Current(s, j)' /\ section'[s].pc # "save" =>
            \A t \in Enqueued(j)' : t <= section'[s].at
  <2> SUFFICES ASSUME NEW s \in Replicas, Current(s, j)', section'[s].pc # "save",
                      NEW t \in Enqueued(j) \cup {c}
               PROVE  t <= section'[s].at
    OBVIOUS
  <2>1. s # r
    BY <1>a
  <2>2. section'[s].at = now
    BY <2>1, <1>o
  <2> QED
    BY <2>2, <1>b, <1>t
<1>5. \A s \in Replicas : HasCopy(s)' /\ valid'[s][j] = Ever =>
            \/ Copy(s, j)' = Planned(jobs'[j])
            \/ section'[s].pc = "save" /\ Planned(jobs'[j]) \in Enqueued(j)' \cup {Never}
  <2> SUFFICES ASSUME NEW s \in Replicas, HasCopy(s)', valid'[s][j] = Ever
               PROVE  section'[s].pc = "save" /\ P \in Enqueued(j) \cup {c}
    BY DEF P
  <2>1. s = r
    BY <1>o
  <2>2. section'[r].pc = "save" /\ valid[r][j] = Ever
    BY <2>1
  <2> QED
    BY <2>1, <2>2, <1>e
<1>6. \A t \in Enqueued(j) : c = t \/ c >= t + Delay[j]
  BY <1>c DEF Spaced
<1> HIDE DEF Plan, PlanNow
<1> QED
  BY <1>1, <1>2, <1>3, <1>4, <1>5, <1>6 DEF Spaced

\* A job is deleted, with some of its events.
LEMMA RemoveSpacing ==
    ASSUME TypeInv, TypeInv', NEW r \in Replicas, NEW j \in Interval, ValidSince(j),
           UNCHANGED now, OthersOvertaken(r, j, now), valid'[r][j] = Ever,
           Enqueued(j)' \subseteq Enqueued(j), Planned(jobs'[j]) = Never,
           ~HasCopy(r)' \/ (section'[r].pc = "save" /\ Copy(r, j)' = Never)
    PROVE  ValidSince(j)' /\ (Spaced(j) => Spaced(j)')
<1>r. Numbers(j) /\ Numbers(j)'
  BY SpacingReads, SpacingReadsPrime
<1>o. \A s \in Replicas \ {r} :
              /\ section'[s] = section[s] /\ HasCopy(s)' = HasCopy(s) /\ Copy(s, j)' = Copy(s, j)
              /\ Current(s, j)' => Current(s, j) /\ section[s].at = now /\ now = now
              /\ HasCopy(s) => valid'[s][j] # Ever /\ valid'[s][j] <= section[s].at
              /\ ~HasCopy(s) => valid'[s][j] = Ever
  <2>1. now \in Nat /\ now <= now
    BY <1>r DEF Numbers
  <2> QED
    BY <1>r, <2>1, OvertakenSpacing
<1>v. ValidSince(j)'
  BY <1>r, <1>o DEF ValidSince, HasCopy, Numbers
<1> SUFFICES ASSUME Spaced(j) PROVE Spaced(j)'
  BY <1>v
<1>a. Current(r, j)' => section'[r].pc = "save" /\ Copy(r, j)' = Never
  BY DEF Current, HasCopy
<1>p. \A n : Plan(j, n)' => Plan(j, n)
  BY <1>a, <1>o DEF Plan
<1>n. \A n : PlanNow(j, n)' => PlanNow(j, n)
  BY <1>a, <1>o DEF PlanNow
<1>1. \A t \in Enqueued(j)' : t <= now'
  BY DEF Spaced
<1>2. \A t \in Enqueued(j)' : \A n : Plan(j, n)' => n = t \/ n >= t + Delay[j]
  BY <1>p DEF Spaced
<1>3. \A m, n : PlanNow(j, m)' /\ PlanNow(j, n)' => m = n \/ now' + Delay[j] \in {m, n}
  BY <1>n DEF Spaced
<1>4. \A s \in Replicas : Current(s, j)' /\ section'[s].pc # "save" =>
            \A t \in Enqueued(j)' : t <= section'[s].at
  BY <1>a, <1>o DEF Spaced
<1>5. \A s \in Replicas : HasCopy(s)' /\ valid'[s][j] = Ever =>
            \/ Copy(s, j)' = Planned(jobs'[j])
            \/ section'[s].pc = "save" /\ Planned(jobs'[j]) \in Enqueued(j)' \cup {Never}
  BY <1>o
<1> HIDE DEF Plan, PlanNow
<1> QED
  BY <1>1, <1>2, <1>3, <1>4, <1>5 DEF Spaced

\* A job is added, in the memory of one replica: its first time is an interval from now.
LEMMA AddSpacing ==
    ASSUME TypeInv, TypeInv', NEW r \in Replicas, NEW j \in Interval, ValidSince(j),
           UNCHANGED now, OthersKept(r, j), Planned(jobs[j]) = Never, UNCHANGED jobs,
           Enqueued(j)' = Enqueued(j), section'[r].pc = "save", valid'[r][j] = Ever,
           section'[r].at = now, Copy(r, j)' = now + Delay[j]
    PROVE  ValidSince(j)' /\ (Spaced(j) => Spaced(j)')
<1>r. Numbers(j) /\ Numbers(j)'
  BY SpacingReads, SpacingReadsPrime
<1>o. \A s \in Replicas \ {r} : /\ HasCopy(s)' = HasCopy(s) /\ Copy(s, j)' = Copy(s, j)
                                /\ Current(s, j)' = Current(s, j)
                                /\ section'[s] = section[s]
                                /\ HasCopy(s) => valid'[s][j] = valid[s][j]
                                /\ ~HasCopy(s) => valid'[s][j] = Ever
  BY DEF OthersKept, HasCopy, Copy, Current, Overtaken
<1>v. ValidSince(j)'
  BY <1>r, <1>o DEF ValidSince, HasCopy, Numbers
<1> SUFFICES ASSUME Spaced(j) PROVE Spaced(j)'
  BY <1>v
<1>p. \A n : Plan(j, n)' => n = now + Delay[j] \/ Plan(j, n)
  BY <1>o DEF Plan
<1>n. \A n : PlanNow(j, n)' => n = now + Delay[j] \/ PlanNow(j, n)
  BY <1>o DEF PlanNow
<1>1. \A t \in Enqueued(j)' : t <= now'
  BY DEF Spaced
<1>2. \A t \in Enqueued(j)' : \A n : Plan(j, n)' => n = t \/ n >= t + Delay[j]
  <2> SUFFICES ASSUME NEW t \in Enqueued(j), NEW n, Plan(j, n)'
               PROVE  n = t \/ n >= t + Delay[j]
    OBVIOUS
  <2>1. CASE n = now + Delay[j]
    <3>1. t <= now /\ t \in Nat /\ now \in Nat /\ Delay[j] \in Nat
      BY <1>r DEF Spaced, Numbers
    <3> QED
      BY <2>1, <3>1
  <2>2. CASE Plan(j, n)
    BY <2>2 DEF Spaced
  <2> QED
    BY <2>1, <2>2, <1>p
<1>3. \A m, n : PlanNow(j, m)' /\ PlanNow(j, n)' => m = n \/ now' + Delay[j] \in {m, n}
  BY <1>n DEF Spaced
<1>4. \A s \in Replicas : Current(s, j)' /\ section'[s].pc # "save" =>
            \A t \in Enqueued(j)' : t <= section'[s].at
  BY <1>o DEF Spaced
<1>5. \A s \in Replicas : HasCopy(s)' /\ valid'[s][j] = Ever =>
            \/ Copy(s, j)' = Planned(jobs'[j])
            \/ section'[s].pc = "save" /\ Planned(jobs'[j]) \in Enqueued(j)' \cup {Never}
  BY <1>o DEF Spaced
<1> HIDE DEF Plan, PlanNow
<1> QED
  BY <1>1, <1>2, <1>3, <1>4, <1>5 DEF Spaced

\* Time leaves only the copies that nobody has overtaken.
LEMMA TickSpacing ==
    ASSUME TypeInv, TypeInv', NEW j \in Interval, ValidSince(j), Tick
    PROVE  ValidSince(j)' /\ (Spaced(j) => Spaced(j)')
<1>r. Numbers(j) /\ Numbers(j)'
  BY SpacingReads, SpacingReadsPrime
<1>u. now' = now + 1 /\ UNCHANGED <<section, valid, jobs, events>>
  BY DEF Tick
<1>o. /\ Enqueued(j)' = Enqueued(j) /\ ValidSince(j)' = ValidSince(j)
      /\ \A s \in Replicas : HasCopy(s)' = HasCopy(s) /\ Copy(s, j)' = Copy(s, j)
  BY <1>u DEF Enqueued, HasCopy, Copy, ValidSince
<1>c. \A s \in Replicas : Current(s, j)' => Current(s, j) /\ section'[s].at # now'
  BY <1>r, <1>u DEF Current, Overtaken, Numbers
<1> SUFFICES ASSUME Spaced(j) PROVE Spaced(j)'
  BY <1>o
<1>p. \A n : Plan(j, n)' => Plan(j, n)
  BY <1>u, <1>o, <1>c DEF Plan
<1>n. \A n : PlanNow(j, n)' => n = Planned(jobs[j])
  BY <1>u, <1>o, <1>c DEF PlanNow
<1>1. \A t \in Enqueued(j)' : t <= now'
  BY <1>r, <1>u, <1>o DEF Spaced, Numbers
<1>2. \A t \in Enqueued(j)' : \A n : Plan(j, n)' => n = t \/ n >= t + Delay[j]
  BY <1>p, <1>o DEF Spaced
<1>3. \A m, n : PlanNow(j, m)' /\ PlanNow(j, n)' => m = n \/ now' + Delay[j] \in {m, n}
  BY <1>n
<1>4. \A s \in Replicas : Current(s, j)' /\ section'[s].pc # "save" =>
            \A t \in Enqueued(j)' : t <= section'[s].at
  BY <1>u, <1>o, <1>c DEF Spaced
<1>5. \A s \in Replicas : HasCopy(s)' /\ valid'[s][j] = Ever =>
            \/ Copy(s, j)' = Planned(jobs'[j])
            \/ section'[s].pc = "save" /\ Planned(jobs'[j]) \in Enqueued(j)' \cup {Never}
  BY <1>u, <1>o DEF Spaced
<1> HIDE DEF Plan, PlanNow
<1> QED
  BY <1>1, <1>2, <1>3, <1>4, <1>5 DEF Spaced

\* What a step has to keep of a job's spacing.
Kept(j) == \A t, u \in Enqueued(j) : t < u => u - t >= Delay[j]
Keeps(j) ==
    /\ ValidSince(j)' /\ lost \subseteq lost'
    /\ j \notin lost' /\ Spaced(j) /\ Kept(j) => Spaced(j)' /\ Kept(j)'

LEMMA QuietKeeps ==
    ASSUME NEW j, Enqueued(j)' \subseteq Enqueued(j), lost \subseteq lost',
           ValidSince(j)' /\ (j \notin lost' /\ Spaced(j) => Spaced(j)')
    PROVE  Keeps(j)
BY DEF Keeps, Kept

\* The section of one replica, whatever it does.
LEMMA SectionFrame ==
    ASSUME TypeInv, NEW r \in Replicas
    PROVE  /\ \A pc, store : Begin(r, pc, store) =>
                /\ section'[r] = [pc |-> pc, store |-> store, at |-> now]
                /\ \A s \in Replicas \ {r} : section'[s] = section[s]
           /\ \A pc : GoOn(r, pc) =>
                /\ section'[r].pc = pc /\ \A s \in Replicas \ {r} : section'[s] = section[s]
           /\ End(r) \/ Leave(r) =>
                /\ section'[r].pc = "idle" /\ \A s \in Replicas \ {r} : section'[s] = section[s]
<1>1. section \in [Replicas -> Section]
  BY DEF TypeInv, TypeOK
<1>2. \A pc, store : Begin(r, pc, store) =>
                /\ section'[r] = [pc |-> pc, store |-> store, at |-> now]
                /\ \A s \in Replicas \ {r} : section'[s] = section[s]
  BY <1>1 DEF Begin
<1>3. \A pc : GoOn(r, pc) =>
                /\ section'[r].pc = pc /\ \A s \in Replicas \ {r} : section'[s] = section[s]
  BY <1>1 DEF GoOn, Idle
<1> QED
  BY <1>2, <1>3 DEF End, Leave

\* Without a copy nothing can be overtaken, and what is not touched is kept.
LEMMA Untouched ==
    ASSUME NEW j \in Interval, NEW r \in Replicas, ValidSince(j), UNCHANGED <<valid, lost>>,
           \A s \in Replicas \ {r} : section'[s] = section[s], ~HasCopy(r)
    PROVE  OthersKept(r, j) /\ valid'[r][j] = Ever
BY DEF ValidSince, OthersKept, HasCopy

\* A section begins with the rows of the table, as far as the job is concerned.
LEMMA LoadKeeps ==
    ASSUME TypeInv, TypeInv', NEW r \in Replicas, NEW j \in Interval, ValidSince(j),
           ~HasCopy(r), NEW pc \in WithStore, NEW store, Begin(r, pc, store), UNCHANGED now,
           Planned(store[j]) = Planned(jobs[j]), Planned(jobs'[j]) = Planned(jobs[j]),
           Enqueued(j)' = Enqueued(j),
           \/ UNCHANGED <<valid, lost>>
           \/ \E js, since : j \notin js /\ Touch(r, js, since)
    PROVE  Keeps(j)
<1>1. /\ section'[r] = [pc |-> pc, store |-> store, at |-> now]
      /\ \A s \in Replicas \ {r} : section'[s] = section[s]
  BY SectionFrame
<1>2. HasCopy(r)' /\ section'[r].at = now /\ Copy(r, j)' = Planned(jobs[j])
  BY <1>1 DEF HasCopy, Copy
<1>3. valid[r][j] = Ever
  BY DEF ValidSince, HasCopy
<1>4. OthersKept(r, j) /\ valid'[r][j] = Ever /\ lost \subseteq lost'
  <2>1. CASE UNCHANGED <<valid, lost>>
    BY <2>1, <1>1, Untouched
  <2>2. CASE \E js, since : j \notin js /\ Touch(r, js, since)
    BY <2>2, <1>1, <1>2, <1>3, Touched
  <2> QED
    BY <2>1, <2>2
<1>5. ValidSince(j)' /\ (Spaced(j) => Spaced(j)')
  BY <1>2, <1>4, QuietSpacing
<1> QED
  BY <1>4, <1>5, QuietKeeps

\* A section ends, or there was none.
LEMMA EndKeeps ==
    ASSUME TypeInv, TypeInv', NEW r \in Replicas, NEW j \in Interval, ValidSince(j),
           ~HasCopy(r)', \A s \in Replicas \ {r} : section'[s] = section[s], UNCHANGED now,
           Planned(jobs'[j]) = Planned(jobs[j]), Enqueued(j)' = Enqueued(j),
           \/ UNCHANGED <<valid, lost>> /\ ~HasCopy(r)
           \/ \E js, since : j \notin js /\ Touch(r, js, since)
    PROVE  Keeps(j)
<1>1. OthersKept(r, j) /\ valid'[r][j] = Ever /\ lost \subseteq lost'
  <2>1. CASE UNCHANGED <<valid, lost>> /\ ~HasCopy(r)
    BY <2>1, Untouched
  <2>2. CASE \E js, since : j \notin js /\ Touch(r, js, since)
    BY <2>2, Touched
  <2> QED
    BY <2>1, <2>2
<1>2. ValidSince(j)' /\ (Spaced(j) => Spaced(j)')
  BY <1>1, QuietSpacing
<1> QED
  BY <1>1, <1>2, QuietKeeps

\* Rows of a store are written that plans what the copy does, or the next time.
LEMMA WriteKeeps ==
    ASSUME TypeInv, TypeInv', NEW r \in Replicas, NEW j \in Interval, ValidSince(j),
           ~HasCopy(r)', \A s \in Replicas \ {r} : section'[s] = section[s],
           UNCHANGED <<now, events>>, NEW store, NEW some, Write(r, store, some),
           \/ Planned(store[j]) = Copy(r, j)
           \/ /\ section[r].pc # "save"
              /\ \E at \in section[r].at..now : Planned(store[j]) = at + Delay[j],
           HasCopy(r)
    PROVE  Keeps(j)
<1>1. Enqueued(j)' = Enqueued(j) /\ j \in Jobs
  BY SpacingReads DEF Enqueued, Numbers
<1>2. jobs'[j] = store[j] \/ jobs'[j] = jobs[j]
  BY <1>1 DEF Write, Saved
<1> DEFINE js == {i \in Interval : Planned(Saved(store, some)[i]) # Planned(jobs[i])}
<1>3. Touch(r, js, section[r].at) /\ (j \in js <=> Planned(jobs'[j]) # Planned(jobs[j]))
  BY DEF Write
<1> HIDE DEF js
<1>4. CASE j \notin js
  BY <1>1, <1>3, <1>4, EndKeeps
<1>5. CASE j \in js
  <2>1. /\ OthersOvertaken(r, j, section[r].at) /\ (j \in lost' \/ ~Overtaken(r, j))
        /\ lost \subseteq lost' /\ valid'[r][j] = Ever
    BY <1>3, <1>5, Touched
  <2>2. \/ Planned(jobs'[j]) = Copy(r, j)
        \/ /\ section[r].pc # "save"
           /\ \E at \in section[r].at..now : Planned(jobs'[j]) = at + Delay[j]
    BY <1>2, <1>3, <1>5
  <2>3. ValidSince(j)'
    <3>1. section[r].at \in Nat /\ section[r].at <= now /\ Numbers(j) /\ Numbers(j)'
      BY SpacingReads, SpacingReadsPrime DEF Numbers
    <3>2. \A s \in Replicas \ {r} :
            /\ section'[s] = section[s]
            /\ HasCopy(s) => valid'[s][j] # Ever /\ valid'[s][j] <= section[s].at
            /\ ~HasCopy(s) => valid'[s][j] = Ever
      BY <2>1, <3>1, OvertakenSpacing
    <3> QED
      BY <2>1, <3>2 DEF ValidSince, HasCopy
  <2>4. j \notin lost' /\ Spaced(j) => Spaced(j)'
    <3> SUFFICES ASSUME j \notin lost', Spaced(j) PROVE Spaced(j)'
      OBVIOUS
    <3>1. Current(r, j)
      BY <2>1 DEF Current, HasCopy
    <3> QED
      BY <1>1, <2>1, <2>2, <3>1, WriteSpacing
  <2> QED
    BY <1>1, <2>1, <2>3, <2>4, QuietKeeps
<1> QED
  BY <1>4, <1>5

\* Overtaken copies are overtaken since their section read them, or longer.
LEMMA TouchedSince ==
    ASSUME TypeInv, TypeInv', NEW r \in Replicas, NEW j \in Interval, ValidSince(j),
           NEW js, NEW since \in Nat, since <= now, Touch(r, js, since), UNCHANGED now,
           \A s \in Replicas \ {r} : section'[s] = section[s],
           HasCopy(r)' /\ HasCopy(r) => section'[r].at = section[r].at
    PROVE  ValidSince(j)'
<1>1. Numbers(j) /\ Numbers(j)'
  BY SpacingReads, SpacingReadsPrime
<1>2. valid'[r][j] # Ever => HasCopy(r)' /\ HasCopy(r) /\ valid'[r][j] = valid[r][j]
  BY Touched DEF ValidSince, HasCopy
<1>3. valid'[r][j] # Ever => HasCopy(r)' /\ valid'[r][j] <= section'[r].at
  BY <1>2 DEF ValidSince
<1>4. \A s \in Replicas \ {r} : valid'[s][j] # Ever => HasCopy(s)' /\ valid'[s][j] <= section'[s].at
  <2>1. CASE j \in js
    <3>1. OthersOvertaken(r, j, since)
      BY <2>1, Touched
    <3> QED
      BY <1>1, <3>1, OvertakenSpacing
  <2>2. CASE j \notin js
    <3>1. OthersKept(r, j)
      BY <2>2, Touched
    <3> QED
      BY <3>1 DEF OthersKept, ValidSince, HasCopy
  <2> QED
    BY <2>1, <2>2
<1> QED
  BY <1>3, <1>4 DEF ValidSince, HasCopy

\* The events that a section makes of a job.
LEMMA MadeEvents ==
    ASSUME TypeInv, NEW r \in Replicas, NEW j \in Interval, NEW some, MakeEvents(r, some)
    PROVE  LET due == DueJobs(section[r].store, section[r].at) \cap some IN
           /\ Touch(r, due \cap Interval, section[r].at)
           /\ j \notin due => Enqueued(j)' = Enqueued(j)
           /\ j \in due => /\ Enqueued(j)' = Enqueued(j) \cup {Copy(r, j)}
                           /\ Copy(r, j) # Never /\ Copy(r, j) <= section[r].at
                           /\ section[r].store[j].on
<1> DEFINE store == section[r].store
           due == DueJobs(store, section[r].at) \cap some
           keys == {<<i, store[i].next>> : i \in due}
<1>1. /\ Touch(r, due \cap Interval, section[r].at)
      /\ events' = [o \in Occurrence |->
                    IF o \in keys /\ events[o].status = "none"
                    THEN [NoEvent EXCEPT !.status = "pending", !.due = o[2]]
                    ELSE events[o]]
  BY DEF MakeEvents
<1>2. Numbers(j)
  BY SpacingReads
<1>3. \A t \in Times : <<j, t>> \in keys <=> j \in due /\ t = store[j].next
  OBVIOUS
<1>4. \A t \in Times : <<j, t>> \in Occurrence
  BY <1>2 DEF Occurrence, Numbers
<1>5. j \in due => /\ store[j].on /\ store[j].next # Never /\ store[j].next <= section[r].at
                   /\ Copy(r, j) = store[j].next
  BY DEF DueJobs, Copy, Planned
<1> HIDE DEF keys, due, store
<1>6. \A t \in Times : events'[<<j, t>>].status # "none" <=>
                        events[<<j, t>>].status # "none" \/ (j \in due /\ t = store[j].next)
  BY <1>1, <1>3, <1>4 DEF NoEvent
<1>7. j \notin due => Enqueued(j)' = Enqueued(j)
  BY <1>6 DEF Enqueued
<1>8. j \in due => Enqueued(j)' = Enqueued(j) \cup {Copy(r, j)}
  <2> SUFFICES ASSUME j \in due PROVE Enqueued(j)' = Enqueued(j) \cup {Copy(r, j)}
    OBVIOUS
  <2>1. Copy(r, j) \in Times
    <3>1. now \in 1..MaxTime /\ MaxTime \in Nat
      BY Reads DEF TypeInv, TypeOK, Times
    <3>2. Copy(r, j) \in Nat /\ Copy(r, j) # 0 /\ Copy(r, j) <= section[r].at
          /\ section[r].at <= now /\ section[r].at \in Nat
      BY <1>2, <1>5 DEF Numbers, Never
    <3> QED
      BY <3>1, <3>2 DEF Times
  <2>2. \A t \in Times : events'[<<j, t>>].status # "none" <=>
                          events[<<j, t>>].status # "none" \/ t = Copy(r, j)
    BY <1>5, <1>6
  <2> QED
    BY <2>1, <2>2 DEF Enqueued
<1> QED
  BY <1>1, <1>5, <1>7, <1>8 DEF due, store

LEMMA EnqueueKeeps ==
    ASSUME TypeInv, TypeInv', NEW r \in Replicas, NEW j \in Interval, ValidSince(j),
           Enqueue(r) \/ EnqueueFails(r)
    PROVE  Keeps(j)
<1>1. /\ section[r].pc = "enqueue" /\ UNCHANGED <<now, jobs>> /\ HasCopy(r)
      /\ section \in [Replicas -> Section]
  BY DEF Enqueue, EnqueueFails, HasCopy, WithStore, TypeInv, TypeOK
<1>2. PICK some : MakeEvents(r, some) /\ (Enqueue(r) => some = Jobs)
  BY DEF Enqueue, EnqueueFails
<1> DEFINE due == DueJobs(section[r].store, section[r].at) \cap some
<1>3. /\ Touch(r, due \cap Interval, section[r].at)
      /\ j \notin due => Enqueued(j)' = Enqueued(j)
      /\ j \in due => /\ Enqueued(j)' = Enqueued(j) \cup {Copy(r, j)}
                      /\ Copy(r, j) # Never /\ Copy(r, j) <= section[r].at
                      /\ section[r].store[j].on
  BY <1>2, MadeEvents
<1>r. Numbers(j) /\ Numbers(j)'
  BY SpacingReads, SpacingReadsPrime
<1>4. /\ \A s \in Replicas \ {r} : section'[s] = section[s]
      /\ \/ ~HasCopy(r)' /\ EnqueueFails(r)
         \/ /\ Enqueue(r) /\ HasCopy(r)' /\ section'[r].pc = "save" /\ section'[r].at = section[r].at
            /\ section'[r].store = MovedOn(section[r].store, section[r].at)
  <2>1. CASE Enqueue(r)
    BY <1>1, <2>1 DEF Enqueue, HasCopy, WithStore, Section
  <2>2. CASE EnqueueFails(r)
    BY <2>2, SectionFrame DEF EnqueueFails, HasCopy, WithStore
  <2> QED
    BY <2>1, <2>2
<1>5. HasCopy(r)' =>
        Copy(r, j)' = IF j \in due THEN section[r].at + Delay[j] ELSE Copy(r, j)
  <2> SUFFICES ASSUME HasCopy(r)'
      PROVE  Copy(r, j)' = IF j \in due THEN section[r].at + Delay[j] ELSE Copy(r, j)
    OBVIOUS
  <2>1. /\ section'[r].store = MovedOn(section[r].store, section[r].at) /\ some = Jobs
        /\ j \in Jobs /\ j \notin OneShot /\ section[r].store[j] \in Row
    BY <1>2, <1>4, <1>r DEF Numbers
  <2>2. CASE j \in due
    <3>1. section'[r].store[j] =
            [section[r].store[j] EXCEPT !.next = section[r].at + Delay[j]]
      BY <2>1, <2>2 DEF MovedOn, NextRun
    <3> QED
      BY <1>3, <2>1, <2>2, <3>1 DEF Copy, Planned, Row
  <2>3. CASE j \notin due
    BY <2>1, <2>3 DEF MovedOn, Copy
  <2> QED
    BY <2>2, <2>3
<1>6. ValidSince(j)'
  <2>1. section[r].at \in Nat /\ section[r].at <= now
    BY <1>r DEF Numbers
  <2> QED
    BY <1>1, <1>3, <1>4, <2>1, TouchedSince
<1>7. lost \subseteq lost' /\ valid'[r][j] = IF HasCopy(r)' THEN valid[r][j] ELSE Ever
  BY <1>3, <1>4, Touched
<1>8. CASE j \notin due
  <2>1. OthersKept(r, j)
    BY <1>3, <1>4, <1>8, Touched
  <2>2. \/ ~HasCopy(r)' /\ valid'[r][j] = Ever
        \/ /\ HasCopy(r) /\ section[r].pc # "save" /\ HasCopy(r)'
           /\ valid'[r][j] = valid[r][j] /\ Copy(r, j)' = Copy(r, j)
           /\ section'[r].at >= section[r].at
    BY <1>1, <1>4, <1>5, <1>7, <1>8, <1>r DEF Numbers
  <2>3. ValidSince(j)' /\ (Spaced(j) => Spaced(j)')
    BY <1>1, <1>3, <1>8, <2>1, <2>2, QuietSpacing
  <2> QED
    BY <1>3, <1>7, <1>8, <2>3, QuietKeeps
<1>9. CASE j \in due
  <2>1. OthersOvertaken(r, j, section[r].at) /\ (j \in lost' \/ ~Overtaken(r, j))
    BY <1>3, <1>4, <1>9, Touched
  <2> SUFFICES ASSUME j \notin lost', Spaced(j), Kept(j) PROVE Spaced(j)' /\ Kept(j)'
    BY <1>6, <1>7 DEF Keeps
  <2>2. Current(r, j)
    BY <1>1, <2>1 DEF Current, HasCopy
  <2>3. /\ Spaced(j)'
        /\ \A t \in Enqueued(j) : Copy(r, j) = t \/ Copy(r, j) >= t + Delay[j]
    <3>1. \/ ~HasCopy(r)' /\ valid'[r][j] = Ever
          \/ /\ section'[r].pc = "save" /\ valid'[r][j] = valid[r][j]
             /\ section'[r].at = section[r].at /\ Copy(r, j)' = section[r].at + Delay[j]
      BY <1>4, <1>5, <1>7, <1>9
    <3> HIDE DEF due
    <3> QED
      BY <1>1, <1>3, <1>9, <2>1, <2>2, <3>1, EnqueueSpacing
  <2>4. Kept(j)'
    <3> SUFFICES ASSUME NEW t \in Enqueued(j) \cup {Copy(r, j)},
                        NEW u \in Enqueued(j) \cup {Copy(r, j)}, t < u
                 PROVE  u - t >= Delay[j]
      BY <1>3, <1>9 DEF Kept
    <3>1. /\ Enqueued(j) \subseteq Nat /\ Copy(r, j) \in Nat /\ Delay[j] \in Nat
          /\ Delay[j] > 0
      BY <1>r DEF Numbers
    <3>2. CASE t \in Enqueued(j) /\ u \in Enqueued(j)
      BY <3>2 DEF Kept
    <3>3. CASE t \in Enqueued(j) /\ u = Copy(r, j)
      <4>1. u >= t + Delay[j] /\ t \in Nat /\ u \in Nat
        BY <2>3, <3>1, <3>3
      <4> QED
        BY <3>1, <4>1
    <3>4. CASE t = Copy(r, j) /\ u \in Enqueued(j)
      <4>1. (t = u \/ t >= u + Delay[j]) /\ t \in Nat /\ u \in Nat
        BY <2>3, <3>1, <3>4
      <4> QED
        BY <3>1, <4>1
    <3>5. CASE t = Copy(r, j) /\ u = Copy(r, j)
      BY <3>1, <3>5
    <3> QED
      BY <3>2, <3>3, <3>4, <3>5
  <2> QED
    BY <2>3, <2>4
<1> QED
  BY <1>8, <1>9

\* What a save writes for an interval job: the plan of the copy or, when a replica
\* starts, the next time.
LEMMA UpToDatePlans ==
    ASSUME TypeInv, NEW r \in Replicas, NEW j \in Interval, NEW at \in section[r].at..now
    PROVE  \/ Planned(UpToDate(r, at)[j]) = Copy(r, j)
           \/ /\ section[r].pc = "start"
              /\ Planned(UpToDate(r, at)[j]) = at + Delay[j]
<1> DEFINE store == section[r].store
<1>1. Numbers(j) /\ j \in Jobs /\ j \notin OneShot /\ store[j] \in Row
  BY SpacingReads DEF Numbers
<1>2. \A any : Reconciled(any, at)[j] = any[j]
  BY <1>1 DEF Reconciled, Missed
<1>3. /\ store[j].on => Recomputed(store, at)[j] = [store[j] EXCEPT !.next = at + Delay[j]]
      /\ ~store[j].on => Recomputed(store, at)[j] = store[j]
  BY <1>1 DEF Recomputed, NextRun
<1>4. section[r].pc # "start" => UpToDate(r, at)[j] = store[j]
  BY <1>2 DEF UpToDate
<1>5. section[r].pc = "start" => UpToDate(r, at)[j] = Recomputed(store, at)[j]
  BY <1>2 DEF UpToDate
<1>6. ASSUME store[j].on
      PROVE  Planned([store[j] EXCEPT !.next = at + Delay[j]]) = at + Delay[j]
  BY <1>1, <1>6 DEF Planned, Row
<1> QED
  BY <1>3, <1>4, <1>5, <1>6 DEF Copy

\* A section that ends, or goes on without a store.
LEMMA Drops ==
    ASSUME TypeInv, NEW r \in Replicas,
           \/ \E pc \in {"idle", "down", "record", "complete"} : GoOn(r, pc)
           \/ End(r) \/ Leave(r) \/ Begin(r, "lock", NoRows)
    PROVE  ~HasCopy(r)' /\ \A s \in Replicas \ {r} : section'[s] = section[s]
<1>1. /\ section'[r].pc \in {"idle", "down", "record", "complete", "lock"}
      /\ \A s \in Replicas \ {r} : section'[s] = section[s]
  <2>1. CASE \E pc \in {"idle", "down", "record", "complete"} : GoOn(r, pc)
    BY <2>1, SectionFrame
  <2>2. CASE End(r) \/ Leave(r)
    BY <2>2, SectionFrame
  <2>3. CASE Begin(r, "lock", NoRows)
    <3>1. /\ section'[r] = [pc |-> "lock", store |-> NoRows, at |-> now]
          /\ \A s \in Replicas \ {r} : section'[s] = section[s]
      BY <2>3, SectionFrame
    <3> QED
      BY <3>1
  <2> QED
    BY <2>1, <2>2, <2>3
<1> QED
  BY <1>1 DEF HasCopy, WithStore

LEMMA SavesKeep ==
    ASSUME TypeInv, TypeInv', NEW r \in Replicas, NEW j \in Interval, ValidSince(j),
           \/ \E at \in section[r].at..now : SaveAndArm(r, at) \/ SaveFails(r, at) \/ SaveList(r, at)
           \/ SaveRun(r) \/ SaveRunFails(r)
    PROVE  Keeps(j)
<1>1. ASSUME NEW at \in section[r].at..now,
             SaveAndArm(r, at) \/ SaveFails(r, at) \/ SaveList(r, at)
      PROVE  Keeps(j)
  <2>1. HasCopy(r) /\ UNCHANGED <<now, events>>
    BY <1>1 DEF SaveAndArm, SaveFails, SaveList, HasCopy, WithStore
  <2>2. ~HasCopy(r)' /\ \A s \in Replicas \ {r} : section'[s] = section[s]
    <3>1. GoOn(r, "down") \/ GoOn(r, "idle") \/ End(r) \/ Leave(r)
      BY <1>1 DEF SaveAndArm, SaveFails, SaveList
    <3> QED
      BY <3>1, Drops
  <2>3. \/ \E some : Write(r, UpToDate(r, at), some)
        \/ Leave(r) /\ UNCHANGED jobs
    BY <1>1 DEF SaveAndArm, SaveFails, SaveList
  <2>4. CASE \E some : Write(r, UpToDate(r, at), some)
    <3>1. \/ Planned(UpToDate(r, at)[j]) = Copy(r, j)
          \/ /\ section[r].pc # "save"
             /\ Planned(UpToDate(r, at)[j]) = at + Delay[j]
      BY UpToDatePlans
    <3> QED
      BY <2>1, <2>2, <2>4, <3>1, WriteKeeps
  <2>5. CASE Leave(r) /\ UNCHANGED jobs
    <3>1. Touch(r, {}, now) /\ Enqueued(j)' = Enqueued(j) /\ Planned(jobs'[j]) = Planned(jobs[j])
      BY <2>1, <2>5 DEF Leave, Enqueued
    <3> QED
      BY <2>1, <2>2, <3>1, EndKeeps
  <2> QED
    BY <2>3, <2>4, <2>5
<1>2. CASE SaveRun(r) \/ SaveRunFails(r)
  <2>1. HasCopy(r) /\ UNCHANGED <<now, events>>
    BY <1>2 DEF SaveRun, SaveRunFails, HasCopy, WithStore
  <2>2. ~HasCopy(r)' /\ \A s \in Replicas \ {r} : section'[s] = section[s]
    BY <1>2, Drops DEF SaveRun, SaveRunFails
  <2>3. \E some : Write(r, section[r].store, some)
    BY <1>2 DEF SaveRun, SaveRunFails
  <2> QED
    BY <2>1, <2>2, <2>3, WriteKeeps DEF Copy
<1> QED
  BY <1>1, <1>2

LEMMA SectionsKeep ==
    ASSUME TypeInv, TypeInv', NEW r \in Replicas, NEW j \in Interval, ValidSince(j),
           \/ Start(r) \/ TimerFires(r) \/ ListJobs(r) \/ TickFails(r)
           \/ \E at \in section[r].at..now : BecomeScheduler(r, at) \/ NotScheduler(r, at)
    PROVE  Keeps(j)
<1>1. CASE Start(r) \/ TimerFires(r) \/ ListJobs(r)
  <2>1. /\ ~HasCopy(r) /\ UNCHANGED <<now, jobs, events, valid, lost>>
        /\ \E pc \in WithStore : Begin(r, pc, jobs)
    BY <1>1 DEF Start, TimerFires, ListJobs, Ready, HasCopy, WithStore
  <2>2. Enqueued(j)' = Enqueued(j)
    BY <2>1 DEF Enqueued
  <2> QED
    BY <2>1, <2>2, LoadKeeps
<1>2. ASSUME NEW at, TickFails(r) \/ NotScheduler(r, at) PROVE Keeps(j)
  <2>1. UNCHANGED <<now, jobs, events>> /\ Leave(r) /\ Touch(r, {}, now)
    BY <1>2 DEF TickFails, NotScheduler, Leave
  <2>2. ~HasCopy(r)' /\ \A s \in Replicas \ {r} : section'[s] = section[s]
    BY <2>1, Drops
  <2>3. Enqueued(j)' = Enqueued(j)
    BY <2>1 DEF Enqueued
  <2> QED
    BY <2>1, <2>2, <2>3, EndKeeps
<1>3. ASSUME NEW at \in section[r].at..now, BecomeScheduler(r, at) PROVE Keeps(j)
  <2>1. /\ section \in [Replicas -> Section] /\ section[r].pc = "tick"
        /\ UNCHANGED <<now, jobs, events, valid, lost>>
    BY <1>3 DEF BecomeScheduler, TypeInv, TypeOK
  <2>2. /\ \A s \in Replicas \ {r} : section'[s] = section[s]
        /\ section'[r].pc = "enqueue" /\ section'[r].at = at /\ Copy(r, j)' = Copy(r, j)
    BY <1>3, <2>1 DEF BecomeScheduler, Section, Copy
  <2>3. OthersKept(r, j)
    BY <2>1, <2>2 DEF OthersKept, ValidSince, HasCopy
  <2>4. HasCopy(r) /\ HasCopy(r)' /\ section'[r].at >= section[r].at
    BY <2>1, <2>2, SpacingReads DEF HasCopy, WithStore, Numbers
  <2>5. Enqueued(j)' = Enqueued(j)
    BY <2>1 DEF Enqueued
  <2>6. ValidSince(j)' /\ (Spaced(j) => Spaced(j)')
    BY <2>1, <2>2, <2>3, <2>4, <2>5, QuietSpacing
  <2> QED
    BY <2>1, <2>5, <2>6, QuietKeeps
<1> QED
  BY <1>1, <1>2, <1>3

\* The calls of the tool.
LEMMA CallsKeep ==
    ASSUME TypeInv, TypeInv', Unknown, NEW r \in Replicas, NEW j \in Interval, ValidSince(j),
           NEW i \in Jobs, AddJob(r, i) \/ RemoveJob(r, i) \/ RemoveFails(r, i)
    PROVE  Keeps(j)
<1>r. Numbers(j)
  BY SpacingReads
<1>1. ~HasCopy(r) /\ UNCHANGED now /\ valid[r][j] = Ever /\ j \in Jobs
  BY <1>r DEF AddJob, RemoveJob, RemoveFails, Ready, HasCopy, WithStore, ValidSince, Numbers
<1>2. CASE AddJob(r, i)
  <2>1. /\ UNCHANGED <<jobs, events, valid, lost>> /\ jobs \in [Jobs -> Row]
        /\ Enqueued(j)' = Enqueued(j) /\ "save" \in WithStore
    BY <1>2 DEF AddJob, Enqueued, TypeInv, TypeOK, WithStore
  <2>2. PICK store : Begin(r, "save", store) /\ (j # i => store[j] = jobs[j])
                     /\ (j = i => /\ store[j].on /\ store[j].next = now + Delay[j])
    <3> DEFINE row == [there |-> TRUE, on |-> TRUE, next |-> Never, ran |-> FALSE,
                       at |-> IF i \in OneShot THEN now + Delay[i] ELSE Never]
               planned == [row EXCEPT !.next = NextRun(i, row, now)]
               store == [jobs EXCEPT ![i] = planned]
    <3>1. Begin(r, "save", store)
      BY <1>2 DEF AddJob
    <3>2. store[i] = planned /\ (j # i => store[j] = jobs[j])
      <4> HIDE DEF planned
      <4> QED
        BY <1>1, <2>1
    <3>3. planned.on /\ planned.next = NextRun(i, row, now)
      OBVIOUS
    <3>4. j = i => NextRun(i, row, now) = now + Delay[j]
      BY <1>r DEF NextRun, Numbers
    <3> HIDE DEF store, planned, row
    <3> QED
      BY <3>1, <3>2, <3>3, <3>4
  <2>3. CASE j # i
    BY <1>1, <2>1, <2>2, <2>3, LoadKeeps
  <2>4. CASE j = i
    <3>1. /\ section'[r] = [pc |-> "save", store |-> store, at |-> now]
          /\ \A s \in Replicas \ {r} : section'[s] = section[s]
      BY <2>2, SectionFrame
    <3>2. Copy(r, j)' = now + Delay[j]
      BY <2>2, <2>4, <3>1 DEF Copy, Planned
    <3>3. Planned(jobs[j]) = Never
      BY <1>1, <1>2, <2>4 DEF AddJob, Unknown, Planned
    <3>4. OthersKept(r, j) /\ valid'[r][j] = Ever
      BY <1>1, <2>1, <3>1, Untouched
    <3>5. ValidSince(j)' /\ (Spaced(j) => Spaced(j)')
      BY <1>1, <2>1, <3>1, <3>2, <3>3, <3>4, AddSpacing
    <3> QED
      BY <2>1, <3>5, QuietKeeps
  <2> QED
    BY <2>3, <2>4
<1>3. CASE RemoveJob(r, i) \/ RemoveFails(r, i)
  <2>1. Touch(r, {i} \cap Interval, now) /\ jobs' = [jobs EXCEPT ![i] = NoRow]
        /\ (Delete(i) \/ UNCHANGED events) /\ jobs \in [Jobs -> Row]
    BY <1>3 DEF RemoveJob, RemoveFails, Delete, DeleteRow, TypeInv, TypeOK
  <2>2. \/ section' = section
        \/ Begin(r, "save", [jobs EXCEPT ![i] = NoRow])
    BY <1>3 DEF RemoveJob, RemoveFails
  <2>3. \A s \in Replicas \ {r} : section'[s] = section[s]
    BY <2>2, SectionFrame
  <2>4. CASE j # i
    <3>1. Planned(jobs'[j]) = Planned(jobs[j]) /\ j \notin {i} \cap Interval
      BY <1>1, <2>1, <2>4
    <3>2. Enqueued(j)' = Enqueued(j)
      BY <1>1, <2>1, <2>4 DEF Enqueued, Delete, Occurrence
    <3>3. CASE section' = section
      BY <1>1, <2>1, <2>3, <3>1, <3>2, <3>3, EndKeeps DEF HasCopy
    <3>4. CASE Begin(r, "save", [jobs EXCEPT ![i] = NoRow])
      <4>1. "save" \in WithStore /\ [jobs EXCEPT ![i] = NoRow][j] = jobs[j]
        BY <1>1, <2>1, <2>4 DEF WithStore
      <4> QED
        BY <1>1, <2>1, <3>1, <3>2, <3>4, <4>1, LoadKeeps
    <3> QED
      BY <2>2, <3>3, <3>4
  <2>5. CASE j = i
    <3>1. Planned(jobs'[j]) = Never
      BY <1>1, <2>1, <2>5 DEF Planned, NoRow
    <3>2. Enqueued(j)' \subseteq Enqueued(j)
      BY <1>1, <2>1 DEF Enqueued, Delete, Occurrence, NoEvent
    <3>3. /\ OthersOvertaken(r, j, now) /\ valid'[r][j] = Ever /\ lost \subseteq lost'
      BY <1>1, <2>1, <2>3, <2>5, Touched
    <3>4. ~HasCopy(r)' \/ (section'[r].pc = "save" /\ Copy(r, j)' = Never)
      <4>1. CASE section' = section
        BY <1>1, <4>1 DEF HasCopy
      <4>2. CASE Begin(r, "save", [jobs EXCEPT ![i] = NoRow])
        <5>1. section'[r] = [pc |-> "save", store |-> [jobs EXCEPT ![i] = NoRow], at |-> now]
          BY <4>2, SectionFrame
        <5>2. section'[r].pc = "save" /\ section'[r].store[j] = NoRow
          BY <1>1, <2>1, <2>5, <5>1
        <5> QED
          BY <5>2 DEF Copy, Planned, NoRow
      <4> QED
        BY <2>2, <4>1, <4>2
    <3>5. ValidSince(j)' /\ (Spaced(j) => Spaced(j)')
      BY <1>1, <3>1, <3>2, <3>3, <3>4, RemoveSpacing
    <3> QED
      BY <3>2, <3>3, <3>5, QuietKeeps
  <2> QED
    BY <2>4, <2>5
<1> QED
  BY <1>2, <1>3

\* The worker neither plans nor enqueues, and deletes one-time jobs only.
LEMMA WorkKeeps ==
    ASSUME IInv, TypeInv, TypeInv', NEW r \in Replicas, NEW j \in Interval, ValidSince(j),
           \/ \E o \in Occurrence : Claim(r, o) \/ ClaimLost(r, o)
           \/ \E at \in section[r].at..now : Lock(r, at)
           \/ LockFails(r) \/ (\E result \in {"ok", "error"} : RunEnds(r, result))
           \/ RecordRun(r) \/ RecordFails(r) \/ Complete(r) \/ CompleteFails(r) \/ Crash(r)
    PROVE  Keeps(j)
<1>r. Numbers(j) /\ \A t \in Times : <<j, t>> \in Occurrence
  BY SpacingReads DEF Numbers, Occurrence
<1>1. ASSUME UNCHANGED events PROVE Enqueued(j)' = Enqueued(j)
  BY <1>1 DEF Enqueued
<1>2. ASSUME NEW o \in Occurrence,
             \A e \in Occurrence \ {o} : events'[e] = events[e],
             events[o].status # "none", events'[o].status # "none"
      PROVE  Enqueued(j)' = Enqueued(j)
  BY <1>r, <1>2 DEF Enqueued
<1>3. ASSUME NEW i \in OneShot, Delete(i) PROVE Enqueued(j)' = Enqueued(j)
  BY <1>r, <1>3 DEF Enqueued, Delete, Numbers
<1>4. ASSUME NEW o \in Occurrence, Claim(r, o) \/ ClaimLost(r, o) PROVE Keeps(j)
  <2>1. UNCHANGED <<now, jobs, valid, lost>> /\ ~HasCopy(r)
    BY <1>4 DEF Claim, ClaimLost, Ready, HasCopy, WithStore
  <2>2. Enqueued(j)' = Enqueued(j)
    <3>1. /\ events[o].status = "pending" /\ events'[o].status = "processing"
          /\ \A e \in Occurrence \ {o} : events'[e] = events[e]
      <4>1. events \in [Occurrence -> EventRow] /\ events[o].status = "pending"
        BY <1>4 DEF Claim, ClaimLost, DueEvents, TypeInv, TypeOK
      <4>2. events' = [events EXCEPT ![o].status = "processing", ![o].attempts = @ + 1]
        BY <1>4 DEF Claim, ClaimLost
      <4> QED
        BY <4>1, <4>2 DEF EventRow
    <3> QED
      BY <1>2, <3>1
  <2>3. ~HasCopy(r)' /\ \A s \in Replicas \ {r} : section'[s] = section[s]
    <3>1. Begin(r, "lock", NoRows) \/ UNCHANGED section
      BY <1>4 DEF Claim, ClaimLost
    <3> QED
      BY <2>1, <3>1, Drops DEF HasCopy
  <2> QED
    BY <2>1, <2>2, <2>3, EndKeeps
<1>5. ASSUME NEW at, NEW result,
             Lock(r, at) \/ LockFails(r) \/ RunEnds(r, result) \/ CompleteFails(r)
      PROVE  Keeps(j)
  <2>1. UNCHANGED <<now, jobs, events, valid, lost>> /\ ~HasCopy(r)
    BY <1>5 DEF Lock, LockFails, RunEnds, CompleteFails, Ready, HasCopy, WithStore
  <2>2. ~HasCopy(r)' /\ \A s \in Replicas \ {r} : section'[s] = section[s]
    <3>1. End(r) \/ GoOn(r, "record")
      BY <1>5 DEF Lock, LockFails, RunEnds, CompleteFails
    <3> QED
      BY <3>1, Drops
  <2> QED
    BY <1>1, <2>1, <2>2, EndKeeps
<1>6. CASE RecordRun(r) \/ RecordFails(r)
  <2> DEFINE i == worker[r].event[1]
  <2>1. UNCHANGED <<now, valid, lost>> /\ ~HasCopy(r) /\ section[r].pc = "record"
    BY <1>6 DEF RecordRun, RecordFails, HasCopy, WithStore
  <2>2. i \in Jobs
    BY <2>1 DEF IInv, SectionHasEvent, Shapes, Running, Occurrence
  <2>3. \/ UNCHANGED <<jobs, events>>
        \/ i \in OneShot /\ DeleteRow(i) /\ (UNCHANGED events \/ Delete(i))
    BY <1>6 DEF RecordRun, RecordFails, ToDelete, Delete
  <2>4. jobs \in [Jobs -> Row] /\ j \in Jobs /\ j \notin OneShot
    BY <1>r DEF TypeInv, TypeOK, Numbers
  <2>5. jobs'[j] = jobs[j] /\ Enqueued(j)' = Enqueued(j)
    <3> HIDE DEF i
    <3> QED
      BY <1>1, <1>3, <2>2, <2>3, <2>4 DEF DeleteRow
  <2>6. CASE RecordFails(r)
    <3>1. ~HasCopy(r)' /\ \A s \in Replicas \ {r} : section'[s] = section[s]
      BY <2>6, Drops DEF RecordFails
    <3> QED
      BY <2>1, <2>5, <3>1, EndKeeps
  <2>7. CASE RecordRun(r)
    <3> DEFINE row == IF ToDelete(r) THEN NoRow ELSE [jobs[i] EXCEPT !.ran = jobs[i].there]
    <3>1. Begin(r, "save run", [jobs EXCEPT ![i] = row]) /\ "save run" \in WithStore
      BY <2>2, <2>4, <2>7 DEF RecordRun, WithStore
    <3>2. ToDelete(r) => i # j
      BY <2>4 DEF ToDelete
    <3>3. ~ToDelete(r) => /\ Planned(row) = Planned(jobs[i])
      <4>1. jobs[i] \in Row
        BY <2>2, <2>4
      <4> HIDE DEF i
      <4> QED
        BY <4>1 DEF Planned, Row
    <3> HIDE DEF i, row
    <3>4. Planned([jobs EXCEPT ![i] = row][j]) = Planned(jobs[j])
      BY <2>2, <2>4, <3>2, <3>3
    <3> QED
      BY <2>1, <2>5, <3>1, <3>4, LoadKeeps
  <2> QED
    BY <1>6, <2>6, <2>7
<1>7. CASE Complete(r)
  <2> DEFINE o == worker[r].event
  <2>1. UNCHANGED <<now, jobs, valid, lost>> /\ ~HasCopy(r)
    BY <1>7 DEF Complete, HasCopy, WithStore
  <2>2. o \in Occurrence /\ events[o].status = "processing" /\ events[o] \in EventRow
    BY <1>7, Reads DEF Complete, TypeInv, TypeOK, IInv, SectionHasEvent, OneExecutor, Running
  <2>3. /\ events'[o].status = Outcome(worker[r].result, events[o].attempts)
        /\ \A e \in Occurrence \ {o} : events'[e] = events[e]
    BY <1>7, <2>2 DEF Complete, TypeInv, TypeOK, EventRow
  <2>4. events'[o].status # "none"
    BY <2>3 DEF Outcome
  <2>5. Enqueued(j)' = Enqueued(j)
    <3> HIDE DEF o
    <3> QED
      BY <1>2, <2>2, <2>3, <2>4
  <2>6. ~HasCopy(r)' /\ \A s \in Replicas \ {r} : section'[s] = section[s]
    BY <1>7, Drops DEF Complete
  <2> QED
    BY <2>1, <2>5, <2>6, EndKeeps
<1>8. CASE Crash(r)
  <2>1. UNCHANGED <<now, jobs, events>> /\ GoOn(r, "down") /\ Touch(r, {}, now)
    BY <1>8 DEF Crash
  <2>2. ~HasCopy(r)' /\ \A s \in Replicas \ {r} : section'[s] = section[s]
    BY <2>1, Drops
  <2> QED
    BY <1>1, <2>1, <2>2, EndKeeps
<1> QED
  BY <1>4, <1>5, <1>6, <1>7, <1>8

\* No store has a job that nobody has added.
LEMMA StoresUnknown ==
    ASSUME NEW store, NEW j \in Jobs, ~store[j].on, NEW at
    PROVE  /\ ~Recomputed(store, at)[j].on /\ ~Reconciled(store, at)[j].on
           /\ ~MovedOn(store, at)[j].on
BY DEF Recomputed, Reconciled, Missed, MovedOn, DueJobs

\* What a step does to the rows of a job that is in no store.
LEMMA UnknownStep ==
    ASSUME TypeInv, NEW r \in Replicas, NEW j \in Jobs, ~jobs[j].on,
           \A s \in Replicas : ~section[s].store[j].on
    PROVE  /\ \A pc, store : ~store[j].on /\ Begin(r, pc, store) =>
                \A s \in Replicas : ~section'[s].store[j].on
           /\ (\E pc : GoOn(r, pc)) \/ End(r) \/ Leave(r) =>
                \A s \in Replicas : ~section'[s].store[j].on
           /\ UNCHANGED section => \A s \in Replicas : ~section'[s].store[j].on
           /\ \A store, some : ~store[j].on /\ Write(r, store, some) => ~jobs'[j].on
           /\ \A i : DeleteRow(i) \/ Delete(i) => ~jobs'[j].on
<1>1. section \in [Replicas -> Section] /\ jobs \in [Jobs -> Row] /\ ~NoRow.on /\ ~NoRows[j].on
  BY DEF TypeInv, TypeOK, NoRow, NoRows
<1>2. ASSUME NEW pc, NEW store, ~store[j].on, Begin(r, pc, store)
      PROVE  \A s \in Replicas : ~section'[s].store[j].on
  BY <1>1, <1>2 DEF Begin
<1>3. ASSUME NEW pc, GoOn(r, pc) PROVE \A s \in Replicas : ~section'[s].store[j].on
  BY <1>1, <1>3 DEF GoOn, Idle
<1>4. ASSUME NEW store, NEW some, ~store[j].on, Write(r, store, some) PROVE ~jobs'[j].on
  BY <1>4 DEF Write, Saved
<1>5. ASSUME NEW i, DeleteRow(i) \/ Delete(i) PROVE ~jobs'[j].on
  BY <1>1, <1>5 DEF DeleteRow, Delete
<1> QED
  BY <1>2, <1>3, <1>4, <1>5 DEF End, Leave

LEMMA NextUnknown == TypeInv /\ Unknown /\ [Next]_vars => Unknown'
<1> SUFFICES ASSUME TypeInv, Unknown, [Next]_vars, NEW j \in Jobs, j \notin added'
             PROVE  ~jobs'[j].on /\ \A s \in Replicas : ~section'[s].store[j].on
  BY DEF Unknown
<1> DEFINE G == ~jobs'[j].on /\ \A s \in Replicas : ~section'[s].store[j].on
<1>t. /\ jobs \in [Jobs -> Row] /\ section \in [Replicas -> Section]
      /\ ~NoRow.on /\ ~NoRows[j].on
  BY DEF TypeInv, TypeOK, NoRow, NoRows
<1>u. j \notin added => ~jobs[j].on /\ \A r \in Replicas : ~section[r].store[j].on
  BY DEF Unknown
<1>1. ASSUME NEW r \in Replicas, Start(r) \/ TimerFires(r) \/ ListJobs(r) PROVE G
  <2>1. /\ UNCHANGED <<added, jobs>>
        /\ Begin(r, "start", jobs) \/ Begin(r, "tick", jobs) \/ Begin(r, "list", jobs)
    BY <1>1 DEF Start, TimerFires, ListJobs
  <2> QED
    BY <1>u, <2>1, UnknownStep
<1>2. ASSUME NEW r \in Replicas, NEW at, BecomeScheduler(r, at) PROVE G
  <2>1. UNCHANGED <<added, jobs>> /\ \A s \in Replicas : section'[s].store = section[s].store
    BY <1>2, <1>t DEF BecomeScheduler, Section
  <2> QED
    BY <1>u, <2>1
<1>3. ASSUME NEW r \in Replicas, Enqueue(r) PROVE G
  <2>1. /\ UNCHANGED <<added, jobs>>
        /\ \A s \in Replicas : section'[s].store \in
              {section[s].store, MovedOn(section[s].store, section[r].at)}
    BY <1>3, <1>t DEF Enqueue, Section
  <2>2. \A s \in Replicas : ~MovedOn(section[s].store, section[r].at)[j].on
    BY <1>u, <2>1, StoresUnknown
  <2> QED
    BY <1>u, <2>1, <2>2
<1>4. ASSUME NEW r \in Replicas, NEW at \in section[r].at..now,
             SaveAndArm(r, at) \/ SaveFails(r, at) \/ SaveList(r, at)
      PROVE  G
  <2>1. /\ UNCHANGED added /\ ((\E pc : GoOn(r, pc)) \/ End(r) \/ Leave(r))
        /\ UNCHANGED jobs \/ \E some : Write(r, UpToDate(r, at), some)
    BY <1>4 DEF SaveAndArm, SaveFails, SaveList
  <2>2. ~UpToDate(r, at)[j].on
    <3> DEFINE store == section[r].store
    <3>1. ~store[j].on
      BY <1>u, <2>1
    <3>2. /\ ~Reconciled(store, at)[j].on /\ ~Recomputed(store, at)[j].on
          /\ ~Reconciled(Recomputed(store, at), at)[j].on
      BY <3>1, StoresUnknown
    <3>3. UpToDate(r, at) \in {store, Reconciled(store, at), Reconciled(Recomputed(store, at), at)}
      BY DEF UpToDate
    <3> HIDE DEF store
    <3> QED
      BY <3>1, <3>2, <3>3
  <2> QED
    BY <1>u, <2>1, <2>2, UnknownStep
<1>5. ASSUME NEW r \in Replicas, NEW at, NEW result,
             \/ NotScheduler(r, at) \/ TickFails(r) \/ EnqueueFails(r) \/ Lock(r, at)
             \/ LockFails(r) \/ RunEnds(r, result) \/ Complete(r) \/ CompleteFails(r)
             \/ Crash(r)
      PROVE  G
  <2>1. UNCHANGED <<added, jobs>> /\ ((\E pc : GoOn(r, pc)) \/ End(r) \/ Leave(r))
    BY <1>5 DEF NotScheduler, TickFails, EnqueueFails, Lock, LockFails, RunEnds, Complete,
       CompleteFails, Crash
  <2> QED
    BY <1>u, <2>1, UnknownStep
<1>6. ASSUME NEW r \in Replicas, NEW o, Claim(r, o) \/ ClaimLost(r, o) PROVE G
  <2>1. UNCHANGED <<added, jobs>> /\ (Begin(r, "lock", NoRows) \/ UNCHANGED section)
    BY <1>6 DEF Claim, ClaimLost
  <2> QED
    BY <1>t, <1>u, <2>1, UnknownStep
<1>7. ASSUME NEW r \in Replicas, SaveRun(r) \/ SaveRunFails(r) PROVE G
  <2>1. /\ UNCHANGED added /\ GoOn(r, "complete")
        /\ \E some : Write(r, section[r].store, some)
    BY <1>7 DEF SaveRun, SaveRunFails
  <2> QED
    BY <1>u, <2>1, UnknownStep
<1>8. ASSUME NEW r \in Replicas, RecordRun(r) \/ RecordFails(r) PROVE G
  <2>1. /\ UNCHANGED added
        /\ UNCHANGED jobs \/ \E i : DeleteRow(i) \/ Delete(i)
    BY <1>8 DEF RecordRun, RecordFails
  <2>2. CASE RecordFails(r)
    BY <1>u, <2>1, <2>2, UnknownStep DEF RecordFails
  <2>3. CASE RecordRun(r)
    <3> DEFINE i == worker[r].event[1]
               row == IF ToDelete(r) THEN NoRow ELSE [jobs[i] EXCEPT !.ran = jobs[i].there]
    <3>1. Begin(r, "save run", [jobs EXCEPT ![i] = row])
      BY <1>t, <2>3 DEF RecordRun
    <3>2. j = i => ~row.on
      <4>1. jobs[j] \in Row /\ ~jobs[j].on
        BY <1>t, <1>u, <2>1
      <4> HIDE DEF i
      <4> QED
        BY <1>t, <4>1 DEF Row
    <3> HIDE DEF i, row
    <3>3. ~[jobs EXCEPT ![i] = row][j].on
      BY <1>t, <1>u, <2>1, <3>2
    <3> QED
      BY <1>u, <2>1, <3>1, <3>3, UnknownStep
  <2> QED
    BY <1>8, <2>2, <2>3
<1>9. ASSUME NEW r \in Replicas, NEW i \in Jobs, AddJob(r, i) PROVE G
  <2>1. added' = added \cup {i} /\ UNCHANGED jobs /\ i # j
    BY <1>9 DEF AddJob
  <2>2. \E row : Begin(r, "save", [jobs EXCEPT ![i] = row])
    BY <1>9 DEF AddJob
  <2>3. \A row : ~[jobs EXCEPT ![i] = row][j].on
    BY <1>t, <1>u, <2>1
  <2> QED
    BY <1>u, <2>1, <2>2, <2>3, UnknownStep
<1>10. ASSUME NEW r \in Replicas, NEW i \in Jobs, RemoveJob(r, i) \/ RemoveFails(r, i) PROVE G
  <2>1. /\ UNCHANGED added /\ (DeleteRow(i) \/ Delete(i))
        /\ Begin(r, "save", [jobs EXCEPT ![i] = NoRow]) \/ UNCHANGED section
    BY <1>10 DEF RemoveJob, RemoveFails
  <2>2. ~[jobs EXCEPT ![i] = NoRow][j].on
    BY <1>t, <1>u, <2>1
  <2> QED
    BY <1>u, <2>1, <2>2, UnknownStep
<1>11. CASE Tick \/ UNCHANGED vars
  BY <1>u, <1>11 DEF Tick, vars
<1> QED
  BY <1>1, <1>2, <1>3, <1>4, <1>5, <1>6, <1>7, <1>8, <1>9, <1>10, <1>11, CronAssumption
  DEF Next, SectionStep, WorkerStep

LEMMA InitApart == Init => Apart
<1> SUFFICES ASSUME Init PROVE Apart
  OBVIOUS
<1>1. ASSUME NEW j \in Interval PROVE Enqueued(j) = {} /\ Planned(jobs[j]) = Never
  <2>1. j \in Jobs /\ \A t \in Times : <<j, t>> \in Occurrence
    BY DEF Interval, Occurrence
  <2> QED
    BY <2>1 DEF Init, NoEvent, Enqueued, NoRows, NoRow, Planned
<1>2. ASSUME NEW r \in Replicas
      PROVE  /\ ~HasCopy(r) /\ \A j \in Interval : valid[r][j] = Ever
             /\ \A j \in Jobs : ~section[r].store[j].on
  <2>1. section[r] = Idle /\ valid[r] = AllValid
    BY DEF Init
  <2>2. Idle.pc = "idle" /\ \A j \in Jobs : ~Idle.store[j].on
    BY DEF Idle, NoRows, NoRow
  <2> QED
    BY <2>1, <2>2 DEF HasCopy, WithStore, AllValid
<1>3. Unknown
  BY <1>2 DEF Unknown, Init, NoRows, NoRow
<1>4. ASSUME NEW j \in Interval PROVE ValidSince(j) /\ SpacedOf(j)
  <2>1. \A r \in Replicas : ~Current(r, j)
    BY <1>2 DEF Current, HasCopy
  <2>2. Spaced(j)
    BY <1>1, <1>2, <2>1 DEF Spaced, Plan, PlanNow
  <2> QED
    BY <1>2, <2>2, SpacedPointwise DEF ValidSince
<1>5. IntervalKept
  BY <1>1 DEF IntervalKept, Enqueued
<1> QED
  BY <1>3, <1>4, <1>5 DEF Apart, SpacingInv

\* Apart, job by job.
LEMMA ApartPointwise ==
    Apart <=> /\ Unknown
              /\ \A j \in Interval : ValidSince(j) /\ (j \in lost \/ (Spaced(j) /\ Kept(j)))
<1>1. \A j : SpacedOf(j) <=> Spaced(j)
  BY SpacedPointwise
<1>2. IntervalKept <=> \A j \in Interval \ lost : Kept(j)
  BY DEF IntervalKept, Kept, Enqueued
<1> QED
  BY <1>1, <1>2 DEF Apart, SpacingInv

LEMMA ApartPointwisePrime ==
    (Apart <=> /\ Unknown
               /\ \A j \in Interval : ValidSince(j) /\ (j \in lost \/ (Spaced(j) /\ Kept(j))))'
BY ApartPointwise, PTL

LEMMA TickKeeps ==
    ASSUME TypeInv, TypeInv', NEW j \in Interval, ValidSince(j), Tick \/ UNCHANGED vars
    PROVE  Keeps(j)
<1>1. CASE Tick
  <2>1. Enqueued(j)' = Enqueued(j) /\ lost' = lost
    BY <1>1 DEF Tick, Enqueued
  <2> QED
    BY <1>1, <2>1, TickSpacing, QuietKeeps
<1>2. CASE UNCHANGED vars
  BY <1>2 DEF vars, Keeps, ValidSince, Spaced, Kept, Enqueued, Plan, PlanNow, Current,
     Overtaken, HasCopy, Copy
<1> QED
  BY <1>1, <1>2

LEMMA NextApart == IInv /\ TypeInv /\ TypeInv' /\ Apart /\ [Next]_vars => Apart'
<1> SUFFICES ASSUME IInv, TypeInv, TypeInv', Apart, [Next]_vars PROVE Apart'
  OBVIOUS
<1>1. Unknown /\ Unknown'
  BY ApartPointwise, NextUnknown
<1>2. ASSUME NEW j \in Interval PROVE Keeps(j)
  <2>1. ValidSince(j)
    BY ApartPointwise
  <2>2. ASSUME NEW r \in Replicas, SectionStep(r) PROVE Keeps(j)
    BY <2>1, <2>2, SectionsKeep, SavesKeep, EnqueueKeeps DEF SectionStep
  <2>3. ASSUME NEW r \in Replicas, WorkerStep(r) PROVE Keeps(j)
    BY <2>1, <2>3, WorkKeeps, SavesKeep DEF WorkerStep
  <2>4. ASSUME NEW r \in Replicas, Start(r) \/ TimerFires(r) \/ ListJobs(r) PROVE Keeps(j)
    BY <2>1, <2>4, SectionsKeep
  <2>5. ASSUME NEW r \in Replicas, Crash(r) PROVE Keeps(j)
    BY <2>1, <2>5, WorkKeeps
  <2>6. ASSUME NEW r \in Replicas, NEW i \in Jobs,
               AddJob(r, i) \/ RemoveJob(r, i) \/ RemoveFails(r, i)
        PROVE  Keeps(j)
    BY <1>1, <2>1, <2>6, CallsKeep
  <2>7. CASE Tick \/ UNCHANGED vars
    BY <2>1, <2>7, TickKeeps
  <2> QED
    BY <2>2, <2>3, <2>4, <2>5, <2>6, <2>7, CronAssumption DEF Next
<1>3. \A j \in Interval : ValidSince(j)' /\ (j \in lost' \/ (Spaced(j)' /\ Kept(j)'))
  BY <1>2, ApartPointwise DEF Keeps
<1> QED
  BY <1>1, <1>3, ApartPointwisePrime

\* However long the replicas take to write what they computed, and whatever crashes, fails,
\* is added, listed or removed meanwhile: the occurrences of an interval job are an
\* interval apart, unless a replica has saved or enqueued the job from a copy that another
\* had overtaken.
THEOREM IntervalsAreKept == Spec => []IntervalKept
<1>1. Apart => IntervalKept
  BY DEF Apart
<1>2. IInv /\ TypeInv /\ Apart /\ [Next]_vars => Apart'
  BY NextApart, NextType
<1> QED
  BY <1>1, <1>2, InitInv, NextInv, InitType, NextType, InitApart, PTL DEF Spec

=============================================================================
