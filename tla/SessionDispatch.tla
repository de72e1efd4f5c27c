--------------------------- MODULE SessionDispatch ---------------------------
(***************************************************************************)
(* One session in the replicas of the agent: the messages of its user come *)
(* in one partition of the inbound topic; the replica that owns the        *)
(* partition puts them on its bus (channels/icatmsg.py, bus/queue.py); its *)
(* AgentLoop (agent/loop.py run, _dispatch, _session_worker, _handle_stop) *)
(* runs the turns of the session one after the other, and cancels them     *)
(* when the user sends /stop.  Across replicas the turns are kept apart by *)
(* a lease in Redis (session/manager.py session_lock).                     *)
(*                                                                         *)
(* A message is known by its place in the partition.  What a turn does is  *)
(* left out: it ends with a reply (that it failed is a reply, too) or,     *)
(* when its token is cancelled, with the notice that it was.               *)
(***************************************************************************)
EXTENDS Naturals, Sequences, FiniteSets, SequencesExt

CONSTANTS
    Replicas,
    NoReplica,
    Partitions,    \* the message sequences to look at: of "turn" and "stop"
    MaxUpsets      \* bound: moves of the partition, outlasted leases and crashes

Messages == UNION {DOMAIN p : p \in Partitions}

ASSUME DispatchAssumption ==
    /\ NoReplica \notin Replicas
    /\ Partitions \subseteq Seq({"turn", "stop"})
    /\ MaxUpsets \in Nat

VARIABLES
    partition,  \* the session's messages, the first to the last
    committed,  \* the offset of the consumer group, as far as it is known
    position,   \* how many messages the owner has taken
    owner,      \* the replica the partition is assigned to
    bus,        \* per replica: runtime_ingress
    queue,      \* per replica: _session_queues[session]
    worker,     \* per replica: _session_worker, the message it has, the outcome
    token,      \* per replica: _runtime_controls[session]
    stopping,   \* per replica: the /stop that _handle_stop is busy with, or 0
    lock,       \* the replica that holds the session's lock in Redis
    answers,    \* history: what was published for the user, in order
    lapsed,     \* history: replicas whose turn has outlasted its lease
    strays,     \* replicas with a thread that asks for the lock for nobody
    upsets, crashed

vars == <<partition, committed, position, owner, bus, queue, worker, token, stopping,
          lock, answers, lapsed, strays, upsets, crashed>>

Gone == [pc |-> "none", msg |-> 0, outcome |-> "reply"]
Waiting == [Gone EXCEPT !.pc = "waiting"]

Answer == [msg : Messages, kind : {"reply", "cancelled", "busy", "stopped"},
           by : Replicas]

\* _active_tasks[session]: there are tasks of the session as long as its worker lives.
Active(r) == worker[r].pc # "none"

Init ==
    /\ partition \in Partitions
    /\ committed = 0 /\ position = 0
    /\ owner \in Replicas
    /\ bus = [r \in Replicas |-> <<>>] /\ queue = [r \in Replicas |-> <<>>]
    /\ worker = [r \in Replicas |-> Gone]
    /\ token = [r \in Replicas |-> "none"] /\ stopping = [r \in Replicas |-> 0]
    /\ lock = NoReplica
    /\ answers = <<>> /\ lapsed = {} /\ strays = {}
    /\ upsets = 0 /\ crashed = FALSE

Upset == upsets < MaxUpsets /\ upsets' = upsets + 1

Publish(r, m, kind) == answers' = Append(answers, [msg |-> m, kind |-> kind, by |-> r])

-----------------------------------------------------------------------------
(* The partition and the bus.  The messages are in the partition from the  *)
(* start: that the user sends one late is that it is received late.        *)

\* The receiver loop of the owner.
Receive(r) ==
    /\ owner = r /\ position < Len(partition)
    /\ position' = position + 1
    /\ bus' = [bus EXCEPT ![r] = Append(@, position')]
    /\ UNCHANGED <<partition, committed, owner, queue, worker, token, stopping,
                   lock, answers, lapsed, strays, upsets, crashed>>

\* A rebalance: the old owner commits and goes on with what it has taken.
Move(r) ==
    /\ owner # r
    /\ Upset
    /\ owner' = r /\ committed' = position
    /\ UNCHANGED <<partition, position, bus, queue, worker, token, stopping,
                   lock, answers, lapsed, strays, crashed>>

-----------------------------------------------------------------------------
(* run, _dispatch and _handle_stop.  run does not take a message while it  *)
(* awaits _handle_stop.                                                    *)

Dispatch(r) ==
    /\ stopping[r] = 0 /\ bus[r] # <<>> /\ partition[Head(bus[r])] = "turn"
    /\ bus' = [bus EXCEPT ![r] = Tail(@)]
    /\ queue' = [queue EXCEPT ![r] = Append(@, Head(bus[r]))]
    /\ worker' = [worker EXCEPT ![r] = IF Active(r) THEN @ ELSE Waiting]
    /\ token' = [token EXCEPT ![r] = IF @ = "none" THEN "live" ELSE @]
    /\ UNCHANGED <<partition, committed, position, owner, stopping, lock, answers, lapsed, strays,
                   upsets, crashed>>

\* /stop: the token is cancelled, and the tasks get 1.5 s.  Without tasks the
\* answer comes at once.
TakeStop(r) ==
    /\ stopping[r] = 0 /\ bus[r] # <<>> /\ partition[Head(bus[r])] = "stop"
    /\ bus' = [bus EXCEPT ![r] = Tail(@)]
    /\ token' = [token EXCEPT ![r] = IF @ = "none" THEN @ ELSE "cancelled"]
    /\ IF Active(r)
       THEN stopping' = [stopping EXCEPT ![r] = Head(bus[r])] /\ UNCHANGED answers
       ELSE Publish(r, Head(bus[r]), "stopped") /\ UNCHANGED stopping
    /\ UNCHANGED <<partition, committed, position, owner, queue, worker, lock, lapsed, strays,
                   upsets, crashed>>

\* The lock is given back, if it is still the worker's own: release() compares tokens.
Released(r) ==
    IF worker[r].pc = "turn" /\ lock = r /\ r \notin lapsed THEN NoReplica ELSE lock

\* Mutant: the answer does not wait for the worker to end.
CancelTasks_NoWait(r) ==
    /\ stopping[r] # 0
    /\ queue' = [queue EXCEPT ![r] = <<>>]
    /\ Publish(r, stopping[r], "stopped")
    /\ stopping' = [stopping EXCEPT ![r] = 0]
    /\ UNCHANGED <<partition, committed, position, owner, bus, worker, token, lock, lapsed, strays,
                   upsets, crashed>>

\* Mutant: the token is not dropped with the last task.
CancelTasks_KeepsToken(r) ==
    /\ stopping[r] # 0
    /\ queue' = [queue EXCEPT ![r] = <<>>]
    /\ worker' = [worker EXCEPT ![r] = Gone]
    /\ lock' = Released(r)
    /\ lapsed' = lapsed \ {r}
    /\ strays' = IF worker[r].pc = "locking" THEN strays \cup {r} ELSE strays
    /\ Publish(r, stopping[r], "stopped")
    /\ stopping' = [stopping EXCEPT ![r] = 0]
    /\ UNCHANGED <<partition, committed, position, owner, bus, token, upsets, crashed>>

\* What has not ended is cancelled and awaited: the worker, which never ends by
\* itself, and with it the futures of all the messages in its queue.  The thread
\* that acquires the lock is not stopped with the worker.
CancelTasks(r) ==
    /\ stopping[r] # 0
    /\ queue' = [queue EXCEPT ![r] = <<>>]
    /\ worker' = [worker EXCEPT ![r] = Gone]
    /\ token' = [token EXCEPT ![r] = "none"]
    /\ lock' = Released(r)
    /\ lapsed' = lapsed \ {r}
    /\ strays' = IF worker[r].pc = "locking" THEN strays \cup {r} ELSE strays
    /\ Publish(r, stopping[r], "stopped")
    /\ stopping' = [stopping EXCEPT ![r] = 0]
    /\ UNCHANGED <<partition, committed, position, owner, bus, upsets, crashed>>

-----------------------------------------------------------------------------
(* _session_worker.                                                        *)

Take(r) ==
    /\ worker[r].pc = "waiting" /\ queue[r] # <<>>
    /\ worker' = [worker EXCEPT ![r] = [pc |-> "locking", msg |-> Head(queue[r]),
                                        outcome |-> "reply"]]
    /\ queue' = [queue EXCEPT ![r] = Tail(@)]
    /\ UNCHANGED <<partition, committed, position, owner, bus, token, stopping, lock, answers,
                   lapsed, strays, upsets, crashed>>

Lock(r) ==
    /\ worker[r].pc = "locking" /\ lock = NoReplica
    /\ lock' = r
    /\ worker' = [worker EXCEPT ![r].pc = "turn"]
    /\ UNCHANGED <<partition, committed, position, owner, bus, queue, token, stopping, answers,
                   lapsed, strays, upsets, crashed>>

\* Mutant: nobody hears of it.
LockTimesOut_Silent(r) ==
    /\ worker[r].pc = "locking" /\ lock # NoReplica
    /\ worker' = [worker EXCEPT ![r] = Waiting]
    /\ UNCHANGED <<partition, committed, position, owner, bus, queue, token, stopping, lock, answers,
                   lapsed, strays, upsets, crashed>>

\* Five seconds without the lock: the user is asked to try again.
LockTimesOut(r) ==
    /\ worker[r].pc = "locking" /\ lock # NoReplica
    /\ Publish(r, worker[r].msg, "busy")
    /\ worker' = [worker EXCEPT ![r] = Waiting]
    /\ UNCHANGED <<partition, committed, position, owner, bus, queue, token, stopping, lock,
                   lapsed, strays, upsets, crashed>>

\* Mutant: the lock is given back whoever holds it.
TurnEnds_AnyLock(r, outcome) ==
    /\ worker[r].pc = "turn"
    /\ outcome = "cancelled" => token[r] = "cancelled"
    /\ lock' = NoReplica
    /\ lapsed' = lapsed \ {r}
    /\ worker' = [worker EXCEPT ![r].pc = "ended", ![r].outcome = outcome]
    /\ UNCHANGED <<partition, committed, position, owner, bus, queue, token, stopping, answers, strays,
                   upsets, crashed>>

\* The turn ends and the lock is released; a check of the token may have ended it.
TurnEnds(r, outcome) ==
    /\ worker[r].pc = "turn"
    /\ outcome = "cancelled" => token[r] = "cancelled"
    /\ lock' = Released(r)
    /\ lapsed' = lapsed \ {r}
    /\ worker' = [worker EXCEPT ![r].pc = "ended", ![r].outcome = outcome]
    /\ UNCHANGED <<partition, committed, position, owner, bus, queue, token, stopping, answers, strays,
                   upsets, crashed>>

PublishOutcome(r) ==
    /\ worker[r].pc = "ended"
    /\ Publish(r, worker[r].msg, worker[r].outcome)
    /\ worker' = [worker EXCEPT ![r] = Waiting]
    /\ UNCHANGED <<partition, committed, position, owner, bus, queue, token, stopping, lock,
                   lapsed, strays, upsets, crashed>>

\* The thread a cancelled worker left behind: the lock it may get is nobody's, and
\* stays until its lease is over.
StrayEnds(r) ==
    /\ r \in strays
    /\ strays' = strays \ {r}
    /\ lock' = IF lock = NoReplica THEN r ELSE lock
    /\ UNCHANGED <<partition, committed, position, owner, bus, queue, worker, token, stopping, answers,
                   lapsed, upsets, crashed>>

-----------------------------------------------------------------------------
(* What may go wrong.                                                      *)

\* A turn takes longer than 180 s: Redis drops the lock.  (The lock of a
\* crashed replica, or of a stray thread, goes the same way.)
LeaseLapses ==
    /\ lock # NoReplica
    /\ lock' = NoReplica
    /\ IF worker[lock].pc = "turn"
       THEN Upset /\ lapsed' = lapsed \cup {lock}
       ELSE UNCHANGED <<lapsed, upsets>>
    /\ UNCHANGED <<partition, committed, position, owner, bus, queue, worker, token, stopping,
                   answers, strays, crashed>>

\* The replica crashes and starts again; the partition is read from the
\* committed offset by whoever gets it.  The consumer commits every few seconds
\* what it has taken, whatever has become of it.
Crash(r) ==
    /\ Upset /\ crashed' = TRUE
    /\ bus' = [bus EXCEPT ![r] = <<>>] /\ queue' = [queue EXCEPT ![r] = <<>>]
    /\ worker' = [worker EXCEPT ![r] = Gone]
    /\ token' = [token EXCEPT ![r] = "none"] /\ stopping' = [stopping EXCEPT ![r] = 0]
    /\ lapsed' = lapsed \ {r}
    /\ strays' = strays \ {r}
    /\ IF owner = r
       THEN /\ owner' \in Replicas
            /\ committed' \in committed..position /\ position' = committed'
       ELSE UNCHANGED <<owner, position, committed>>
    /\ UNCHANGED <<partition, lock, answers>>

-----------------------------------------------------------------------------
LoopStep(r) == Dispatch(r) \/ TakeStop(r) \/ CancelTasks(r)

WorkerStep(r) ==
    \/ Take(r) \/ Lock(r) \/ LockTimesOut(r)
    \/ \E outcome \in {"reply", "cancelled"} : TurnEnds(r, outcome)
    \/ PublishOutcome(r)

Next ==
    \/ LeaseLapses
    \/ \E r \in Replicas :
        Receive(r) \/ Move(r) \/ Crash(r) \/ LoopStep(r) \/ WorkerStep(r) \/ StrayEnds(r)

Spec == Init /\ [][Next]_vars

\* Every coroutine of a replica goes on, and every turn ends.
Fairness ==
    \A r \in Replicas : WF_vars(Receive(r)) /\ WF_vars(LoopStep(r)) /\ WF_vars(WorkerStep(r))

FairSpec == Spec /\ Fairness

-----------------------------------------------------------------------------
(* Properties.                                                             *)

TypeOK ==
    /\ partition \in Partitions
    /\ {committed, position} \subseteq 0..Len(partition) /\ owner \in Replicas
    /\ bus \in [Replicas -> Seq(Messages)] /\ queue \in [Replicas -> Seq(Messages)]
    /\ worker \in [Replicas -> [pc : {"none", "waiting", "locking", "turn", "ended"},
                                msg : Messages \cup {0},
                                outcome : {"reply", "cancelled"}]]
    /\ token \in [Replicas -> {"none", "live", "cancelled"}]
    /\ stopping \in [Replicas -> Messages \cup {0}]
    /\ lock \in Replicas \cup {NoReplica}
    /\ answers \in Seq(Answer) /\ lapsed \subseteq Replicas
    /\ strays \subseteq Replicas
    /\ upsets \in 0..MaxUpsets /\ crashed \in BOOLEAN

\* Two replicas are in a turn of the session at once only when the lease of one
\* of them has run out, also while the partition moves from one to the other
\* with messages left in the old one's queue.
OneTurn ==
    \A r, s \in Replicas :
        worker[r].pc = "turn" /\ worker[s].pc = "turn" /\ r # s => {r, s} \cap lapsed # {}

\* The final answers of a replica for the session (what a turn, a /stop or a
\* worker publishes at its end; progress messages are not modelled) follow the
\* order of the messages: none comes after the answer to a later message, in
\* particular none after the answer to a /stop that came behind it, and none
\* comes twice.  (After a crash messages may come again.)
AnswersInOrder ==
    ~crashed =>
        \A i, j \in DOMAIN answers :
            i < j /\ answers[i].by = answers[j].by => answers[i].msg < answers[j].msg

\* A message meets a cancelled token only when the /stop came behind it: a
\* session that was stopped is not stopped for the messages to come.
CancelledByLaterStop ==
    \A r \in Replicas :
        token[r] = "cancelled" /\ Active(r) =>
            /\ stopping[r] # 0
            /\ worker[r].msg < stopping[r]
            /\ \A i \in DOMAIN queue[r] : queue[r][i] < stopping[r]

\* Every message is answered, or swept away by a later /stop that is answered,
\* unless a replica crashed.
MessagesSettle ==
    \A m \in Messages :
        <>(\/ crashed \/ m > Len(partition)
           \/ \E i \in DOMAIN answers :
                answers[i].msg = m \/ (answers[i].kind = "stopped" /\ answers[i].msg > m))

-----------------------------------------------------------------------------
(* The invariant that every step keeps (see SessionDispatchProofs).        *)

\* A worker that is busy is busy with a message.
BusyWithMessage ==
    \A r \in Replicas :
        worker[r].pc \in {"locking", "turn", "ended"} => worker[r].msg \in Messages

\* A turn whose lease has not run out has the lock.
TurnHasLock ==
    \A r \in Replicas : worker[r].pc = "turn" /\ r \notin lapsed => lock = r

IInv == TypeOK /\ BusyWithMessage /\ TurnHasLock

\* The messages a replica has taken and not done with: the worker's, those in
\* its queue, the /stop that is under way, those on the bus.
Busy(r) == worker[r].pc \in {"locking", "turn", "ended"}
AtWork(r) == IF Busy(r) THEN {worker[r].msg} ELSE {}
Stopping(r) == IF stopping[r] # 0 THEN {stopping[r]} ELSE {}
Taken(r) == 1 .. (IF owner = r THEN position ELSE committed)
Answered(r) == {answers[i].msg : i \in {i \in DOMAIN answers : answers[i].by = r}}

Before(first, second) == \A m \in first, n \in second : m < n
Ascending(s) == \A i, j \in DOMAIN s : i < j => s[i] < s[j]

\* They stand in the order of the partition.
InOrder(r) ==
    /\ Ascending(queue[r]) /\ Ascending(bus[r])
    /\ Before(AtWork(r), ToSet(queue[r]) \cup Stopping(r) \cup ToSet(bus[r]))
    /\ Before(ToSet(queue[r]), Stopping(r) \cup ToSet(bus[r]))
    /\ Before(Stopping(r), ToSet(bus[r]))
    /\ AtWork(r) \cup ToSet(queue[r]) \cup Stopping(r) \cup ToSet(bus[r]) \subseteq Taken(r)

\* What a replica took before it lost the partition is committed, so that nothing
\* of it comes again.
LineInOrder == committed <= position /\ \A r \in Replicas : InOrder(r)

\* Without a worker there is neither a queue nor a token, and a worker that is not
\* busy has no message.
WorkerServesQueue ==
    \A r \in Replicas :
        /\ ~Active(r) => queue[r] = <<>> /\ token[r] = "none"
        /\ ~Busy(r) => worker[r].msg = 0

\* A token is cancelled only while its /stop is under way.
StopOwnsToken == \A r \in Replicas : token[r] = "cancelled" => stopping[r] # 0

\* What was answered came before what is still to be handled.
Behind(r) ==
    /\ Answered(r) \subseteq Taken(r)
    /\ Before(Answered(r), AtWork(r) \cup ToSet(queue[r]) \cup Stopping(r) \cup ToSet(bus[r]))
AnsweredBefore == ~crashed => \A r \in Replicas : Behind(r)

LineInv ==
    /\ LineInOrder /\ WorkerServesQueue /\ StopOwnsToken
    /\ AnsweredBefore /\ AnswersInOrder
=============================================================================
