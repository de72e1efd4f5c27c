----------------------- MODULE SessionDispatchProofs -----------------------
(***************************************************************************)
(* For every set of replicas, every session and any number of rebalances,  *)
(* crashes and outlasted leases: the variables keep their types, two turns *)
(* of a session overlap only when a lease has run out, answers keep the    *)
(* order of the messages, and a /stop cancels only what came before it.    *)
(***************************************************************************)
EXTENDS SessionDispatch, SequenceTheorems, TLAPS

\* The offsets in the session's partition are messages.
LEMMA OffsetsAreMessages ==
    ASSUME NEW p \in Partitions, NEW i \in 1 .. Len(p)
    PROVE  i \in Messages /\ i \in Nat /\ i > 0
<1>1. p \in Seq({"turn", "stop"})
  BY DispatchAssumption
<1>2. DOMAIN p = 1 .. Len(p) /\ Len(p) \in Nat
  BY <1>1, LenProperties
<1> QED
  BY <1>2 DEF Messages

\* What a step takes from the bus or the queue is a message, and the rest are messages.
LEMMA HeadAndTail ==
    ASSUME NEW q \in Seq(Messages), q # <<>>
    PROVE  Head(q) \in Messages /\ Tail(q) \in Seq(Messages)
BY HeadTailProperties

\* The answers stay answers when one is published.
LEMMA PublishKeepsType ==
    ASSUME NEW r \in Replicas, NEW m \in Messages,
           NEW kind \in {"reply", "cancelled", "busy", "stopped"},
           answers \in Seq(Answer), Publish(r, m, kind)
    PROVE  answers' \in Seq(Answer)
<1>1. [msg |-> m, kind |-> kind, by |-> r] \in Answer
  BY DEF Answer
<1> QED
  BY <1>1, AppendProperties DEF Publish

LEMMA InitInv == Init => IInv
<1> SUFFICES ASSUME Init PROVE IInv
  OBVIOUS
<1>1. partition \in Partitions /\ partition \in Seq({"turn", "stop"})
  BY DispatchAssumption DEF Init
<1>2. Len(partition) \in Nat
  BY <1>1, LenProperties
<1>3. <<>> \in Seq(Messages) /\ <<>> \in Seq(Answer)
  BY EmptySeq
<1>4. Gone \in [pc : {"none", "waiting", "locking", "turn", "ended"},
                msg : Messages \cup {0}, outcome : {"reply", "cancelled"}]
  BY DEF Gone
<1>5. TypeOK
  <2>1. {committed, position} \subseteq 0 .. Len(partition) /\ upsets \in 0 .. MaxUpsets
    BY <1>2, DispatchAssumption DEF Init
  <2>2. /\ bus \in [Replicas -> Seq(Messages)] /\ queue \in [Replicas -> Seq(Messages)]
        /\ answers \in Seq(Answer)
    BY <1>3 DEF Init
  <2>3. worker \in [Replicas -> [pc : {"none", "waiting", "locking", "turn", "ended"},
                                 msg : Messages \cup {0},
                                 outcome : {"reply", "cancelled"}]]
    BY <1>4 DEF Init
  <2>4. /\ token \in [Replicas -> {"none", "live", "cancelled"}]
        /\ stopping \in [Replicas -> Messages \cup {0}]
    BY DEF Init
  <2> QED
    BY <1>1, <2>1, <2>2, <2>3, <2>4 DEF Init, TypeOK
<1>6. BusyWithMessage /\ TurnHasLock
  BY DEF Init, BusyWithMessage, TurnHasLock, Gone
<1> QED
  BY <1>5, <1>6 DEF IInv

\* Every action keeps the invariant; one step for each.
LEMMA NextInv == IInv /\ [Next]_vars => IInv'
<1> SUFFICES ASSUME IInv, [Next]_vars PROVE IInv'
  OBVIOUS
<1> USE DispatchAssumption
<1>t. TypeOK /\ BusyWithMessage /\ TurnHasLock
  BY DEF IInv
<1>p. Len(partition) \in Nat /\ Messages \subseteq Nat
  <2>1. partition \in Seq({"turn", "stop"})
    BY <1>t DEF TypeOK
  <2>2. \A p \in Partitions : DOMAIN p \subseteq Nat
    BY LenProperties
  <2> QED
    BY <2>1, <2>2, LenProperties DEF Messages
<1>1. CASE LeaseLapses
  BY <1>1, <1>t, <1>p DEF LeaseLapses, Upset, IInv, TypeOK, BusyWithMessage, TurnHasLock
<1>2. ASSUME NEW r \in Replicas, Receive(r) PROVE IInv'
  <2>1. position + 1 \in 1 .. Len(partition)
    BY <1>2, <1>t, <1>p DEF Receive, TypeOK
  <2>2. position + 1 \in Messages
    BY <2>1, <1>t, OffsetsAreMessages DEF TypeOK
  <2>3. bus' \in [Replicas -> Seq(Messages)]
    BY <1>2, <1>t, <2>2, AppendProperties DEF Receive, TypeOK
  <2> QED
    BY <1>2, <1>t, <1>p, <2>1, <2>3 DEF Receive, IInv, TypeOK, BusyWithMessage, TurnHasLock
<1>3. ASSUME NEW r \in Replicas, Move(r) PROVE IInv'
  BY <1>3, <1>t, <1>p DEF Move, Upset, IInv, TypeOK, BusyWithMessage, TurnHasLock
<1>4. ASSUME NEW r \in Replicas, Crash(r) PROVE IInv'
  <2>1. owner' \in Replicas /\ {committed', position'} \subseteq 0 .. Len(partition)
    BY <1>4, <1>t, <1>p DEF Crash, TypeOK
  <2> QED
    BY <1>4, <1>t, <1>p, <2>1, EmptySeq
    DEF Crash, Upset, Gone, IInv, TypeOK, BusyWithMessage, TurnHasLock
<1>5. ASSUME NEW r \in Replicas, Dispatch(r) PROVE IInv'
  <2>1. Head(bus[r]) \in Messages /\ Tail(bus[r]) \in Seq(Messages)
    BY <1>5, <1>t, HeadAndTail DEF Dispatch, TypeOK
  <2>2. /\ bus' \in [Replicas -> Seq(Messages)]
        /\ queue' \in [Replicas -> Seq(Messages)]
    BY <1>5, <1>t, <2>1, AppendProperties DEF Dispatch, TypeOK
  <2> QED
    BY <1>5, <1>t, <2>2
    DEF Dispatch, Gone, Waiting, Active, IInv, TypeOK, BusyWithMessage, TurnHasLock
<1>6. ASSUME NEW r \in Replicas, TakeStop(r) PROVE IInv'
  <2>1. Head(bus[r]) \in Messages /\ Tail(bus[r]) \in Seq(Messages)
    BY <1>6, <1>t, HeadAndTail DEF TakeStop, TypeOK
  <2>2. answers' \in Seq(Answer)
    BY <1>6, <1>t, <2>1, PublishKeepsType DEF TakeStop, TypeOK
  <2> QED
    BY <1>6, <1>t, <2>1, <2>2 DEF TakeStop, IInv, TypeOK, BusyWithMessage, TurnHasLock
<1>7. ASSUME NEW r \in Replicas, CancelTasks(r) PROVE IInv'
  <2>1. stopping[r] \in Messages
    BY <1>7, <1>t DEF CancelTasks, TypeOK
  <2>2. answers' \in Seq(Answer)
    BY <1>7, <1>t, <2>1, PublishKeepsType DEF CancelTasks, TypeOK
  <2> QED
    BY <1>7, <1>t, <2>2, EmptySeq
    DEF CancelTasks, Released, Gone, IInv, TypeOK, BusyWithMessage, TurnHasLock
<1>8. ASSUME NEW r \in Replicas, Take(r) PROVE IInv'
  <2>1. Head(queue[r]) \in Messages /\ Tail(queue[r]) \in Seq(Messages)
    BY <1>8, <1>t, HeadAndTail DEF Take, TypeOK
  <2> QED
    BY <1>8, <1>t, <2>1 DEF Take, IInv, TypeOK, BusyWithMessage, TurnHasLock
<1>9. ASSUME NEW r \in Replicas, Lock(r) PROVE IInv'
  BY <1>9, <1>t DEF Lock, IInv, TypeOK, BusyWithMessage, TurnHasLock
<1>10. ASSUME NEW r \in Replicas, LockTimesOut(r) PROVE IInv'
  <2>1. answers' \in Seq(Answer)
    BY <1>10, <1>t, PublishKeepsType DEF LockTimesOut, TypeOK, BusyWithMessage
  <2> QED
    BY <1>10, <1>t, <2>1
    DEF LockTimesOut, Gone, Waiting, IInv, TypeOK, BusyWithMessage, TurnHasLock
<1>11. ASSUME NEW r \in Replicas, NEW outcome \in {"reply", "cancelled"},
              TurnEnds(r, outcome)
       PROVE  IInv'
  <2>1. /\ \A s \in Replicas \ {r} : worker'[s] = worker[s]
        /\ worker'[r] = [worker[r] EXCEPT !.pc = "ended", !.outcome = outcome]
        /\ worker' = [worker EXCEPT ![r] = worker'[r]]
    BY <1>11, <1>t DEF TurnEnds, TypeOK
  <2>2. /\ worker'[r].pc = "ended" /\ worker'[r].msg = worker[r].msg
        /\ worker'[r].outcome = outcome
        /\ worker'[r] \in [pc : {"none", "waiting", "locking", "turn", "ended"},
                           msg : Messages \cup {0}, outcome : {"reply", "cancelled"}]
    BY <1>11, <1>t, <2>1 DEF TypeOK
  <2>3. lock' \in {NoReplica, lock} /\ lapsed' = lapsed \ {r} /\ worker[r].pc = "turn"
    BY <1>11 DEF TurnEnds, Released
  <2>4. TypeOK'
    BY <1>11, <1>t, <2>1, <2>2, <2>3 DEF TurnEnds, TypeOK
  <2>5. BusyWithMessage'
    BY <1>11, <1>t, <2>1, <2>2, <2>3 DEF IInv, BusyWithMessage
  <2>6. ASSUME NEW s \in Replicas, worker'[s].pc = "turn", s \notin lapsed' PROVE lock' = s
    <3>1. s # r
      BY <2>2, <2>6
    <3>2. lock = s
      BY <1>t, <2>1, <2>3, <2>6, <3>1 DEF IInv, TurnHasLock
    <3> QED
      BY <1>11, <3>1, <3>2 DEF TurnEnds, Released
  <2> QED
    BY <2>4, <2>5, <2>6 DEF IInv, TurnHasLock
<1>12. ASSUME NEW r \in Replicas, PublishOutcome(r) PROVE IInv'
  <2>1. worker[r].msg \in Messages /\ worker[r].outcome \in {"reply", "cancelled"}
    BY <1>12, <1>t DEF PublishOutcome, TypeOK, BusyWithMessage
  <2>2. Publish(r, worker[r].msg, worker[r].outcome) /\ answers \in Seq(Answer)
    BY <1>12, <1>t DEF PublishOutcome, TypeOK
  <2>3. answers' \in Seq(Answer)
    BY <2>1, <2>2, PublishKeepsType
  <2> QED
    BY <1>12, <1>t, <2>3
    DEF PublishOutcome, Gone, Waiting, IInv, TypeOK, BusyWithMessage, TurnHasLock
<1>13. ASSUME NEW r \in Replicas, StrayEnds(r) PROVE IInv'
  BY <1>13, <1>t DEF StrayEnds, IInv, TypeOK, BusyWithMessage, TurnHasLock
<1>14. CASE UNCHANGED vars
  BY <1>14, <1>t DEF vars, IInv, TypeOK, BusyWithMessage, TurnHasLock
<1> QED
  BY <1>1, <1>2, <1>3, <1>4, <1>5, <1>6, <1>7, <1>8, <1>9, <1>10, <1>11, <1>12,
     <1>13, <1>14
  DEF Next, LoopStep, WorkerStep

LEMMA Invariance == Spec => []IInv
BY InitInv, NextInv, PTL DEF Spec

\* Each variable keeps its type, in every replica.
THEOREM Typed == Spec => []TypeOK
<1>1. IInv => TypeOK
  BY DEF IInv
<1> QED
  BY <1>1, Invariance, PTL

\* Two turns of the session overlap only when the lease of one has run out: of two
\* turns whose leases hold, both would have the one lock.
THEOREM TurnsDoNotOverlap == Spec => []OneTurn
<1>1. IInv => OneTurn
  BY DEF IInv, TurnHasLock, OneTurn
<1> QED
  BY <1>1, Invariance, PTL

-----------------------------------------------------------------------------
(* The order of the messages.                                              *)

\* What is appended behind an ascending sequence of smaller messages leaves it so.
LEMMA AppendAscends ==
    ASSUME NEW q \in Seq(Messages), Ascending(q), NEW m \in Messages,
           \A n \in ToSet(q) : n < m
    PROVE  Ascending(Append(q, m)) /\ ToSet(Append(q, m)) = ToSet(q) \cup {m}
<1>1. /\ Append(q, m) \in Seq(Messages) /\ Len(Append(q, m)) = Len(q) + 1
      /\ \A i \in 1 .. Len(q) : Append(q, m)[i] = q[i]
      /\ Append(q, m)[Len(q) + 1] = m
  BY AppendProperties
<1>2. /\ Len(q) \in Nat /\ DOMAIN q = 1 .. Len(q)
      /\ DOMAIN Append(q, m) = 1 .. Len(q) + 1
  BY <1>1, LenProperties
<1>3. Ascending(Append(q, m))
  BY <1>1, <1>2 DEF Ascending, ToSet
<1>4. ToSet(Append(q, m)) = ToSet(q) \cup {m}
  BY <1>1, <1>2 DEF ToSet
<1> QED
  BY <1>3, <1>4

\* The first of an ascending sequence is smaller than the rest, which ascends.
LEMMA TailAscends ==
    ASSUME NEW q \in Seq(Messages), q # <<>>, Ascending(q)
    PROVE  /\ Ascending(Tail(q)) /\ ToSet(Tail(q)) \subseteq ToSet(q)
           /\ Head(q) \in ToSet(q) /\ \A n \in ToSet(Tail(q)) : Head(q) < n
<1>1. /\ Tail(q) \in Seq(Messages) /\ Len(Tail(q)) = Len(q) - 1 /\ Head(q) = q[1]
      /\ \A i \in 1 .. Len(Tail(q)) : Tail(q)[i] = q[i + 1]
  BY HeadTailProperties
<1>2. /\ Len(q) \in Nat /\ DOMAIN q = 1 .. Len(q) /\ Len(q) # 0
      /\ DOMAIN Tail(q) = 1 .. Len(q) - 1
  BY <1>1, LenProperties, EmptySeq
<1> QED
  BY <1>1, <1>2 DEF Ascending, ToSet

\* An empty sequence has no elements.
LEMMA NothingInEmpty == ToSet(<<>>) = {} /\ Ascending(<<>>)
BY DEF ToSet, Ascending

\* An answer to a message behind all those the replica has answered.
LEMMA PublishInOrder ==
    ASSUME NEW r \in Replicas, NEW m \in Messages,
           NEW kind \in {"reply", "cancelled", "busy", "stopped"},
           answers \in Seq(Answer), Publish(r, m, kind), ~crashed, ~crashed',
           AnswersInOrder, Before(Answered(r), {m})
    PROVE  /\ AnswersInOrder'
           /\ Answered(r)' = Answered(r) \cup {m}
           /\ \A s \in Replicas \ {r} : Answered(s)' = Answered(s)
<1> DEFINE answer == [msg |-> m, kind |-> kind, by |-> r]
<1>1. answer \in Answer
  BY DEF Answer
<1>2. /\ answers' \in Seq(Answer) /\ Len(answers') = Len(answers) + 1
      /\ \A i \in 1 .. Len(answers) : answers'[i] = answers[i]
      /\ answers'[Len(answers) + 1] = answer
  BY <1>1, AppendProperties DEF Publish
<1>3. /\ Len(answers) \in Nat /\ DOMAIN answers = 1 .. Len(answers)
      /\ DOMAIN answers' = 1 .. Len(answers) + 1
  BY <1>2, LenProperties
<1>4. \A i \in DOMAIN answers : answers[i].by = r => answers[i].msg < m
  BY DEF Before, Answered
<1>5. AnswersInOrder'
  BY <1>2, <1>3, <1>4 DEF AnswersInOrder
<1>6. \A i \in DOMAIN answers' : i \in DOMAIN answers \/ i = Len(answers) + 1
  BY <1>3
<1>7. DOMAIN answers \subseteq DOMAIN answers' /\ Len(answers) + 1 \in DOMAIN answers'
  BY <1>3
<1>8. Answered(r)' = Answered(r) \cup {m}
  BY <1>2, <1>3, <1>6, <1>7 DEF Answered
<1>9. ASSUME NEW s \in Replicas \ {r} PROVE Answered(s)' = Answered(s)
  BY <1>2, <1>3, <1>6, <1>7 DEF Answered
<1> QED
  BY <1>5, <1>8, <1>9

LEMMA InitLine == Init => LineInv
<1> SUFFICES ASSUME Init PROVE LineInv
  OBVIOUS
<1>1. \A r \in Replicas : /\ bus[r] = <<>> /\ queue[r] = <<>> /\ stopping[r] = 0
                          /\ worker[r] = Gone /\ token[r] = "none"
  BY DEF Init
<1>2. \A r \in Replicas : AtWork(r) = {} /\ Stopping(r) = {} /\ ~Busy(r)
  BY <1>1 DEF AtWork, Stopping, Busy, Gone
<1>3. answers = <<>> /\ DOMAIN answers = {}
  BY DEF Init
<1>4. AnswersInOrder /\ \A r \in Replicas : Answered(r) = {}
  BY <1>3 DEF AnswersInOrder, Answered
<1>5. LineInOrder
  BY <1>1, <1>2, NothingInEmpty DEF LineInOrder, InOrder, Before, Init
<1>6. AnsweredBefore
  BY <1>4 DEF AnsweredBefore, Behind, Before
<1>7. WorkerServesQueue /\ StopOwnsToken
  BY <1>1, <1>2 DEF WorkerServesQueue, StopOwnsToken, Active, Gone
<1> QED
  BY <1>4, <1>5, <1>6, <1>7 DEF LineInv

\* A replica that a step leaves alone keeps its line.
LEMMA Untouched ==
    ASSUME NEW r \in Replicas, InOrder(r), Taken(r) \subseteq Taken(r)',
           worker'[r] = worker[r], queue'[r] = queue[r], stopping'[r] = stopping[r],
           bus'[r] = bus[r]
    PROVE  InOrder(r)' /\ (Behind(r) /\ Answered(r)' = Answered(r) => Behind(r)')
<1>1. AtWork(r)' = AtWork(r) /\ Stopping(r)' = Stopping(r)
  BY DEF AtWork, Busy, Stopping
<1>2. InOrder(r)'
  BY <1>1 DEF InOrder
<1>3. ASSUME Behind(r), Answered(r)' = Answered(r) PROVE Behind(r)'
  BY <1>1, <1>3 DEF Behind
<1> QED
  BY <1>2, <1>3

\* The steps after which a replica has the partition as before, and answers as before.
LEMMA SameTaken ==
    ASSUME UNCHANGED <<position, committed, owner>>, NEW r \in Replicas
    PROVE  Taken(r)' = Taken(r)
BY DEF Taken

LEMMA SameAnswered ==
    ASSUME UNCHANGED answers, NEW r \in Replicas
    PROVE  Answered(r)' = Answered(r)
BY DEF Answered

\* Every action keeps the order; one step for each.
LEMMA NextLine == IInv /\ LineInv /\ [Next]_vars => LineInv'
<1> SUFFICES ASSUME IInv, LineInv, [Next]_vars PROVE LineInv'
  OBVIOUS
<1>t. /\ TypeOK /\ BusyWithMessage
      /\ LineInOrder /\ WorkerServesQueue /\ StopOwnsToken
      /\ AnsweredBefore /\ AnswersInOrder
  BY DEF IInv, LineInv
<1>n. Messages \subseteq Nat \ {0} /\ {committed, position} \subseteq Nat
  <2>1. \A p \in Partitions : DOMAIN p \subseteq Nat \ {0}
    BY DispatchAssumption, LenProperties
  <2>2. Len(partition) \in Nat
    BY <1>t, DispatchAssumption, LenProperties DEF TypeOK
  <2> QED
    BY <2>1, <2>2, <1>t DEF Messages, TypeOK
<1>s. \A r \in Replicas : bus[r] \in Seq(Messages) /\ queue[r] \in Seq(Messages)
  BY <1>t DEF TypeOK
<1>1. CASE LeaseLapses
  <2>1. UNCHANGED <<position, committed, owner, bus, queue, worker, token, stopping,
                    answers, crashed>>
    BY <1>1 DEF LeaseLapses
  <2>2. \A r \in Replicas : InOrder(r)' /\ (Behind(r) => Behind(r)')
    BY <1>t, <2>1, Untouched, SameTaken, SameAnswered DEF LineInOrder
  <2> QED
    BY <1>t, <2>1, <2>2
    DEF LineInv, LineInOrder, WorkerServesQueue, StopOwnsToken, AnsweredBefore,
        AnswersInOrder, Active, Busy
<1>2. ASSUME NEW r \in Replicas, Receive(r) PROVE LineInv'
  <2>1. /\ owner = r /\ position' = position + 1 /\ UNCHANGED <<committed, owner>>
        /\ bus' = [bus EXCEPT ![r] = Append(@, position + 1)]
        /\ UNCHANGED <<queue, worker, token, stopping, answers, crashed>>
    BY <1>2 DEF Receive
  <2>2. position + 1 \in Messages
    <3>1. position + 1 \in 1 .. Len(partition) /\ partition \in Partitions
      <4>1. Len(partition) \in Nat
        BY <1>t, DispatchAssumption, LenProperties DEF TypeOK
      <4> QED
        BY <1>2, <1>t, <1>n, <4>1 DEF Receive, TypeOK
    <3> QED
      BY <3>1, OffsetsAreMessages
  <2>3. Taken(r) = 1 .. position /\ Taken(r)' = Taken(r) \cup {position + 1}
    BY <2>1, <1>n DEF Taken
  <2>4. InOrder(r)
    BY <1>t DEF LineInOrder
  <2>5. \A m \in ToSet(bus[r]) : m < position + 1
    BY <2>3, <2>4, <1>n DEF InOrder
  <2>6. /\ bus'[r] = Append(bus[r], position + 1) /\ Ascending(bus'[r])
        /\ ToSet(bus'[r]) = ToSet(bus[r]) \cup {position + 1}
    <3>1. bus'[r] = Append(bus[r], position + 1)
      BY <2>1, <1>t DEF TypeOK
    <3> QED
      BY <3>1, <2>2, <2>4, <2>5, <1>s, AppendAscends DEF InOrder
  <2>7. AtWork(r)' = AtWork(r) /\ Stopping(r)' = Stopping(r) /\ Answered(r)' = Answered(r)
    BY <2>1 DEF AtWork, Busy, Stopping, Answered
  <2>8. InOrder(r)'
    BY <2>1, <2>3, <2>4, <2>6, <2>7, <1>n DEF InOrder, Before
  <2>9. Behind(r) => Behind(r)'
    BY <2>1, <2>3, <2>6, <2>7, <1>n DEF Behind, Before
  <2>10. ASSUME NEW s \in Replicas \ {r} PROVE InOrder(s)' /\ (Behind(s) => Behind(s)')
    <3>1. Taken(s) \subseteq Taken(s)' /\ bus'[s] = bus[s] /\ Answered(s)' = Answered(s)
      BY <2>1, <1>t DEF Taken, TypeOK, Answered
    <3> QED
      BY <1>t, <2>1, <3>1, Untouched DEF LineInOrder
  <2> QED
    BY <1>t, <1>n, <2>1, <2>8, <2>9, <2>10
    DEF LineInv, LineInOrder, WorkerServesQueue, StopOwnsToken, AnsweredBefore,
        AnswersInOrder, Active, Busy
<1>3. ASSUME NEW r \in Replicas, Move(r) PROVE LineInv'
  <2>1. /\ owner' = r /\ committed' = position /\ position' = position
        /\ UNCHANGED <<bus, queue, worker, token, stopping, answers, crashed>>
    BY <1>3 DEF Move
  <2>2. \A s \in Replicas : Taken(s) \subseteq Taken(s)' /\ Answered(s)' = Answered(s)
    BY <2>1, <1>t, <1>n DEF Taken, LineInOrder, Answered
  <2>3. \A s \in Replicas : InOrder(s)' /\ (Behind(s) => Behind(s)')
    BY <1>t, <2>1, <2>2, Untouched DEF LineInOrder
  <2> QED
    BY <1>t, <1>n, <2>1, <2>3
    DEF LineInv, LineInOrder, WorkerServesQueue, StopOwnsToken, AnsweredBefore,
        AnswersInOrder, Active, Busy
<1>4. ASSUME NEW r \in Replicas, Crash(r) PROVE LineInv'
  <2>1. /\ bus' = [bus EXCEPT ![r] = <<>>] /\ queue' = [queue EXCEPT ![r] = <<>>]
        /\ worker' = [worker EXCEPT ![r] = Gone] /\ token' = [token EXCEPT ![r] = "none"]
        /\ stopping' = [stopping EXCEPT ![r] = 0] /\ crashed'
    BY <1>4 DEF Crash
  <2>2. /\ committed' \in Nat /\ position' \in Nat
        /\ committed <= committed' /\ committed' <= position'
        /\ owner # r => UNCHANGED <<owner, position, committed>>
    BY <1>4, <1>t, <1>n DEF Crash, LineInOrder
  <2>3. /\ bus'[r] = <<>> /\ queue'[r] = <<>> /\ stopping'[r] = 0 /\ worker'[r] = Gone
        /\ token'[r] = "none"
    BY <2>1, <1>t DEF TypeOK
  <2>4. InOrder(r)'
    <3>1. AtWork(r)' = {} /\ Stopping(r)' = {}
      BY <2>3 DEF AtWork, Busy, Stopping, Gone
    <3> QED
      BY <2>3, <3>1, NothingInEmpty DEF InOrder, Before
  <2>5. ASSUME NEW s \in Replicas \ {r} PROVE InOrder(s)'
    <3>1. Taken(s) \subseteq Taken(s)'
      BY <2>2, <1>t, <1>n DEF Taken
    <3>2. /\ worker'[s] = worker[s] /\ queue'[s] = queue[s] /\ stopping'[s] = stopping[s]
          /\ bus'[s] = bus[s]
      BY <2>1, <1>t DEF TypeOK
    <3> QED
      BY <1>t, <3>1, <3>2, Untouched DEF LineInOrder
  <2>6. WorkerServesQueue' /\ StopOwnsToken'
    BY <1>t, <2>1 DEF WorkerServesQueue, StopOwnsToken, Active, Busy, Gone, TypeOK
  <2> QED
    BY <2>1, <2>2, <2>4, <2>5, <2>6
    DEF LineInv, LineInOrder, AnsweredBefore, AnswersInOrder
<1>5. ASSUME NEW r \in Replicas, Dispatch(r) PROVE LineInv'
  <2> DEFINE m == Head(bus[r])
  <2>1. /\ stopping[r] = 0 /\ bus[r] # <<>>
        /\ bus'[r] = Tail(bus[r]) /\ queue'[r] = Append(queue[r], m)
        /\ worker'[r] = IF Active(r) THEN worker[r] ELSE Waiting
        /\ token'[r] = (IF token[r] = "none" THEN "live" ELSE token[r])
        /\ UNCHANGED <<committed, position, owner, stopping, answers, crashed>>
        /\ \A s \in Replicas \ {r} : /\ bus'[s] = bus[s] /\ queue'[s] = queue[s]
                                     /\ worker'[s] = worker[s] /\ token'[s] = token[s]
    BY <1>5, <1>t DEF Dispatch, TypeOK
  <2>2. InOrder(r)
    BY <1>t DEF LineInOrder
  <2>3. /\ m \in ToSet(bus[r]) /\ m \in Messages
        /\ Ascending(bus'[r]) /\ ToSet(bus'[r]) \subseteq ToSet(bus[r])
        /\ \A n \in ToSet(bus'[r]) : m < n
    BY <2>1, <2>2, <1>s, TailAscends, HeadAndTail DEF InOrder
  <2>4. Ascending(queue'[r]) /\ ToSet(queue'[r]) = ToSet(queue[r]) \cup {m}
    <3>1. \A n \in ToSet(queue[r]) : n < m
      BY <2>2, <2>3 DEF InOrder, Before
    <3> QED
      BY <3>1, <2>1, <2>2, <2>3, <1>s, AppendAscends DEF InOrder
  <2>5. /\ AtWork(r)' = AtWork(r) /\ Stopping(r)' = {} /\ Stopping(r) = {}
        /\ Answered(r)' = Answered(r) /\ Taken(r)' = Taken(r)
        /\ Active(r)' /\ (~Busy(r)' => worker'[r].msg = 0)
    <3>1. Stopping(r)' = {} /\ Stopping(r) = {}
      BY <2>1 DEF Stopping
    <3>2. Answered(r)' = Answered(r) /\ Taken(r)' = Taken(r)
      BY <2>1, SameAnswered, SameTaken
    <3>3. CASE Active(r)
      BY <1>t, <2>1, <3>1, <3>2, <3>3 DEF AtWork, Busy, Active, WorkerServesQueue
    <3>4. CASE ~Active(r)
      BY <2>1, <3>1, <3>2, <3>4 DEF AtWork, Busy, Active, Waiting, Gone
    <3> QED
      BY <3>3, <3>4
  <2>6. InOrder(r)'
    BY <2>2, <2>3, <2>4, <2>5 DEF InOrder, Before
  <2>7. Behind(r) => Behind(r)'
    BY <2>3, <2>4, <2>5 DEF Behind, Before
  <2>8. ASSUME NEW s \in Replicas \ {r} PROVE InOrder(s)' /\ (Behind(s) => Behind(s)')
    BY <1>t, <2>1, Untouched, SameTaken, SameAnswered DEF LineInOrder
  <2>9. WorkerServesQueue' /\ StopOwnsToken'
    BY <1>t, <2>1, <2>5 DEF WorkerServesQueue, StopOwnsToken, Active, Busy
  <2> QED
    BY <1>t, <2>1, <2>6, <2>7, <2>8, <2>9
    DEF LineInv, LineInOrder, AnsweredBefore, AnswersInOrder
<1>6. ASSUME NEW r \in Replicas, TakeStop(r) PROVE LineInv'
  <2> DEFINE m == Head(bus[r])
  <2>1. /\ stopping[r] = 0 /\ bus[r] # <<>> /\ bus'[r] = Tail(bus[r])
        /\ token'[r] = (IF token[r] = "none" THEN "none" ELSE "cancelled")
        /\ UNCHANGED <<committed, position, owner, queue, worker, crashed>>
        /\ \A s \in Replicas \ {r} : /\ bus'[s] = bus[s] /\ token'[s] = token[s]
                                     /\ stopping'[s] = stopping[s]
    BY <1>6, <1>t DEF TakeStop, TypeOK
  <2>2. InOrder(r)
    BY <1>t DEF LineInOrder
  <2>3. /\ m \in ToSet(bus[r]) /\ m \in Messages
        /\ Ascending(bus'[r]) /\ ToSet(bus'[r]) \subseteq ToSet(bus[r])
        /\ \A n \in ToSet(bus'[r]) : m < n
    BY <2>1, <2>2, <1>s, TailAscends, HeadAndTail DEF InOrder
  <2>4. AtWork(r)' = AtWork(r) /\ Stopping(r) = {} /\ Taken(r)' = Taken(r)
    BY <2>1 DEF AtWork, Busy, Stopping, Taken
  <2>5. ASSUME NEW s \in Replicas \ {r}
        PROVE  InOrder(s)' /\ (Behind(s) /\ Answered(s)' = Answered(s) => Behind(s)')
    BY <1>t, <2>1, Untouched, SameTaken DEF LineInOrder
  <2>6. CASE Active(r)
    <3>1. stopping'[r] = m /\ m # 0 /\ UNCHANGED answers
      BY <1>6, <1>t, <1>n, <2>3, <2>6 DEF TakeStop, TypeOK
    <3>2. Stopping(r)' = {m} /\ \A s \in Replicas : Answered(s)' = Answered(s)
      BY <3>1, SameAnswered DEF Stopping
    <3>3. InOrder(r)'
      BY <2>1, <2>2, <2>3, <2>4, <3>2 DEF InOrder, Before
    <3>4. Behind(r) => Behind(r)'
      BY <2>1, <2>3, <2>4, <3>2 DEF Behind, Before
    <3>5. WorkerServesQueue' /\ StopOwnsToken'
      BY <1>t, <2>1, <2>6, <3>1 DEF WorkerServesQueue, StopOwnsToken, Active, Busy
    <3> QED
      BY <1>t, <2>1, <2>5, <3>1, <3>2, <3>3, <3>4, <3>5
      DEF LineInv, LineInOrder, AnsweredBefore, AnswersInOrder
  <2>7. CASE ~Active(r)
    <3>1. Publish(r, m, "stopped") /\ UNCHANGED stopping
      BY <1>6, <2>7 DEF TakeStop
    <3>2. queue[r] = <<>> /\ token[r] = "none" /\ AtWork(r) = {} /\ Stopping(r)' = {}
      BY <1>t, <2>1, <2>7, <3>1 DEF WorkerServesQueue, AtWork, Active, Busy, Stopping
    <3>3. InOrder(r)'
      BY <2>1, <2>2, <2>3, <2>4, <3>2 DEF InOrder, Before
    <3>4. WorkerServesQueue' /\ StopOwnsToken'
      BY <1>t, <2>1, <3>1, <3>2 DEF WorkerServesQueue, StopOwnsToken, Active, Busy
    <3>5. ASSUME ~crashed
          PROVE  AnswersInOrder' /\ \A s \in Replicas : Behind(s)'
      <4>1. Behind(r) /\ \A s \in Replicas : Behind(s)
        BY <1>t, <3>5 DEF AnsweredBefore
      <4>2. Before(Answered(r), {m}) /\ answers \in Seq(Answer) /\ ~crashed'
        BY <4>1, <2>1, <2>3, <3>5, <1>t DEF Behind, Before, TypeOK
      <4>3. /\ AnswersInOrder' /\ Answered(r)' = Answered(r) \cup {m}
            /\ \A s \in Replicas \ {r} : Answered(s)' = Answered(s)
        BY <1>t, <2>3, <3>1, <3>5, <4>2, PublishInOrder
      <4>4. Behind(r)'
        <5>1. m \in Taken(r)
          BY <2>2, <2>3 DEF InOrder
        <5>2. ToSet(queue'[r]) = {} /\ AtWork(r)' = {}
          BY <2>1, <2>4, <3>2, NothingInEmpty
        <5>3. Before(Answered(r), ToSet(bus'[r]))
          BY <4>1, <2>3 DEF Behind, Before
        <5> QED
          BY <2>3, <2>4, <3>2, <4>1, <4>3, <5>1, <5>2, <5>3 DEF Behind, Before
      <4> QED
        BY <2>5, <4>1, <4>3, <4>4
    <3> QED
      BY <1>t, <2>1, <2>5, <3>3, <3>4, <3>5
      DEF LineInv, LineInOrder, AnsweredBefore, AnswersInOrder
  <2> QED
    BY <2>6, <2>7
<1>7. ASSUME NEW r \in Replicas, CancelTasks(r) PROVE LineInv'
  <2> DEFINE m == stopping[r]
  <2>1. /\ m # 0 /\ m \in Messages /\ queue'[r] = <<>> /\ worker'[r] = Gone
        /\ token'[r] = "none" /\ stopping'[r] = 0 /\ Publish(r, m, "stopped")
        /\ UNCHANGED <<committed, position, owner, bus, crashed>>
        /\ \A s \in Replicas \ {r} : /\ queue'[s] = queue[s] /\ worker'[s] = worker[s]
                                     /\ token'[s] = token[s] /\ stopping'[s] = stopping[s]
    BY <1>7, <1>t DEF CancelTasks, TypeOK
  <2>2. InOrder(r) /\ Stopping(r) = {m}
    BY <1>t, <2>1 DEF LineInOrder, Stopping
  <2>3. /\ AtWork(r)' = {} /\ Stopping(r)' = {} /\ ToSet(queue'[r]) = {}
        /\ Ascending(queue'[r]) /\ Taken(r)' = Taken(r)
    BY <2>1, NothingInEmpty DEF AtWork, Busy, Gone, Stopping, Taken
  <2>4. InOrder(r)'
    BY <2>1, <2>2, <2>3 DEF InOrder, Before
  <2>5. ASSUME NEW s \in Replicas \ {r}
        PROVE  InOrder(s)' /\ (Behind(s) /\ Answered(s)' = Answered(s) => Behind(s)')
    BY <1>t, <2>1, Untouched, SameTaken DEF LineInOrder
  <2>6. WorkerServesQueue' /\ StopOwnsToken'
    BY <1>t, <2>1 DEF WorkerServesQueue, StopOwnsToken, Active, Busy, Gone
  <2>7. ASSUME ~crashed PROVE AnswersInOrder' /\ \A s \in Replicas : Behind(s)'
    <3>1. \A s \in Replicas : Behind(s)
      BY <1>t, <2>7 DEF AnsweredBefore
    <3>2. Before(Answered(r), {m}) /\ answers \in Seq(Answer) /\ ~crashed'
      BY <3>1, <2>1, <2>2, <2>7, <1>t DEF Behind, Before, TypeOK
    <3>3. /\ AnswersInOrder' /\ Answered(r)' = Answered(r) \cup {m}
          /\ \A s \in Replicas \ {r} : Answered(s)' = Answered(s)
      BY <1>t, <2>1, <2>7, <3>2, PublishInOrder
    <3>4. Behind(r)'
      BY <2>1, <2>2, <2>3, <3>1, <3>3 DEF Behind, InOrder, Before
    <3> QED
      BY <2>5, <3>1, <3>3, <3>4
  <2> QED
    BY <1>t, <2>1, <2>4, <2>5, <2>6, <2>7
    DEF LineInv, LineInOrder, AnsweredBefore, AnswersInOrder
<1>8. ASSUME NEW r \in Replicas, Take(r) PROVE LineInv'
  <2> DEFINE m == Head(queue[r])
  <2>1. /\ worker[r].pc = "waiting" /\ queue[r] # <<>> /\ queue'[r] = Tail(queue[r])
        /\ worker'[r].pc = "locking" /\ worker'[r].msg = m
        /\ UNCHANGED <<committed, position, owner, bus, token, stopping, answers, crashed>>
        /\ \A s \in Replicas \ {r} : queue'[s] = queue[s] /\ worker'[s] = worker[s]
    BY <1>8, <1>t DEF Take, TypeOK
  <2>2. InOrder(r)
    BY <1>t DEF LineInOrder
  <2>3. /\ m \in ToSet(queue[r])
        /\ Ascending(queue'[r]) /\ ToSet(queue'[r]) \subseteq ToSet(queue[r])
        /\ \A n \in ToSet(queue'[r]) : m < n
    BY <2>1, <2>2, <1>s, TailAscends DEF InOrder
  <2>4. /\ AtWork(r)' = {m} /\ Stopping(r)' = Stopping(r) /\ Taken(r)' = Taken(r)
        /\ Answered(r)' = Answered(r)
    BY <2>1 DEF AtWork, Busy, Stopping, Taken, Answered
  <2>5. InOrder(r)'
    BY <2>1, <2>2, <2>3, <2>4 DEF InOrder, Before
  <2>6. Behind(r) => Behind(r)'
    BY <2>1, <2>3, <2>4 DEF Behind, Before
  <2>7. ASSUME NEW s \in Replicas \ {r} PROVE InOrder(s)' /\ (Behind(s) => Behind(s)')
    BY <1>t, <2>1, Untouched, SameTaken, SameAnswered DEF LineInOrder
  <2>8. WorkerServesQueue' /\ StopOwnsToken'
    BY <1>t, <2>1 DEF WorkerServesQueue, StopOwnsToken, Active, Busy
  <2> QED
    BY <1>t, <2>1, <2>5, <2>6, <2>7, <2>8
    DEF LineInv, LineInOrder, AnsweredBefore, AnswersInOrder
\* Between Lock and the end of the turn the worker keeps its message.
<1>9. ASSUME NEW r \in Replicas,
             Lock(r) \/ \E outcome \in {"reply", "cancelled"} : TurnEnds(r, outcome)
      PROVE  LineInv'
  <2>1. /\ Busy(r) /\ Busy(r)' /\ worker'[r].msg = worker[r].msg
        /\ UNCHANGED <<committed, position, owner, bus, queue, token, stopping, answers,
                       crashed>>
        /\ \A s \in Replicas \ {r} : worker'[s] = worker[s]
    BY <1>9, <1>t DEF Lock, TurnEnds, Busy, TypeOK
  <2>2. /\ AtWork(r)' = AtWork(r) /\ Stopping(r)' = Stopping(r) /\ Taken(r)' = Taken(r)
        /\ Answered(r)' = Answered(r)
    BY <2>1 DEF AtWork, Stopping, Taken, Answered
  <2>3. InOrder(r)' /\ (Behind(r) => Behind(r)')
    BY <1>t, <2>1, <2>2 DEF LineInOrder, InOrder, Behind
  <2>4. ASSUME NEW s \in Replicas \ {r} PROVE InOrder(s)' /\ (Behind(s) => Behind(s)')
    BY <1>t, <2>1, Untouched, SameTaken, SameAnswered DEF LineInOrder
  <2>5. WorkerServesQueue' /\ StopOwnsToken'
    BY <1>t, <2>1 DEF WorkerServesQueue, StopOwnsToken, Active, Busy
  <2> QED
    BY <1>t, <2>1, <2>3, <2>4, <2>5
    DEF LineInv, LineInOrder, AnsweredBefore, AnswersInOrder
<1>10. ASSUME NEW r \in Replicas, LockTimesOut(r) \/ PublishOutcome(r) PROVE LineInv'
  <2> DEFINE m == worker[r].msg
  <2>1. PICK kind \in {"reply", "cancelled", "busy", "stopped"} : Publish(r, m, kind)
    BY <1>10, <1>t DEF LockTimesOut, PublishOutcome, TypeOK
  <2>2. /\ Busy(r) /\ m \in Messages /\ worker'[r] = Waiting
        /\ UNCHANGED <<committed, position, owner, bus, queue, token, stopping, crashed>>
        /\ \A s \in Replicas \ {r} : worker'[s] = worker[s]
    BY <1>10, <1>t DEF LockTimesOut, PublishOutcome, Busy, BusyWithMessage, TypeOK
  <2>3. /\ AtWork(r) = {m} /\ AtWork(r)' = {} /\ Stopping(r)' = Stopping(r)
        /\ Taken(r)' = Taken(r) /\ ~Busy(r)' /\ Active(r)' /\ worker'[r].msg = 0
    BY <2>2 DEF AtWork, Busy, Stopping, Taken, Waiting, Gone, Active
  <2>4. InOrder(r) /\ InOrder(r)'
    BY <1>t, <2>2, <2>3 DEF LineInOrder, InOrder, Before
  <2>5. ASSUME NEW s \in Replicas \ {r}
        PROVE  InOrder(s)' /\ (Behind(s) /\ Answered(s)' = Answered(s) => Behind(s)')
    BY <1>t, <2>2, Untouched, SameTaken DEF LineInOrder
  <2>6. WorkerServesQueue' /\ StopOwnsToken'
    BY <1>t, <2>2, <2>3 DEF WorkerServesQueue, StopOwnsToken, Active, Busy
  <2>7. ASSUME ~crashed PROVE AnswersInOrder' /\ \A s \in Replicas : Behind(s)'
    <3>1. \A s \in Replicas : Behind(s)
      BY <1>t, <2>7 DEF AnsweredBefore
    <3>2. Before(Answered(r), {m}) /\ answers \in Seq(Answer) /\ ~crashed'
      BY <3>1, <2>2, <2>3, <2>7, <1>t DEF Behind, Before, TypeOK
    <3>3. /\ AnswersInOrder' /\ Answered(r)' = Answered(r) \cup {m}
          /\ \A s \in Replicas \ {r} : Answered(s)' = Answered(s)
      BY <1>t, <2>1, <2>2, <2>7, <3>2, PublishInOrder
    <3>4. Behind(r)'
      BY <2>2, <2>3, <2>4, <3>1, <3>3 DEF Behind, InOrder, Before
    <3> QED
      BY <2>5, <3>1, <3>3, <3>4
  <2> QED
    BY <1>t, <2>2, <2>4, <2>5, <2>6, <2>7
    DEF LineInv, LineInOrder, AnsweredBefore, AnswersInOrder
<1>11. CASE (\E r \in Replicas : StrayEnds(r)) \/ UNCHANGED vars
  <2>1. UNCHANGED <<position, committed, owner, bus, queue, worker, token, stopping,
                    answers, crashed>>
    BY <1>11 DEF StrayEnds, vars
  <2>2. \A r \in Replicas : InOrder(r)' /\ (Behind(r) => Behind(r)')
    BY <1>t, <2>1, Untouched, SameTaken, SameAnswered DEF LineInOrder
  <2> QED
    BY <1>t, <2>1, <2>2
    DEF LineInv, LineInOrder, WorkerServesQueue, StopOwnsToken, AnsweredBefore,
        AnswersInOrder, Active, Busy
<1> QED
  BY <1>1, <1>2, <1>3, <1>4, <1>5, <1>6, <1>7, <1>8, <1>9, <1>10, <1>11
  DEF Next, LoopStep, WorkerStep

LEMMA LineInvariance == Spec => [](IInv /\ LineInv)
BY InitInv, NextInv, InitLine, NextLine, PTL DEF Spec

\* What a replica publishes follows the order of the messages, across rebalances,
\* /stop and cancelled turns, as long as no process crashes.
THEOREM AnswersAreInOrder == Spec => []AnswersInOrder
<1>1. LineInv => AnswersInOrder
  BY DEF LineInv
<1> QED
  BY <1>1, LineInvariance, PTL

\* A message is cancelled only by a /stop that came behind it, also after crashes.
THEOREM StopsCancelBackwards == Spec => []CancelledByLaterStop
<1>1. IInv /\ LineInv => CancelledByLaterStop
  <2> SUFFICES ASSUME IInv, LineInv, NEW r \in Replicas, token[r] = "cancelled", Active(r)
               PROVE  /\ stopping[r] # 0
                      /\ worker[r].msg < stopping[r]
                      /\ \A i \in DOMAIN queue[r] : queue[r][i] < stopping[r]
    BY DEF CancelledByLaterStop
  <2>1. stopping[r] # 0 /\ Stopping(r) = {stopping[r]} /\ stopping[r] \in Nat
    <3>1. stopping[r] # 0 /\ stopping[r] \in Messages
      BY DEF LineInv, StopOwnsToken, IInv, TypeOK
    <3>2. \A p \in Partitions : DOMAIN p \subseteq Nat
      BY DispatchAssumption, LenProperties
    <3> QED
      BY <3>1, <3>2 DEF Stopping, Messages
  <2>2. InOrder(r)
    BY DEF LineInv, LineInOrder
  <2>3. worker[r].msg < stopping[r]
    <3>1. CASE Busy(r)
      BY <3>1, <2>1, <2>2 DEF InOrder, Before, AtWork
    <3>2. CASE ~Busy(r)
      BY <3>2, <2>1 DEF LineInv, WorkerServesQueue
    <3> QED
      BY <3>1, <3>2
  <2>4. \A i \in DOMAIN queue[r] : queue[r][i] < stopping[r]
    BY <2>1, <2>2 DEF InOrder, Before, ToSet
  <2> QED
    BY <2>1, <2>3, <2>4
<1> QED
  BY <1>1, LineInvariance, PTL
=============================================================================
