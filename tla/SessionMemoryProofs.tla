------------------------ MODULE SessionMemoryProofs ------------------------
(***************************************************************************)
(* Proofs about SessionMemory, for any chats, scripts, prompt sizes and    *)
(* number of failures: the types, that no turn counts as consolidated and  *)
(* no fact is missed that is not in the history, what becomes of the turns *)
(* that leave a session, and of those that are archived.  MemoryInv and    *)
(* KnownInv are inductive together: that a turn's own fact is not in the   *)
(* memory without being in the history needs that no turn of its message   *)
(* has ended before.  SharingInv and FailuresInv follow the count of       *)
(* failures that an archive shares with the consolidation of its turn.     *)
(***************************************************************************)
EXTENDS SessionMemory, TLAPS

-----------------------------------------------------------------------------
(* The operators on sessions.                                              *)

LEMMA SessionTypes ==
    ASSUME NEW s \in Sessions
    PROVE  /\ s.turns \in Seq(Units) /\ s.consolidated \in Nat /\ s.scanned \in Nat
           /\ Len(s.turns) \in Nat /\ DOMAIN s.turns = 1 .. Len(s.turns)
           /\ \A i \in DOMAIN s.turns : s.turns[i] \in Units
BY DEF Sessions

\* session[last_consolidated:], whatever the number says.
LEMMA UnconsolidatedIs ==
    ASSUME NEW s \in Sessions
    PROVE  /\ Unconsolidated(s) \in Seq(Units)
           /\ DOMAIN Unconsolidated(s) = 1 .. Len(Unconsolidated(s))
           /\ Len(Unconsolidated(s)) \in Nat
           /\ Len(Unconsolidated(s)) <= Len(s.turns)
           /\ s.consolidated <= Len(s.turns) =>
                Len(Unconsolidated(s)) = Len(s.turns) - s.consolidated
           /\ \A i \in DOMAIN Unconsolidated(s) :
                /\ s.consolidated + i \in DOMAIN s.turns
                /\ Unconsolidated(s)[i] = s.turns[s.consolidated + i]
<1>1. PICK q : q = s.turns
  OBVIOUS
<1>2. PICK k : k = s.consolidated
  OBVIOUS
<1>3. q \in Seq(Units) /\ k \in Nat
  BY <1>1, <1>2, SessionTypes
<1>4. Unconsolidated(s) = SubSeq(q, k + 1, Len(q))
  BY <1>1, <1>2 DEF Unconsolidated
<1>5. /\ SubSeq(q, k + 1, Len(q)) \in Seq(Units)
      /\ Len(SubSeq(q, k + 1, Len(q))) = IF k <= Len(q) THEN Len(q) - k ELSE 0
  BY <1>3
<1>6. \A i \in DOMAIN SubSeq(q, k + 1, Len(q)) :
        k + i \in DOMAIN q /\ SubSeq(q, k + 1, Len(q))[i] = q[k + i]
  <2> SUFFICES ASSUME NEW i \in DOMAIN SubSeq(q, k + 1, Len(q))
               PROVE  k + i \in DOMAIN q /\ SubSeq(q, k + 1, Len(q))[i] = q[k + i]
    OBVIOUS
  <2>1. i \in 1..(Len(q) - k) /\ k <= Len(q) /\ Len(q) \in Nat
    BY <1>3, <1>5
  <2>2. k + i \in 1..Len(q)
    BY <1>3, <2>1
  <2>3. SubSeq(q, k + 1, Len(q))[i] = q[(k + 1) + i - 1]
    BY <1>3, <2>1, <2>2
  <2>4. (k + 1) + i - 1 = k + i
    BY <1>3, <2>1
  <2> QED
    BY <1>3, <2>2, <2>3, <2>4
<1>7. Len(q) \in Nat
  BY <1>3
<1> PICK w : w = SubSeq(q, k + 1, Len(q))
  OBVIOUS
<1>8. w = Unconsolidated(s)
  BY <1>4
<1>9. w \in Seq(Units) /\ DOMAIN w = 1 .. Len(w) /\ Len(w) \in Nat
  BY <1>5
<1>10. Len(w) <= Len(q) /\ (k <= Len(q) => Len(w) = Len(q) - k)
  BY <1>3, <1>5, <1>7
<1>11. \A i \in DOMAIN w : k + i \in DOMAIN q /\ w[i] = q[k + i]
  BY <1>6
<1> QED
  BY <1>1, <1>2, <1>8, <1>9, <1>10, <1>11

LEMMA BoundaryIs ==
    ASSUME NEW s \in Sessions
    PROVE  Boundary(s) \in Int /\ Boundary(s) <= Len(Unconsolidated(s)) - 1
<1>1. Len(Unconsolidated(s)) \in Nat
  BY UnconsolidatedIs
<1>2. Estimate(s) \in Int /\ Target \in Int
  BY <1>1, MemoryAssumption DEF Estimate, Target
<1> QED
  BY <1>1, <1>2 DEF Boundary

LEMMA EditedSessions ==
    ASSUME NEW s \in Sessions
    PROVE  /\ Scanned(s) \in Sessions /\ Scanned(s).turns = s.turns
           /\ Scanned(s).consolidated = s.consolidated /\ Scanned(s).scanned = Len(s.turns)
           /\ Cleared(s) \in Sessions /\ Cleared(s).turns = <<>>
           /\ Cleared(s).consolidated = 0 /\ Cleared(s).scanned = s.scanned
<1>1. Len(s.turns) \in Nat /\ <<>> \in Seq(Units)
  BY SessionTypes
<1> QED
  BY <1>1 DEF Scanned, Cleared, Sessions

LEMMA NewTaskIs ==
    ASSUME NEW kind \in {"turn", "tidy", "archive"}, NEW m \in Messages,
           NEW s \in Sessions
    PROVE  /\ NewTask(kind, m, "loaded", s) \in Task
           /\ NewTask(kind, m, "loaded", s).kind = kind
           /\ NewTask(kind, m, "loaded", s).of = m
           /\ NewTask(kind, m, "loaded", s).pc = "loaded"
           /\ NewTask(kind, m, "loaded", s).session = s
           /\ NewTask(kind, m, "loaded", s).seen = {}
<1>1. 0 \in 0 .. MaxRounds /\ <<>> \in Seq(Units)
  BY DEF MaxRounds
<1> QED
  BY <1>1 DEF NewTask, Task

LEMMA ClearsLater ==
    ASSUME NEW c, NEW k \in Int, NEW j \in Int, k <= j, Clears(c, k)
    PROVE  Clears(c, j)
BY DEF Clears

\* What was kept stays kept: the history only grows.
LEMMA KeptLater ==
    ASSUME NEW c, NEW s, NEW k \in Int, NEW j \in Int, k <= j, SessionKept(c, s, k),
           script' = script, history \subseteq history'
    PROVE  SessionKept(c, s, j)'
<1>1. Len(s.turns) < s.scanned => Clears(c, j)
  BY ClearsLater DEF SessionKept
<1>2. \A i : Clears(c, i)' <=> Clears(c, i)
  BY DEF Clears
<1>3. \A m : IsFact(m)' <=> IsFact(m)
  BY DEF IsFact
<1> QED
  BY <1>1, <1>2, <1>3 DEF SessionKept

LEMMA EmptyKept ==
    ASSUME NEW c, NEW k
    PROVE  SessionKept(c, EmptySession, k)
<1>1. EmptySession \in Sessions
  BY DEF EmptySession, Sessions
<1> QED
  BY <1>1 DEF SessionKept, EmptySession

LEMMA ScannedKept ==
    ASSUME NEW c, NEW s, NEW k, NEW j, SessionKept(c, s, k)
    PROVE  SessionKept(c, Scanned(s), j)
<1>1. s \in Sessions /\ Len(s.turns) \in Nat
  BY SessionTypes DEF SessionKept
<1> QED
  BY <1>1, EditedSessions DEF SessionKept

LEMMA ClearedKept ==
    ASSUME NEW c, NEW s, NEW k \in Int, SessionKept(c, s, k), Clears(c, k)
    PROVE  SessionKept(c, Cleared(s), k)
<1>1. s \in Sessions /\ s.scanned \in Nat
  BY SessionTypes DEF SessionKept
<1> QED
  BY <1>1, EditedSessions DEF SessionKept

\* A session that is kept has been scanned: there is nothing to persist.
LEMMA NothingToScan ==
    ASSUME NEW c, NEW s, NEW k, SessionKept(c, s, k)
    PROVE  ToScan(s) = <<>> /\ \A e : NewFacts(s, e) = {} /\ ~Raises(s, e)
<1>1. s \in Sessions /\ Len(s.turns) \in Nat /\ s.scanned \in Nat /\ Len(s.turns) <= s.scanned
      /\ s.turns \in Seq(Units)
  BY SessionTypes DEF SessionKept
<1>2. ToScan(s) = <<>>
  BY <1>1 DEF ToScan
<1>3. ToSet(<<>>) = {}
  BY DEF ToSet
<1> QED
  BY <1>2, <1>3 DEF NewFacts, Facts, Raises

-----------------------------------------------------------------------------
(* What becomes of a coroutine.                                            *)

LEMMA TaskTypes ==
    ASSUME NEW t \in Task
    PROVE  /\ t.kind \in {"turn", "tidy", "archive"}
           /\ t.of \in Messages /\ t.of[1] \in Chats /\ t.of[2] \in 1 .. MaxMessages
           /\ t.pc \in {"loaded", "asking", "ready", "running"}
           /\ t.session \in Sessions /\ t.chunk \in Seq(Units)
           /\ t.seen \subseteq Units /\ t.round \in 0 .. MaxRounds
           /\ LastClear(t) \in Nat
<1>1. t.of \in Messages /\ t.of[1] \in Chats /\ t.of[2] \in 1 .. MaxMessages
  BY DEF Task, Messages
<1>2. LastClear(t) \in Nat
  BY <1>1, MemoryAssumption DEF LastClear
<1> QED
  BY <1>1, <1>2 DEF Task

\* The consolidation is over, for a coroutine whose session is kept.
LEMMA OverKept ==
    ASSUME NEW t \in Task, t.kind # "archive", t.pc # "running",
           t.of[2] <= arrived'[t.of[1]], SessionKept(t.of[1], t.session, LastClear(t))',
           NEW u \in Over(t)
    PROVE  /\ TaskKept(u)' /\ u.of = t.of /\ u.kind = t.kind /\ u.pc = "ready"
           /\ u.session = t.session /\ u.kind = "turn" /\ u.seen = {}
<1>1. t.kind = "turn" /\ u = [t EXCEPT !.pc = "ready", !.chunk = <<>>, !.seen = {}, !.round = 0]
  BY DEF Over
<1>2. <<>> \in Seq(Units) /\ 0 \in 0 .. MaxRounds
  BY DEF MaxRounds
<1>3. u \in Task
  BY <1>1, <1>2 DEF Task
<1>4. /\ u.of = t.of /\ u.kind = "turn" /\ u.pc = "ready" /\ u.session = t.session
      /\ u.seen = {}
  BY <1>1 DEF Task
<1>5. LastClear(u)' = LastClear(t)'
  BY <1>1, <1>4 DEF LastClear
<1>6. CopyKept(u)'
  BY <1>4, <1>5 DEF CopyKept
<1> QED
  BY <1>1, <1>3, <1>4, <1>6 DEF TaskKept

\* It goes on with a chunk that follows what is consolidated.
LEMMA NextRoundKept ==
    ASSUME NEW t \in Task, t.kind # "archive", t.pc # "running",
           t.of[2] <= arrived'[t.of[1]], SessionKept(t.of[1], t.session, LastClear(t))',
           NEW known, known \subseteq Units,
           NEW u \in NextRound(t, known)
    PROVE  /\ TaskKept(u)' /\ u.of = t.of /\ u.kind = t.kind /\ u.session = t.session
           /\ u.seen \subseteq known
<1> DEFINE size == Boundary(t.session)
           rest == Unconsolidated(t.session)
           more == t.round < MaxRounds /\ Estimate(t.session) > Target /\ size > 0
<1>1. CASE ~more
  BY <1>1, OverKept DEF NextRound
<1>2. CASE more
  <2>1. u = [t EXCEPT !.pc = "asking", !.round = t.round + 1, !.seen = known,
                      !.chunk = SubSeq(rest, 1, size)]
    BY <1>2 DEF NextRound
  <2>2. /\ t.session \in Sessions /\ t.round \in 0 .. MaxRounds /\ t.round < MaxRounds
        /\ t.round + 1 \in 0 .. MaxRounds
    BY <1>2, TaskTypes DEF MaxRounds
  <2>3. size \in Int /\ size > 0 /\ size <= Len(rest) - 1
    BY <1>2, <2>2, BoundaryIs
  <2>4. /\ rest \in Seq(Units) /\ Len(rest) \in Nat /\ DOMAIN rest = 1 .. Len(rest)
        /\ \A i \in DOMAIN rest : /\ t.session.consolidated + i \in DOMAIN t.session.turns
                                  /\ rest[i] = t.session.turns[t.session.consolidated + i]
    BY <2>2, UnconsolidatedIs
  <2> HIDE DEF size, rest
  <2> DEFINE chunk == SubSeq(rest, 1, size)
  <2>5. chunk \in Seq(Units) /\ Len(chunk) = size /\ chunk # <<>>
    BY <2>3, <2>4
  <2>6. \A i \in DOMAIN chunk : i \in DOMAIN rest /\ chunk[i] = rest[i]
    BY <2>3, <2>4
  <2> HIDE DEF chunk
  <2>7. u \in Task
    BY <2>1, <2>2, <2>5 DEF Task, chunk
  <2>8. /\ u.of = t.of /\ u.kind = t.kind /\ u.pc = "asking" /\ u.session = t.session
        /\ u.seen = known /\ u.chunk = chunk /\ u.round = t.round + 1
    BY <2>1 DEF Task, chunk
  <2>9. LastClear(u)' = LastClear(t)'
    BY <2>8 DEF LastClear
  <2>10. CopyKept(u)'
    BY <2>4, <2>5, <2>6, <2>8, <2>9 DEF CopyKept
  <2> QED
    BY <2>7, <2>8, <2>10 DEF TaskKept
<1> QED
  BY <1>1, <1>2

\* A coroutine that does nothing is kept.
LEMMA TaskLater ==
    ASSUME NEW t, TaskKept(t), script' = script, history \subseteq history',
           arrived[t.of[1]] \in Int, arrived'[t.of[1]] \in Int,
           arrived[t.of[1]] <= arrived'[t.of[1]]
    PROVE  TaskKept(t)'
<1>1. t \in Task /\ LastClear(t) \in Nat
  BY TaskTypes DEF TaskKept
<1>2. t.of[2] <= arrived'[t.of[1]]
  BY <1>1, TaskTypes, MemoryAssumption DEF TaskKept
<1>3. LastClear(t)' = LastClear(t)
  BY DEF LastClear
<1>4. t.kind = "archive" => ArchiveKept(t)'
  BY DEF TaskKept, ArchiveKept
<1>5. ASSUME t.kind # "archive" PROVE CopyKept(t)'
  <2>1. CopyKept(t)
    BY <1>5 DEF TaskKept
  <2>2. SessionKept(t.of[1], t.session, LastClear(t))'
    <3>1. PICK k \in Int : k = LastClear(t)
      BY <1>1
    <3>2. SessionKept(t.of[1], t.session, k)
      BY <2>1, <3>1 DEF CopyKept
    <3>3. SessionKept(t.of[1], t.session, k)'
      BY <3>2, KeptLater
    <3>4. k = LastClear(t)'
      BY <1>3, <3>1
    <3> QED
      BY <3>3, <3>4 DEF SessionKept
  <2> QED
    BY <2>1, <2>2 DEF CopyKept
<1> QED
  BY <1>1, <1>2, <1>4, <1>5 DEF TaskKept

-----------------------------------------------------------------------------
(* The inductive invariant.                                                *)

LEMMA MemoryInit == Init => MemoryInv /\ KnownInv
<1> SUFFICES ASSUME Init PROVE MemoryInv /\ KnownInv
  OBVIOUS
<1>1. EmptySession \in Sessions
  BY DEF EmptySession, Sessions
<1>2. \A c \in Chats : Len(script[c]) \in Nat /\ 0 <= Len(script[c])
  BY MemoryAssumption DEF Init
<1>3. TypeOK
  BY <1>1, <1>2, MemoryAssumption DEF Init, TypeOK, MaxFailures
<1>4. \A c \in Chats : SessionKept(c, store[c], arrived[c])
  BY EmptyKept DEF Init
<1> QED
  BY <1>3, <1>4 DEF Init, MemoryInv, KnownInv, TurnsApart

\* What is known of the parts when an action begins.
LEMMA Reads ==
    ASSUME MemoryInv
    PROVE  /\ script \in [Chats -> Scripts] /\ arrived \in [Chats -> Nat]
           /\ \A c \in Chats : arrived[c] <= Len(script[c]) /\ Len(script[c]) \in Nat
                               /\ Len(script[c]) <= MaxMessages
           /\ store \in [Chats -> Sessions] /\ upsets \in 0 .. MaxUpsets /\ upsets \in Nat
           /\ memory \subseteq Units /\ history \subseteq Units
           /\ failures \in [Messages -> 0 .. MaxFailures - 1 + upsets]
           /\ \A t \in tasks : TaskKept(t) /\ t \in Task
           /\ \A c \in Chats : SessionKept(c, store[c], arrived[c])
<1>1. \A c \in Chats : Len(script[c]) \in Nat /\ Len(script[c]) <= MaxMessages
  BY MemoryAssumption DEF MemoryInv, TypeOK
<1>2. upsets \in Nat
  BY MemoryAssumption DEF MemoryInv, TypeOK
<1> QED
  BY <1>1, <1>2 DEF MemoryInv, TypeOK, TaskKept

\* The counts after a step that may have been upset.
Counted == /\ upsets' \in 0 .. MaxUpsets
           /\ failures' \in [Messages -> 0 .. MaxFailures - 1 + upsets']

LEMMA UpsetIs ==
    ASSUME MemoryInv, NEW e, Error(e) \/ Upset \/ UNCHANGED upsets
    PROVE  /\ upsets' \in 0 .. MaxUpsets /\ upsets' \in Nat /\ upsets \in Nat
           /\ upsets <= upsets' /\ (Upset => upsets' = upsets + 1)
BY Reads, MemoryAssumption DEF Error, Upset

LEMMA CountsLater ==
    ASSUME MemoryInv, NEW e, Error(e) \/ Upset \/ UNCHANGED upsets,
           NEW m \in Messages,
           \/ failures' = failures
           \/ failures' = [failures EXCEPT ![m] = 0]
           \/ failures' = [failures EXCEPT ![m] = @ + 1]
              /\ (failures[m] + 1 < MaxFailures \/ Upset)
    PROVE  Counted
<1>1. /\ upsets' \in 0 .. MaxUpsets /\ upsets' \in Nat /\ upsets \in Nat
      /\ upsets <= upsets' /\ (Upset => upsets' = upsets + 1)
  BY UpsetIs
<1>2. failures \in [Messages -> 0 .. MaxFailures - 1 + upsets]
  BY Reads
<1>3. \A n \in Messages : failures[n] \in 0 .. MaxFailures - 1 + upsets'
  BY <1>1, <1>2 DEF MaxFailures
<1>4. failures \in [Messages -> 0 .. MaxFailures - 1 + upsets']
  BY <1>2, <1>3
<1>5. 0 \in 0 .. MaxFailures - 1 + upsets'
  <2> SUFFICES ASSUME NEW n \in Nat PROVE 0 \in 0 .. MaxFailures - 1 + n
    BY <1>1
  <2> QED
    BY DEF MaxFailures
<1>6. failures[m] + 1 < MaxFailures \/ Upset => failures[m] + 1 \in 0 .. MaxFailures - 1 + upsets'
  BY <1>1, <1>2 DEF MaxFailures
<1> QED
  BY <1>1, <1>4, <1>5, <1>6 DEF Counted

\* The rest of the invariant after a step in which the coroutines that go on or
\* are new are kept, and so are the sessions that are stored.
LEMMA Combine ==
    ASSUME MemoryInv, script' = script, NEW next,
           tasks' \subseteq tasks \cup next,
           \A u \in next : TaskKept(u)',
           arrived' \in [Chats -> Nat],
           \A c \in Chats : arrived[c] <= arrived'[c] /\ arrived'[c] <= Len(script[c]),
           store' \in [Chats -> Sessions],
           \A c \in Chats : \/ store'[c] = store[c]
                            \/ \E s, k : /\ s = store'[c] /\ k \in Int /\ k <= arrived'[c]
                                         /\ SessionKept(c, s, k)',
           history \subseteq history', history' \subseteq Units,
           memory' \subseteq Units, Counted
    PROVE  MemoryInv'
<1>1. /\ arrived \in [Chats -> Nat]
      /\ \A t \in tasks : TaskKept(t) /\ t \in Task
      /\ \A c \in Chats : SessionKept(c, store[c], arrived[c])
  BY Reads
<1>2. \A u \in tasks' : TaskKept(u)'
  <2> SUFFICES ASSUME NEW u \in tasks PROVE TaskKept(u)'
    OBVIOUS
  <2>1. u.of[1] \in Chats
    BY <1>1, TaskTypes
  <2>2. arrived[u.of[1]] \in Int /\ arrived'[u.of[1]] \in Int
        /\ arrived[u.of[1]] <= arrived'[u.of[1]]
    BY <1>1, <2>1
  <2> QED
    BY <1>1, <2>2, TaskLater
<1>3. ASSUME NEW c \in Chats PROVE SessionKept(c, store[c], arrived[c])'
  <2>1. PICK j \in Int : j = arrived'[c]
    OBVIOUS
  <2>2. PICK i \in Int : i = arrived[c] /\ i <= j
    BY <1>1, <2>1
  <2>3. \E s : s = store'[c] /\ SessionKept(c, s, j)'
    <3>1. CASE store'[c] = store[c]
      <4>1. PICK s : s = store[c]
        OBVIOUS
      <4>2. SessionKept(c, s, i)
        BY <1>1, <2>2, <4>1
      <4> QED
        BY <2>2, <3>1, <4>1, <4>2, KeptLater
    <3>2. ASSUME NEW s, NEW k \in Int, s = store'[c], k <= arrived'[c], SessionKept(c, s, k)'
          PROVE  SessionKept(c, s, j)'
      <4>1. Clears(c, k)' => Clears(c, j)'
        BY <2>1, <3>2 DEF Clears
      <4> QED
        BY <3>2, <4>1 DEF SessionKept
    <3> QED
      BY <3>1, <3>2
  <2> QED
    BY <2>1, <2>3 DEF SessionKept
<1>4. \A u \in tasks' : u \in Task /\ (u.pc = "asking" => u.chunk # <<>>)
  BY <1>2 DEF TaskKept, ArchiveKept, CopyKept
<1>5. TypeOK'
  BY <1>1, <1>4, Reads DEF TypeOK, Counted
<1> QED
  BY <1>2, <1>3, <1>5 DEF MemoryInv

\* A save stores the session, or fails and is logged.
LEMMA SaveIs ==
    ASSUME MemoryInv, NEW c \in Chats, NEW s, NEW e, Save(c, s, e), NEW k \in Int,
           k <= arrived'[c], SessionKept(c, s, k)'
    PROVE  /\ store' \in [Chats -> Sessions]
           /\ \A d \in Chats : \/ store'[d] = store[d]
                               \/ \E r, j : /\ r = store'[d] /\ j \in Int /\ j <= arrived'[d]
                                            /\ SessionKept(d, r, j)'
<1>1. store \in [Chats -> Sessions]
  BY Reads
<1>2. s \in Sessions
  BY DEF SessionKept
<1>3. CASE store' = store
  BY <1>1, <1>3
<1>4. CASE store' = [store EXCEPT ![c] = s]
  <2>1. /\ store' \in [Chats -> Sessions] /\ store'[c] = s
        /\ \A d \in Chats \ {c} : store'[d] = store[d]
    BY <1>1, <1>2, <1>4
  <2>2. \E r, j : /\ r = store'[c] /\ j \in Int /\ j <= arrived'[c] /\ SessionKept(c, r, j)'
    BY <2>1
  <2> QED
    BY <2>1, <2>2
<1> QED
  BY <1>3, <1>4 DEF Save

\* What a coroutine becomes: never more than one turn, and that of its own message.
Becoming(t, next) ==
    /\ tasks' = (tasks \ {t}) \cup next
    /\ \A u \in next : TaskKept(u)'
    /\ \A u \in next : /\ u.seen \subseteq memory' \cup t.seen
                       /\ u.kind = "turn" => t.kind = "turn" /\ u.of = t.of
    /\ \A u, v \in next : u.kind = "turn" /\ v.kind = "turn" => u = v

\* A step of a coroutine keeps the invariant; what it writes to the memory has been
\* there, has been read or is in the history.
StepKept(t) ==
    /\ MemoryInv' /\ arrived' = arrived /\ history \subseteq history'
    /\ \E next : Becoming(t, next)
    /\ \A u \in memory' : u \in memory \cup t.seen \cup history'

LEMMA OneGoesOn ==
    ASSUME NEW t, NEW known
    PROVE  /\ \A u, v \in Over(t) : u = v
           /\ \A u, v \in NextRound(t, known) : u = v
           /\ \A u, v \in Archive(t) : u = v
BY DEF Over, NextRound, Archive

\* A coroutine whose session is kept, and that loaded it some time ago.
LEMMA CopyReads ==
    ASSUME MemoryInv, NEW t \in tasks, t.kind # "archive"
    PROVE  /\ t \in Task /\ t.of[1] \in Chats /\ t.of[2] \in Nat /\ t.session \in Sessions
           /\ t.of \in Messages
           /\ t.of[2] <= arrived[t.of[1]] /\ arrived[t.of[1]] \in Nat
           /\ LastClear(t) \in Nat /\ LastClear(t) <= arrived[t.of[1]]
           /\ SessionKept(t.of[1], t.session, LastClear(t))
<1>1. TaskKept(t) /\ t \in Task /\ arrived \in [Chats -> Nat]
  BY Reads
<1>2. /\ t.of[1] \in Chats /\ t.of[2] \in Nat /\ t.of[2] >= 1 /\ t.session \in Sessions
      /\ LastClear(t) \in Nat /\ t.of \in Messages
  BY <1>1, TaskTypes, MemoryAssumption
<1>3. t.of[2] <= arrived[t.of[1]] /\ SessionKept(t.of[1], t.session, LastClear(t))
  BY <1>1 DEF TaskKept, CopyKept
<1>4. LastClear(t) <= t.of[2]
  BY <1>2 DEF LastClear
<1> QED
  BY <1>1, <1>2, <1>3, <1>4

LEMMA StartKept ==
    ASSUME MemoryInv, NEW t \in tasks, t.kind # "archive", t.pc = "loaded",
           NEW e, StartConsolidation(t, e), Error(e), UNCHANGED <<script, arrived, failures>>
    PROVE  StepKept(t)
<1> DEFINE s == t.session
           c == t.of[1]
           scanned == [t EXCEPT !.session = Scanned(t.session)]
           known == Read(memory', e)
<1>1. /\ t \in Task /\ c \in Chats /\ t.of[2] \in Nat /\ s \in Sessions
      /\ t.of[2] <= arrived[c] /\ arrived[c] \in Nat /\ arrived' = arrived
      /\ LastClear(t) \in Nat /\ LastClear(t) <= arrived[c]
      /\ SessionKept(c, s, LastClear(t))
  BY CopyReads
<1>2. PICK k \in Int : k = LastClear(t) /\ SessionKept(c, s, k) /\ k <= arrived[c]
  BY <1>1
<1>3. LastClear(t)' = k
  BY <1>2 DEF LastClear
<1>4. NewFacts(s, e) = {} /\ ~Raises(s, e)
  BY <1>2, NothingToScan
<1>5. UNCHANGED <<memory, history>>
  BY <1>4 DEF StartConsolidation, PersistFacts
<1>6. SessionKept(c, s, k)' /\ SessionKept(c, Scanned(s), k)'
  <2>1. SessionKept(c, Scanned(s), k)
    BY <1>2, ScannedKept
  <2> QED
    BY <1>2, <1>5, <2>1, KeptLater
<1>7. scanned \in Task /\ scanned.kind = t.kind /\ scanned.of = t.of /\ scanned.pc = t.pc
      /\ scanned.session = Scanned(s)
  <2>1. Scanned(s) \in Sessions
    BY <1>1, EditedSessions
  <2> QED
    BY <1>1, <2>1 DEF Task
<1>8. LastClear(scanned)' = k
  BY <1>3, <1>7 DEF LastClear
<1>9. SessionKept(scanned.of[1], scanned.session, LastClear(scanned))'
  BY <1>6, <1>7, <1>8 DEF SessionKept
<1>10. SessionKept(t.of[1], t.session, LastClear(t))'
  BY <1>3, <1>6 DEF SessionKept
<1>11. /\ memory' \subseteq Units /\ history' \subseteq Units /\ history \subseteq history'
       /\ known \subseteq Units /\ known \subseteq memory'
  BY <1>5, Reads DEF Read
\* It ends at once, or is over, or asks.
<1>12. PICK next : /\ Becomes(t, next)
                   /\ \/ next = Over(t) \/ next = Over(scanned) \/ next = NextRound(scanned, known)
  BY <1>4 DEF StartConsolidation
<1> HIDE DEF scanned, known
<1>13. \A u \in next : /\ TaskKept(u)' /\ u.of = t.of /\ u.kind = t.kind
                       /\ u.seen \subseteq memory' \cup t.seen
  <2>1. ASSUME NEW u \in Over(t)
        PROVE  TaskKept(u)' /\ u.of = t.of /\ u.kind = t.kind /\ u.seen = {}
    BY <1>1, <1>10, <2>1, OverKept
  <2>2. ASSUME NEW u \in Over(scanned)
        PROVE  TaskKept(u)' /\ u.of = t.of /\ u.kind = t.kind /\ u.seen = {}
    BY <1>1, <1>7, <1>9, <2>2, OverKept
  <2>3. ASSUME NEW u \in NextRound(scanned, known)
        PROVE  TaskKept(u)' /\ u.of = t.of /\ u.kind = t.kind /\ u.seen \subseteq known
    BY <1>1, <1>7, <1>9, <1>11, <2>3, NextRoundKept
  <2> QED
    BY <1>11, <1>12, <2>1, <2>2, <2>3
<1>14. Becoming(t, next)
  <2>1. \A u, v \in next : u = v
    BY <1>12, OneGoesOn
  <2> QED
    BY <1>12, <1>13, <2>1 DEF Becoming, Becomes
<1>15. store' = store \/ Save(c, Scanned(s), e)
  BY DEF StartConsolidation
<1>16. /\ store' \in [Chats -> Sessions]
       /\ \A d \in Chats : \/ store'[d] = store[d]
                           \/ \E r, j : /\ r = store'[d] /\ j \in Int /\ j <= arrived'[d]
                                        /\ SessionKept(d, r, j)'
  <2>1. CASE store' = store
    BY <2>1, Reads
  <2>2. CASE Save(c, Scanned(s), e)
    BY <1>1, <1>2, <1>6, <2>2, SaveIs
  <2> QED
    BY <1>15, <2>1, <2>2
<1>17. MemoryInv'
  <2>1. /\ arrived' \in [Chats -> Nat]
        /\ \A d \in Chats : arrived[d] <= arrived'[d] /\ arrived'[d] <= Len(script[d])
    BY Reads
  <2>2. Counted
    BY CopyReads, CountsLater
  <2>3. tasks' \subseteq tasks \cup next /\ \A u \in next : TaskKept(u)'
    BY <1>14 DEF Becoming
  <2> QED
    BY <1>11, <1>16, <2>1, <2>2, <2>3, Combine
<1> QED
  BY <1>5, <1>11, <1>14, <1>17 DEF StepKept

\* The chunk of a coroutine that asks has units only.
LEMMA ChunkIs ==
    ASSUME MemoryInv, NEW t \in tasks, t.pc = "asking"
    PROVE  /\ t.chunk \in Seq(Units) /\ t.chunk # <<>>
           /\ Len(t.chunk) \in Nat /\ DOMAIN t.chunk = 1 .. Len(t.chunk)
           /\ ToSet(t.chunk) \subseteq Units /\ Facts(t.chunk) \subseteq ToSet(t.chunk)
           /\ t.of \in Messages /\ t.seen \subseteq Units
<1>1. t \in Task /\ TaskKept(t)
  BY Reads
<1>2. t.chunk \in Seq(Units)
  BY <1>1, TaskTypes
<1>3. ToSet(t.chunk) \subseteq Units /\ Facts(t.chunk) \subseteq ToSet(t.chunk)
  BY <1>2 DEF ToSet, Facts
<1>4. t.chunk # <<>>
  BY <1>1 DEF TaskKept, ArchiveKept, CopyKept
<1> QED
  BY <1>1, <1>2, <1>3, <1>4, TaskTypes

\* What the end of consolidate() leaves in the two files.
LEMMA WrittenIs ==
    ASSUME MemoryInv, NEW t \in tasks, t.pc = "asking",
           memory' = Updated(t) \/ memory' = memory,
           \/ history' = history \cup ToSet(t.chunk)
           \/ history' = history /\ memory' = memory
    PROVE  /\ history \subseteq history' /\ history' \subseteq Units /\ memory' \subseteq Units
           /\ \A u \in memory' : u \in memory \cup t.seen \cup history'
<1>1. /\ ToSet(t.chunk) \subseteq Units /\ Facts(t.chunk) \subseteq ToSet(t.chunk)
      /\ t.seen \subseteq Units /\ memory \subseteq Units /\ history \subseteq Units
  BY ChunkIs, Reads
<1>2. Updated(t) = memory \/ Updated(t) = t.seen \cup Facts(t.chunk)
  BY DEF Updated
<1> QED
  BY <1>1, <1>2

\* After the chunk is in the history the session moves on.
LEMMA ChunkKept ==
    ASSUME MemoryInv, NEW t \in tasks, t.pc = "asking", NEW e, ChunkDone(t, e), Error(e),
           UNCHANGED <<script, arrived>>, history' = history \cup ToSet(t.chunk),
           memory' = Updated(t) \/ memory' = memory,
           failures' = [failures EXCEPT ![t.of] = 0] \/ failures' = failures
    PROVE  StepKept(t)
<1>1. /\ history' \subseteq Units /\ history \subseteq history' /\ memory' \subseteq Units
      /\ arrived' \in [Chats -> Nat] /\ Counted
      /\ \A d \in Chats : arrived[d] <= arrived'[d] /\ arrived'[d] <= Len(script[d])
      /\ \A u \in memory' : u \in memory \cup t.seen \cup history'
  BY ChunkIs, WrittenIs, CountsLater, Reads
<1>2. CASE t.kind = "archive"
  <2>1. tasks' = (tasks \ {t}) \cup {} /\ UNCHANGED store
    BY <1>2 DEF ChunkDone, Becomes
  <2>2. MemoryInv'
    <3>1. store' \in [Chats -> Sessions] /\ \A d \in Chats : store'[d] = store[d]
      BY <2>1, Reads
    <3>2. PICK next : next = {}
      OBVIOUS
    <3>3. tasks' \subseteq tasks \cup next /\ \A u \in next : TaskKept(u)'
      BY <2>1, <3>2
    <3> QED
      BY <1>1, <3>1, <3>3, Combine
  <2>3. \E next : Becoming(t, next)
    <3>1. PICK next : next = {}
      OBVIOUS
    <3>2. tasks' = (tasks \ {t}) \cup next /\ \A u \in next : FALSE
      BY <2>1, <3>1
    <3>3. Becoming(t, next)
      BY <3>2 DEF Becoming
    <3> QED
      BY <3>3
  <2> QED
    BY <1>1, <2>2, <2>3 DEF StepKept
<1>3. CASE t.kind # "archive"
  <2> DEFINE s == t.session
             c == t.of[1]
             n == Len(t.chunk)
             moved == [t.session EXCEPT !.consolidated = @ + Len(t.chunk)]
             after == [t EXCEPT !.session = moved]
             known == Read(memory', e)
  <2>1. /\ t \in Task /\ c \in Chats /\ t.of[2] \in Nat /\ s \in Sessions
        /\ t.of[2] <= arrived[c] /\ arrived[c] \in Nat
        /\ LastClear(t) \in Nat /\ LastClear(t) <= arrived[c]
        /\ SessionKept(c, s, LastClear(t))
    BY <1>3, CopyReads
  <2>2. PICK k \in Int : k = LastClear(t) /\ SessionKept(c, s, k) /\ k <= arrived[c]
    BY <2>1
  <2>3. SessionKept(c, s, k)'
    BY <1>1, <2>2, KeptLater
  <2>4. /\ t.chunk \in Seq(Units) /\ n \in Nat /\ DOMAIN t.chunk = 1 .. n
        /\ \A i \in DOMAIN t.chunk : t.chunk[i] \in history'
    BY ChunkIs DEF ToSet
  <2>5. \A i \in DOMAIN t.chunk : /\ s.consolidated + i \in DOMAIN s.turns
                                  /\ t.chunk[i] = s.turns[s.consolidated + i]
    BY <1>3, Reads DEF TaskKept, CopyKept
  <2>6. /\ s.consolidated \in Nat /\ s.turns \in Seq(Units) /\ s.scanned \in Nat
        /\ Len(s.turns) \in Nat
    BY <2>1, SessionTypes
  <2>7. moved \in Sessions /\ moved.turns = s.turns /\ moved.scanned = s.scanned
        /\ moved.consolidated = s.consolidated + n
    <3>1. s.consolidated + n \in Nat
      BY <2>4, <2>6
    <3> QED
      BY <2>1, <3>1 DEF Sessions
  <2>8. after \in Task /\ after.kind = t.kind /\ after.of = t.of /\ after.pc = t.pc
        /\ after.session = moved
    BY <2>1, <2>7 DEF Task
  <2>12. tasks' = (tasks \ {t}) \cup NextRound(after, known) /\ Save(c, moved, e)
         /\ known \subseteq memory' /\ known \subseteq Units
    BY <1>1, <1>3 DEF ChunkDone, Becomes, Read
  <2> HIDE DEF moved, after, n, known
  <2>9. SessionKept(c, moved, k)'
    <3>1. \A i \in 1 .. moved.consolidated : i \in DOMAIN s.turns /\ s.turns[i] \in history'
      <4> SUFFICES ASSUME NEW i \in 1 .. (s.consolidated + n)
                   PROVE  i \in DOMAIN s.turns /\ s.turns[i] \in history'
        BY <2>7
      <4>1. CASE i <= s.consolidated
        <5>1. i \in 1 .. s.consolidated
          BY <2>4, <2>6, <4>1
        <5> QED
          BY <2>3, <5>1 DEF SessionKept
      <4>2. CASE ~(i <= s.consolidated)
        <5>1. i - s.consolidated \in 1 .. n /\ s.consolidated + (i - s.consolidated) = i
          BY <2>4, <2>6, <4>2
        <5> QED
          BY <2>4, <2>5, <5>1
      <4> QED
        BY <4>1, <4>2
    <3> QED
      BY <2>3, <2>7, <3>1 DEF SessionKept
  <2>10. LastClear(after)' = k
    BY <2>2, <2>8 DEF LastClear
  <2>11. SessionKept(after.of[1], after.session, LastClear(after))'
    BY <2>8, <2>9, <2>10 DEF SessionKept
  <2>13. \A u \in NextRound(after, known) :
            TaskKept(u)' /\ u.of = t.of /\ u.kind = t.kind /\ u.seen \subseteq known
    BY <1>3, <2>1, <2>8, <2>11, <2>12, NextRoundKept
  <2>14. /\ store' \in [Chats -> Sessions]
         /\ \A d \in Chats : \/ store'[d] = store[d]
                             \/ \E r, j : /\ r = store'[d] /\ j \in Int /\ j <= arrived'[d]
                                          /\ SessionKept(d, r, j)'
    BY <2>1, <2>2, <2>9, <2>12, SaveIs
  <2>15. MemoryInv'
    BY <1>1, <2>12, <2>13, <2>14, Combine
  <2>16. Becoming(t, NextRound(after, known))
    BY <2>12, <2>13, OneGoesOn DEF Becoming
  <2> QED
    BY <1>1, <2>15, <2>16 DEF StepKept
<1> QED
  BY <1>2, <1>3

\* The chunk is archived, by the model or as it is.
LEMMA AnswerKept ==
    ASSUME MemoryInv, NEW t \in tasks, Summarized(t) \/ RawArchived(t)
    PROVE  StepKept(t)
<1>1. /\ t.pc = "asking" /\ UNCHANGED <<script, arrived>>
      /\ history' = history \cup ToSet(t.chunk)
      /\ memory' = Updated(t) \/ memory' = memory
      /\ failures' = [failures EXCEPT ![t.of] = 0]
  BY DEF Summarized, RawArchived
<1>2. PICK e : ChunkDone(t, e) /\ Error(e)
  BY DEF Summarized, RawArchived
<1> QED
  BY <1>1, <1>2, ChunkKept

\* The same for a step that takes no message and stores no session.
LEMMA CombineQuiet ==
    ASSUME MemoryInv, UNCHANGED <<script, arrived, store>>, NEW next,
           tasks' \subseteq tasks \cup next, \A u \in next : TaskKept(u)',
           history \subseteq history', history' \subseteq Units,
           memory' \subseteq Units, Counted
    PROVE  MemoryInv'
<1>1. /\ arrived' \in [Chats -> Nat] /\ store' \in [Chats -> Sessions]
      /\ \A d \in Chats : /\ arrived[d] <= arrived'[d] /\ arrived'[d] <= Len(script[d])
                          /\ store'[d] = store[d]
  BY Reads
<1> QED
  BY <1>1, Combine

\* The raw dump raises, and the coroutine is gone.
LEMMA DumpKept ==
    ASSUME MemoryInv, NEW t \in tasks, RawArchiveFails(t)
    PROVE  StepKept(t)
<1>1. /\ t.pc = "asking" /\ UNCHANGED <<script, arrived, store>> /\ Upset
      /\ failures' = [failures EXCEPT ![t.of] = @ + 1]
      /\ tasks' = (tasks \ {t}) \cup {}
  BY DEF RawArchiveFails, Becomes
<1>2. /\ memory' = Updated(t) \/ memory' = memory
      /\ \/ history' = history \cup ToSet(t.chunk)
         \/ history' = history /\ memory' = memory
  BY DEF RawArchiveFails, HalfWritten
<1>3. PICK next : next = {}
  OBVIOUS
<1>4. tasks' = (tasks \ {t}) \cup next /\ \A u \in next : FALSE
  BY <1>1, <1>3
<1>5. Counted
  BY <1>1, ChunkIs, CountsLater
<1>6. /\ history \subseteq history' /\ history' \subseteq Units /\ memory' \subseteq Units
      /\ \A u \in memory' : u \in memory \cup t.seen \cup history'
  BY <1>1, <1>2, WrittenIs
<1>7. MemoryInv'
  BY <1>1, <1>4, <1>5, <1>6, CombineQuiet
<1>8. Becoming(t, next)
  BY <1>4 DEF Becoming
<1> QED
  BY <1>1, <1>6, <1>7, <1>8 DEF StepKept

LEMMA FailureKept ==
    ASSUME MemoryInv, NEW t \in tasks, SummaryFails(t)
    PROVE  StepKept(t)
<1>1. /\ t.pc = "asking" /\ failures[t.of] + 1 < MaxFailures
      /\ failures' = [failures EXCEPT ![t.of] = @ + 1]
      /\ UNCHANGED <<script, arrived, store>>
  <2>1. t.pc = "asking" /\ ~(failures[t.of] + 1 >= MaxFailures)
    BY DEF SummaryFails, ThirdInRow
  <2>2. failures[t.of] \in Int
    BY <2>1, ChunkIs, Reads DEF MaxFailures
  <2> QED
    BY <2>1, <2>2 DEF SummaryFails, MaxFailures
<1>2. PICK e : /\ HalfWritten(t, e) /\ Error(e)
               /\ Becomes(t, IF t.kind = "archive" /\ t.round < MaxFailures
                             THEN {[t EXCEPT !.round = @ + 1, !.seen = Read(memory', e)]}
                             ELSE Over(t))
  BY DEF SummaryFails
<1>3. t \in Task /\ TaskKept(t) /\ t.of \in Messages /\ t.round \in 0 .. MaxRounds
  BY Reads, TaskTypes
<1>4. Counted
  BY <1>1, <1>2, <1>3, CountsLater
<1>5. /\ memory' = Updated(t) \/ memory' = memory
      /\ \/ history' = history \cup ToSet(t.chunk)
         \/ history' = history /\ memory' = memory
  BY <1>2 DEF HalfWritten
<1>6. /\ history \subseteq history' /\ history' \subseteq Units /\ memory' \subseteq Units
      /\ \A u \in memory' : u \in memory \cup t.seen \cup history'
  BY <1>1, <1>5, WrittenIs
<1>7. ASSUME NEW next, Becoming(t, next)
      PROVE  StepKept(t)
  <2>1. tasks' \subseteq tasks \cup next /\ \A u \in next : TaskKept(u)'
    BY <1>7 DEF Becoming
  <2>2. MemoryInv'
    BY <1>1, <1>4, <1>6, <2>1, CombineQuiet
  <2> QED
    BY <1>1, <1>6, <1>7, <2>2 DEF StepKept
<1>8. CASE t.kind = "archive" /\ t.round < MaxFailures
  <2>1. PICK known : known = Read(memory', e)
    OBVIOUS
  <2>2. PICK u : /\ u = [t EXCEPT !.round = @ + 1, !.seen = known]
                 /\ tasks' = (tasks \ {t}) \cup {u}
    BY <1>2, <1>8, <2>1 DEF Becomes
  <2>3. t.round + 1 \in 0 .. MaxRounds /\ t.round + 1 \in 1 .. MaxFailures
    BY <1>3, <1>8 DEF MaxRounds, MaxFailures
  <2>4. known \subseteq memory' /\ known \subseteq Units
    BY <1>6, <2>1 DEF Read
  <2>5. u \in Task
    BY <1>3, <2>2, <2>3, <2>4 DEF Task
  <2>6. /\ u.of = t.of /\ u.kind = "archive" /\ u.pc = "asking" /\ u.session = t.session
        /\ u.chunk = t.chunk /\ u.round = t.round + 1 /\ u.seen = known
    BY <1>1, <1>3, <1>8, <2>2 DEF Task
  <2>7. TaskKept(u)'
    BY <1>1, <1>3, <1>8, <2>3, <2>5, <2>6 DEF TaskKept, ArchiveKept
  <2>8. PICK next : next = {u}
    OBVIOUS
  <2>9. Becoming(t, next)
    BY <2>2, <2>4, <2>6, <2>7, <2>8 DEF Becoming
  <2> QED
    BY <1>7, <2>9
<1>9. CASE ~(t.kind = "archive" /\ t.round < MaxFailures)
  <2>1. tasks' = (tasks \ {t}) \cup Over(t)
    BY <1>2, <1>9 DEF Becomes
  <2>2. ASSUME NEW u \in Over(t)
        PROVE  TaskKept(u)' /\ u.of = t.of /\ u.kind = t.kind /\ u.seen = {}
    <3>1. t.kind # "archive"
      BY <2>2 DEF Over
    <3>2. PICK k \in Int : /\ k = LastClear(t) /\ SessionKept(t.of[1], t.session, k)
                           /\ t.of[2] <= arrived'[t.of[1]]
      BY <1>1, <3>1, CopyReads
    <3>3. SessionKept(t.of[1], t.session, k)'
      BY <1>1, <1>6, <3>2, KeptLater
    <3>4. LastClear(t)' = k
      BY <1>1, <3>2 DEF LastClear
    <3>5. SessionKept(t.of[1], t.session, LastClear(t))'
      BY <3>3, <3>4 DEF SessionKept
    <3> QED
      BY <1>1, <1>3, <2>2, <3>1, <3>2, <3>5, OverKept
  <2>3. Becoming(t, Over(t))
    BY <2>1, <2>2, OneGoesOn DEF Becoming
  <2> QED
    BY <1>7, <2>3
<1> QED
  BY <1>8, <1>9

LEMMA ArchiveStartKept ==
    ASSUME MemoryInv, NEW t \in tasks, ArchiveStarts(t)
    PROVE  StepKept(t)
<1>1. /\ t.kind = "archive" /\ t.pc = "loaded"
      /\ UNCHANGED <<script, arrived, store, memory, history, failures>>
  BY DEF ArchiveStarts
<1>2. t \in Task /\ TaskKept(t) /\ memory \subseteq Units /\ history \subseteq Units
  BY Reads
<1>3. t.session.turns \in Seq(Units) /\ t.of \in Messages
  BY <1>2, TaskTypes, SessionTypes
<1>4. PICK e : /\ Error(e)
               /\ Becomes(t, {[t EXCEPT !.pc = "asking", !.round = 1, !.seen = Read(memory, e),
                                        !.chunk = t.session.turns]})
  BY DEF ArchiveStarts
<1>0. Read(memory, e) \subseteq memory
  BY DEF Read
<1>5. PICK known : known = Read(memory, e) /\ known \subseteq memory
  BY <1>0
<1>6. PICK u : /\ u = [t EXCEPT !.pc = "asking", !.round = 1, !.seen = known,
                                !.chunk = t.session.turns]
               /\ tasks' = (tasks \ {t}) \cup {u}
  BY <1>4, <1>5 DEF Becomes
<1>7. /\ u \in Task /\ u.kind = "archive" /\ u.of = t.of /\ u.pc = "asking" /\ u.round = 1
      /\ u.session = t.session /\ u.chunk = t.session.turns /\ u.seen = known
  <2>1. 1 \in 0 .. MaxRounds
    BY DEF MaxRounds
  <2> QED
    BY <1>1, <1>2, <1>3, <1>5, <1>6, <2>1 DEF Task
<1>8. TaskKept(u)'
  BY <1>1, <1>2, <1>7 DEF TaskKept, ArchiveKept, MaxFailures
<1>9. PICK next : next = {u}
  OBVIOUS
<1>10. Becoming(t, next)
  BY <1>1, <1>5, <1>6, <1>7, <1>8, <1>9 DEF Becoming
<1>11. Counted
  BY <1>1, <1>3, <1>4, CountsLater
<1>12. MemoryInv'
  BY <1>1, <1>2, <1>6, <1>8, <1>9, <1>11, CombineQuiet
<1> QED
  BY <1>1, <1>10, <1>12 DEF StepKept

\* What is archived of a session are its turns that are not consolidated.
LEMMA ArchiveIs ==
    ASSUME MemoryInv, NEW t \in tasks, t.kind # "archive"
    PROVE  \A u \in Archive(t) :
            /\ u \in Task /\ u.kind = "archive" /\ u.pc = "loaded" /\ u.of = t.of
            /\ u.session.turns = Unconsolidated(t.session) /\ u.seen = {}
            /\ arrived' = arrived => TaskKept(u)'
<1> SUFFICES ASSUME NEW u \in Archive(t)
             PROVE  /\ u \in Task /\ u.kind = "archive" /\ u.pc = "loaded" /\ u.of = t.of
                    /\ u.session.turns = Unconsolidated(t.session) /\ u.seen = {}
                    /\ arrived' = arrived => TaskKept(u)'
  OBVIOUS
<1> DEFINE snapshot == [EmptySession EXCEPT !.turns = Unconsolidated(t.session)]
<1>1. /\ t \in Task /\ t.session \in Sessions /\ t.of \in Messages
      /\ t.of[2] <= arrived[t.of[1]]
  BY CopyReads, TaskTypes
<1>2. snapshot \in Sessions /\ snapshot.turns = Unconsolidated(t.session)
  <2>1. Unconsolidated(t.session) \in Seq(Units)
    BY <1>1, UnconsolidatedIs
  <2> QED
    BY <2>1 DEF EmptySession, Sessions
<1>3. u = NewTask("archive", t.of, "loaded", snapshot) /\ snapshot.turns # <<>>
  BY DEF Archive
<1> HIDE DEF snapshot
<1>4. /\ u \in Task /\ u.kind = "archive" /\ u.pc = "loaded" /\ u.of = t.of
      /\ u.session = snapshot /\ u.seen = {}
  BY <1>1, <1>2, <1>3, NewTaskIs
<1> QED
  BY <1>1, <1>2, <1>3, <1>4 DEF TaskKept, ArchiveKept

LEMMA LoadKept ==
    ASSUME MemoryInv, NEW c \in Chats, Load(c)
    PROVE  /\ MemoryInv' /\ UNCHANGED <<memory, history>>
           /\ arrived' = [arrived EXCEPT ![c] = @ + 1]
           /\ \E t : /\ tasks' = tasks \cup {t} /\ t.of = <<c, arrived[c] + 1>>
                     /\ t.kind = "turn" /\ t.seen = {}
<1>0. PICK m : m = <<c, arrived[c] + 1>>
  OBVIOUS
<1>1. /\ arrived \in [Chats -> Nat] /\ arrived[c] \in Nat /\ arrived[c] < Len(script[c])
      /\ Len(script[c]) \in Nat /\ Len(script[c]) <= MaxMessages
      /\ store \in [Chats -> Sessions] /\ store[c] \in Sessions
      /\ \A d \in Chats : arrived[d] <= Len(script[d])
  BY Reads DEF Load
<1>2. m \in Messages
  BY <1>0, <1>1, MemoryAssumption DEF Messages
<1>3. /\ arrived' = [arrived EXCEPT ![c] = @ + 1]
      /\ UNCHANGED <<script, store, memory, history, failures>>
  BY DEF Load
<1>4. /\ arrived' \in [Chats -> Nat] /\ arrived'[c] = arrived[c] + 1
      /\ \A d \in Chats : arrived[d] <= arrived'[d] /\ arrived'[d] <= Len(script[d])
  BY <1>1, <1>3
<1>5. Counted
  <2>1. UNCHANGED upsets \/ Upset
    BY DEF Load
  <2> QED
    BY <1>2, <1>3, <2>1, CountsLater
<1>6. PICK s : /\ s \in Sessions /\ (s = store[c] \/ s = EmptySession)
               /\ tasks' = tasks \cup {NewTask("turn", m, "loaded", s)}
  <2>1. EmptySession \in Sessions
    BY DEF EmptySession, Sessions
  <2> QED
    BY <1>0, <1>1, <2>1 DEF Load
<1>7. PICK k \in Int : k = arrived[c]
  BY <1>1
<1>8. s \in Sessions /\ SessionKept(c, s, k)
  BY <1>1, <1>6, <1>7, Reads, EmptyKept
<1>9. SessionKept(c, s, k)'
  BY <1>3, <1>8, KeptLater
<1>10. PICK t : /\ t \in Task /\ t.kind = "turn" /\ t.of = m /\ t.pc = "loaded"
                /\ t.session = s /\ t.seen = {} /\ t = NewTask("turn", m, "loaded", s)
  BY <1>2, <1>8, NewTaskIs
<1>11. m[1] = c /\ m[2] = k + 1 /\ m[2] <= arrived'[c]
  BY <1>0, <1>1, <1>4, <1>7
<1>12. LastClear(t)' = k
  BY <1>7, <1>10, <1>11 DEF LastClear
<1>13. CopyKept(t)'
  <2>1. SessionKept(t.of[1], t.session, LastClear(t))'
    BY <1>9, <1>10, <1>11, <1>12 DEF SessionKept
  <2> QED
    BY <1>10, <2>1 DEF CopyKept
<1>14. TaskKept(t)'
  BY <1>10, <1>11, <1>13 DEF TaskKept
<1>15. PICK next : /\ next = {t} /\ tasks' = tasks \cup next
                   /\ \A u \in next : TaskKept(u)'
  BY <1>6, <1>10, <1>14
<1>16. MemoryInv'
  <2>1. /\ store' \in [Chats -> Sessions] /\ \A d \in Chats : store'[d] = store[d]
        /\ history \subseteq history' /\ history' \subseteq Units /\ memory' \subseteq Units
    BY <1>1, <1>3, Reads
  <2> QED
    BY <1>3, <1>4, <1>5, <1>15, <2>1, Combine
<1> QED
  BY <1>0, <1>3, <1>10, <1>15, <1>16

\* The same for a step that writes no memory, whatever it does to the stored session.
LEMMA CombineSame ==
    ASSUME MemoryInv, UNCHANGED <<script, arrived, memory, history>>, NEW t \in tasks,
           NEW next, Becoming(t, next), Counted,
           store' \in [Chats -> Sessions],
           \A d \in Chats : \/ store'[d] = store[d]
                            \/ \E r, j : /\ r = store'[d] /\ j \in Int /\ j <= arrived'[d]
                                         /\ SessionKept(d, r, j)'
    PROVE  StepKept(t)
<1>1. /\ arrived' \in [Chats -> Nat]
      /\ \A d \in Chats : arrived[d] <= arrived'[d] /\ arrived'[d] <= Len(script[d])
      /\ history \subseteq history' /\ history' \subseteq Units /\ memory' \subseteq Units
  BY Reads
<1>2. tasks' \subseteq tasks \cup next /\ \A u \in next : TaskKept(u)'
  BY DEF Becoming
<1>3. MemoryInv'
  BY <1>1, <1>2, Combine
<1> QED
  BY <1>3 DEF StepKept

LEMMA NewSessionKept ==
    ASSUME MemoryInv, NEW t \in tasks, NewSession(t)
    PROVE  StepKept(t)
<1>1. /\ t.kind = "turn" /\ IsNew(t) /\ tasks' = (tasks \ {t}) \cup Archive(t)
      /\ UNCHANGED <<script, arrived, memory, history, failures>>
  BY DEF NewSession, Becomes
<1>2. PICK e : Save(t.of[1], Cleared(t.session), e) /\ Error(e)
  BY DEF NewSession
<1>3. /\ t.of[1] \in Chats /\ t.of[2] \in Nat /\ t.of[2] >= 1 /\ t.of \in Messages
      /\ t.of[2] <= arrived[t.of[1]] /\ arrived[t.of[1]] \in Nat
      /\ LastClear(t) \in Nat /\ LastClear(t) <= t.of[2]
      /\ SessionKept(t.of[1], t.session, LastClear(t))
  <2>1. t \in Task /\ t.of[2] >= 1
    BY Reads, TaskTypes, MemoryAssumption
  <2> QED
    BY <1>1, <2>1, CopyReads DEF LastClear
<1>4. SessionKept(t.of[1], t.session, t.of[2])
  <2>1. Len(t.session.turns) < t.session.scanned => Clears(t.of[1], t.of[2])
    BY <1>3, ClearsLater DEF SessionKept
  <2> QED
    BY <1>3, <2>1 DEF SessionKept
<1>5. Clears(t.of[1], t.of[2])
  BY <1>1, <1>3 DEF Clears, IsNew
<1>6. SessionKept(t.of[1], Cleared(t.session), t.of[2])
  BY <1>3, <1>4, <1>5, ClearedKept
<1>7. SessionKept(t.of[1], Cleared(t.session), t.of[2])'
  BY <1>1, <1>3, <1>6, KeptLater
<1>8. /\ store' \in [Chats -> Sessions]
      /\ \A d \in Chats : \/ store'[d] = store[d]
                          \/ \E r, j : /\ r = store'[d] /\ j \in Int /\ j <= arrived'[d]
                                       /\ SessionKept(d, r, j)'
  BY <1>1, <1>2, <1>3, <1>7, SaveIs
<1>9. \A u \in Archive(t) : TaskKept(u)' /\ u.kind = "archive" /\ u.seen = {}
  BY <1>1, ArchiveIs
<1>10. Becoming(t, Archive(t))
  BY <1>1, <1>9 DEF Becoming
<1>11. Counted
  BY <1>1, <1>2, <1>3, CountsLater
<1> QED
  BY <1>1, <1>8, <1>10, <1>11, CombineSame

LEMMA PreflightKept ==
    ASSUME MemoryInv, NEW t \in tasks, Preflight(t)
    PROVE  StepKept(t) /\ t.kind = "turn"
<1>1. t.pc = "ready" /\ UNCHANGED <<script, arrived, memory, history, failures>>
  BY DEF Preflight
<1>2. t.kind = "turn"
  <2>1. TaskKept(t) /\ t \in Task
    BY Reads
  <2> QED
    BY <1>1, <2>1, TaskTypes DEF TaskKept, ArchiveKept, CopyKept
<1>3. /\ t \in Task /\ t.of[1] \in Chats /\ t.of[2] \in Nat /\ t.of[2] >= 1 /\ t.session \in Sessions
      /\ t.of[2] <= arrived[t.of[1]] /\ arrived[t.of[1]] \in Nat /\ t.of \in Messages
      /\ LastClear(t) = t.of[2] - 1
      /\ SessionKept(t.of[1], t.session, t.of[2] - 1)
  <2>1. t \in Task /\ t.of[2] >= 1
    BY Reads, TaskTypes, MemoryAssumption
  <2> QED
    BY <1>1, <1>2, <2>1, CopyReads DEF LastClear
\* The turn runs with a session that is kept.
<1>4. ASSUME NEW s, s \in Sessions,
             NEW j \in Int, SessionKept(t.of[1], s, j),
             j = t.of[2] - 1 \/ (j = t.of[2] /\ script[t.of[1]][t.of[2]] = "big"),
             NEW u, u = [t EXCEPT !.pc = "running", !.session = s]
      PROVE  TaskKept(u)' /\ u.kind = "turn" /\ u.of = t.of /\ u.seen = t.seen
  <2>1. /\ u \in Task /\ u.kind = "turn" /\ u.pc = "running" /\ u.of = t.of /\ u.session = s
        /\ u.seen = t.seen
    BY <1>2, <1>3, <1>4 DEF Task
  <2>2. /\ LastClear(u) \in Nat /\ LastClear(u)' = LastClear(u)
        /\ t.of[2] - 1 <= LastClear(u)
        /\ script[t.of[1]][t.of[2]] = "big" => LastClear(u) = t.of[2]
    BY <1>1, <1>3, <2>1 DEF LastClear
  <2>3. PICK k \in Int : k = LastClear(u)
    BY <2>2
  <2>4. j <= k
    BY <1>3, <1>4, <2>2, <2>3
  <2>5. SessionKept(t.of[1], s, k)'
    BY <1>1, <1>4, <2>4, KeptLater
  <2>6. CopyKept(u)'
    BY <2>1, <2>2, <2>3, <2>5 DEF CopyKept, SessionKept
  <2> QED
    BY <1>1, <1>3, <2>1, <2>6 DEF TaskKept
<1>5. CASE script[t.of[1]][t.of[2]] = "big" /\ Unconsolidated(t.session) # <<>>
  <2>1. PICK s : s = Cleared(t.session)
    OBVIOUS
  <2>2. PICK u : u = [t EXCEPT !.pc = "running", !.session = s]
    OBVIOUS
  <2>3. tasks' = (tasks \ {t}) \cup ({u} \cup Archive(t))
    BY <1>5, <2>1, <2>2 DEF Preflight, Becomes
  <2>4. PICK e : Save(t.of[1], s, e) /\ Error(e)
    BY <1>5, <2>1 DEF Preflight
  <2>5. Clears(t.of[1], t.of[2])
    BY <1>3, <1>5 DEF Clears
  <2>6. SessionKept(t.of[1], s, t.of[2])
    <3>1. SessionKept(t.of[1], t.session, t.of[2])
      BY <1>3, <2>5 DEF SessionKept
    <3> QED
      BY <1>3, <2>1, <2>5, <3>1, ClearedKept
  <2>7. SessionKept(t.of[1], s, t.of[2])'
    BY <1>1, <1>3, <2>6, KeptLater
  <2>8. /\ store' \in [Chats -> Sessions]
        /\ \A d \in Chats : \/ store'[d] = store[d]
                            \/ \E r, j : /\ r = store'[d] /\ j \in Int /\ j <= arrived'[d]
                                         /\ SessionKept(d, r, j)'
    BY <1>1, <1>3, <2>4, <2>7, SaveIs
  <2>9. TaskKept(u)' /\ u.kind = "turn" /\ u.of = t.of /\ u.seen = t.seen
    <3>1. PICK j \in Int : j = t.of[2] /\ SessionKept(t.of[1], s, j)
      BY <1>3, <2>6
    <3>2. s \in Sessions
      BY <1>3, <2>1, EditedSessions
    <3>3. j = t.of[2] - 1 \/ (j = t.of[2] /\ script[t.of[1]][t.of[2]] = "big")
      BY <1>5, <3>1
    <3>4. SessionKept(t.of[1], s, j)
      BY <3>1
    <3> QED
      BY <1>4, <2>2, <3>2, <3>3, <3>4
  <2>10. \A v \in Archive(t) : TaskKept(v)' /\ v.kind = "archive" /\ v.seen = {}
    BY <1>1, <1>2, ArchiveIs
  <2>11. PICK next : next = {u} \cup Archive(t)
    OBVIOUS
  <2>12. Becoming(t, next)
    BY <1>2, <2>3, <2>9, <2>10, <2>11 DEF Becoming
  <2>13. Counted
    BY <1>1, <1>3, <2>4, CountsLater
  <2> QED
    BY <1>1, <1>2, <2>8, <2>12, <2>13, CombineSame
<1>6. CASE ~(script[t.of[1]][t.of[2]] = "big" /\ Unconsolidated(t.session) # <<>>)
  <2>1. PICK u : u = [t EXCEPT !.pc = "running", !.session = t.session]
    OBVIOUS
  <2>2. tasks' = (tasks \ {t}) \cup {u} /\ UNCHANGED <<store, upsets>>
    BY <1>6, <2>1 DEF Preflight, Becomes
  <2>3. TaskKept(u)' /\ u.kind = "turn" /\ u.of = t.of /\ u.seen = t.seen
    <3>1. PICK j \in Int : j = t.of[2] - 1 /\ SessionKept(t.of[1], t.session, j)
      BY <1>3
    <3> QED
      BY <1>3, <1>4, <2>1, <3>1
  <2>4. PICK next : next = {u}
    OBVIOUS
  <2>5. Becoming(t, next)
    BY <1>2, <2>2, <2>3, <2>4 DEF Becoming
  <2>6. Counted
    BY <1>1, <1>3, <2>2, CountsLater
  <2>7. store' \in [Chats -> Sessions] /\ \A d \in Chats : store'[d] = store[d]
    BY <2>2, Reads
  <2> QED
    BY <1>1, <1>2, <2>5, <2>6, <2>7, CombineSame
<1> QED
  BY <1>5, <1>6

\* What the end of a turn makes of its copy of the session.
LEMMA WithTurnIs ==
    ASSUME NEW t \in Task, NEW k \in 0 .. 2
    PROVE  /\ WithTurn(t, k) \in Sessions
           /\ WithTurn(t, k).consolidated = t.session.consolidated
           /\ WithTurn(t, k).scanned = t.session.scanned
           /\ Len(WithTurn(t, k).turns) = Len(t.session.turns) + k
           /\ DOMAIN WithTurn(t, k).turns = 1 .. (Len(t.session.turns) + k)
           /\ \A i \in DOMAIN t.session.turns :
                i \in DOMAIN WithTurn(t, k).turns /\ WithTurn(t, k).turns[i] = t.session.turns[i]
           /\ \A j \in 1 .. k :
                WithTurn(t, k).turns[Len(t.session.turns) + j] = <<t.of[1], t.of[2], j>>
<1>1. PICK old : old = t.session.turns
  OBVIOUS
<1>2. /\ old \in Seq(Units) /\ Len(old) \in Nat /\ DOMAIN old = 1 .. Len(old)
      /\ t.session \in Sessions /\ t.of[1] \in Chats /\ t.of[2] \in 1 .. MaxMessages
  BY <1>1, TaskTypes, SessionTypes
<1>3. PICK new : new = UnitsOf(t.of, k)
  OBVIOUS
<1>4. /\ new \in Seq(Units) /\ Len(new) = k
      /\ \A j \in 1 .. k : new[j] = <<t.of[1], t.of[2], j>>
  <2>1. new = [j \in 1 .. k |-> <<t.of[1], t.of[2], j>>]
    BY <1>3 DEF UnitsOf
  <2>2. k \in Nat /\ \A j \in 1 .. k : <<t.of[1], t.of[2], j>> \in Units
    BY <1>2 DEF Units
  <2> QED
    BY <2>1, <2>2
<1>5. PICK turns : turns = old \o new
  OBVIOUS
<1>6. /\ turns \in Seq(Units) /\ Len(turns) = Len(old) + k
      /\ DOMAIN turns = 1 .. (Len(old) + k)
      /\ \A i \in DOMAIN old : i \in DOMAIN turns /\ turns[i] = old[i]
      /\ \A j \in 1 .. k : turns[Len(old) + j] = new[j]
  BY <1>2, <1>4, <1>5
<1>7. WithTurn(t, k) = [t.session EXCEPT !.turns = turns]
  BY <1>1, <1>3, <1>5 DEF WithTurn
<1>8. /\ WithTurn(t, k) \in Sessions /\ WithTurn(t, k).turns = turns
      /\ WithTurn(t, k).consolidated = t.session.consolidated
      /\ WithTurn(t, k).scanned = t.session.scanned
  BY <1>2, <1>6, <1>7 DEF Sessions
<1> QED
  BY <1>1, <1>4, <1>6, <1>8

\* The messages after the scanned ones.
LEMMA ToScanIs ==
    ASSUME NEW s \in Sessions
    PROVE  /\ Len(ToScan(s)) \in Nat /\ DOMAIN ToScan(s) = 1 .. Len(ToScan(s))
           /\ s.scanned <= Len(s.turns) => Len(ToScan(s)) = Len(s.turns) - s.scanned
           /\ \A i \in DOMAIN ToScan(s) :
                /\ s.scanned + i \in DOMAIN s.turns
                /\ ToScan(s)[i] = s.turns[s.scanned + i]
<1> PICK r : r = [s EXCEPT !.consolidated = s.scanned]
  OBVIOUS
<1>1. r \in Sessions /\ r.turns = s.turns /\ r.consolidated = s.scanned
  BY DEF Sessions
<1>2. ToScan(s) = Unconsolidated(r)
  BY <1>1 DEF ToScan, Unconsolidated
<1> QED
  BY <1>1, <1>2, UnconsolidatedIs

\* Of a session that is kept only the turn's own units are left to scan; all of them,
\* unless the session was cleared.
LEMMA OwnToScan ==
    ASSUME NEW t \in Task, NEW k \in 0 .. 2, NEW c, NEW n, SessionKept(c, t.session, n)
    PROVE  /\ \A u \in Facts(ToScan(WithTurn(t, k))) :
                u[1] = t.of[1] /\ u[2] = t.of[2] /\ u \in Units
           /\ ~Clears(c, n) => \A j \in 1 .. k :
                <<t.of[1], t.of[2], j>> \in ToSet(ToScan(WithTurn(t, k)))
<1> PICK s : s = WithTurn(t, k)
  OBVIOUS
<1> PICK len : len = Len(t.session.turns)
  OBVIOUS
<1> PICK from : from = t.session.scanned
  OBVIOUS
<1> PICK left : left = ToScan(s)
  OBVIOUS
<1>1. /\ len \in Nat /\ from \in Nat /\ len <= from /\ k \in Nat
      /\ len < from => Clears(c, n)
  BY SessionTypes DEF SessionKept
<1>2. /\ s \in Sessions /\ s.scanned = from
      /\ Len(s.turns) = len + k /\ DOMAIN s.turns = 1 .. (len + k)
      /\ \A j \in 1 .. k : s.turns[len + j] = <<t.of[1], t.of[2], j>>
  BY WithTurnIs
<1>3. /\ DOMAIN left = 1 .. Len(left) /\ Len(left) \in Nat
      /\ from <= Len(s.turns) => Len(left) = Len(s.turns) - from
      /\ \A i \in DOMAIN left : from + i \in 1 .. (len + k) /\ left[i] = s.turns[from + i]
  <2> PICK turns : turns = s.turns
    OBVIOUS
  <2>1. Len(turns) = len + k /\ DOMAIN turns = 1 .. (len + k)
    BY <1>2
  <2>2. /\ Len(left) \in Nat /\ DOMAIN left = 1 .. Len(left)
        /\ from <= Len(turns) => Len(left) = Len(turns) - from
        /\ \A i \in DOMAIN left : from + i \in DOMAIN turns /\ left[i] = turns[from + i]
    BY <1>2, ToScanIs, Zenon
  <2>3. ASSUME NEW i \in DOMAIN left
        PROVE  from + i \in 1 .. (len + k) /\ left[i] = s.turns[from + i]
    <3>1. from + i \in DOMAIN turns /\ left[i] = turns[from + i]
      BY <2>2, Zenon
    <3> QED
      BY <2>1, <3>1, Zenon
  <2> QED
    BY <2>2, <2>3, Zenon
<1>4. ASSUME NEW i \in DOMAIN left
      PROVE  \E j \in 1 .. k : left[i] = <<t.of[1], t.of[2], j>>
  <2>1. i \in Nat /\ i >= 1 /\ from + i <= len + k
    BY <1>1, <1>3
  <2>2. PICK over \in Nat : from = len + over
    <3>1. from - len \in Nat /\ from = len + (from - len)
      BY <1>1
    <3> QED
      BY <3>1
  <2>3. over + i \in 1 .. k /\ len + (over + i) = from + i
    BY <1>1, <2>1, <2>2
  <2> QED
    BY <1>2, <1>3, <2>3
<1>5. ASSUME ~Clears(c, n), NEW j \in 1 .. k
      PROVE  <<t.of[1], t.of[2], j>> \in ToSet(left)
  <2>1. from = len
    BY <1>1, <1>5
  <2>2. PICK all \in Nat : all = Len(s.turns) /\ from <= all /\ all - from = k
    BY <1>1, <1>2, <2>1
  <2>3. Len(left) = k
    BY <1>3, <2>2, Zenon
  <2>4. j \in DOMAIN left /\ left[j] = s.turns[len + j]
    BY <1>3, <2>1, <2>3
  <2> QED
    BY <1>2, <2>4 DEF ToSet
<1>6. \A j \in 1 .. k : <<t.of[1], t.of[2], j>> \in Units
  BY TaskTypes DEF Units
<1> QED
  BY <1>4, <1>5, <1>6 DEF Facts, ToSet

\* The turn joins its session, its facts go on record.
LEMMA TurnKept ==
    ASSUME MemoryInv, KnownInv, NEW t \in tasks, TurnEnds(t)
    PROVE  /\ MemoryInv' /\ arrived' = arrived /\ history \subseteq history'
           /\ t.kind = "turn" /\ t.of[2] <= arrived[t.of[1]]
           /\ \E next : Becoming(t, next) /\ \A u \in next : u.kind = "tidy"
           /\ \A u \in memory' : u \in memory \/ (u[1] = t.of[1] /\ u[2] = t.of[2])
<1>1. t.pc = "running" /\ UNCHANGED <<script, arrived, failures>>
  BY DEF TurnEnds
<1>2. t.kind = "turn"
  <2>1. TaskKept(t) /\ t \in Task
    BY Reads
  <2> QED
    BY <1>1, <2>1, TaskTypes DEF TaskKept, ArchiveKept, CopyKept
<1>3. /\ t \in Task /\ t.of \in Messages /\ t.of[1] \in Chats /\ t.of[2] \in Nat
      /\ t.of[2] >= 1 /\ t.session \in Sessions
      /\ t.of[2] <= arrived[t.of[1]] /\ arrived[t.of[1]] \in Nat
      /\ LastClear(t) \in Nat /\ LastClear(t) <= t.of[2]
      /\ SessionKept(t.of[1], t.session, LastClear(t))
  <2>1. t \in Task /\ t.of \in Messages /\ t.of[2] >= 1
    BY Reads, TaskTypes, MemoryAssumption
  <2> QED
    BY <1>2, <2>1, CopyReads DEF LastClear
<1> DEFINE old == t.session
           c == t.of[1]
<1>4. PICK e \in StartErrors, k \in 0 .. 2 :
        /\ PersistFacts(WithTurn(t, k), e)
        /\ IF Raises(WithTurn(t, k), e)
           THEN Becomes(t, {}) /\ UNCHANGED store
           ELSE /\ Save(c, Scanned(WithTurn(t, k)), e)
                /\ Becomes(t, {NewTask("tidy", t.of, "loaded", Scanned(WithTurn(t, k)))})
        /\ UNCHANGED upsets \/ Upset
  BY DEF TurnEnds
<1>5. PICK s : s = WithTurn(t, k)
  OBVIOUS
<1>6. /\ s \in Sessions /\ s.consolidated = old.consolidated
      /\ Len(s.turns) = Len(old.turns) + k /\ DOMAIN s.turns = 1 .. (Len(old.turns) + k)
      /\ \A i \in DOMAIN old.turns : i \in DOMAIN s.turns /\ s.turns[i] = old.turns[i]
      /\ \A j \in 1 .. k : s.turns[Len(old.turns) + j] = <<c, t.of[2], j>>
      /\ Len(old.turns) \in Nat /\ DOMAIN old.turns = 1 .. Len(old.turns)
  BY <1>3, <1>5, WithTurnIs, SessionTypes
<1>7. \A u \in NewFacts(s, e) : u \in Units /\ u[1] = c /\ u[2] = t.of[2]
  BY <1>3, <1>5, OwnToScan DEF NewFacts
<1>8. /\ \A u \in memory' : u \in memory \/ (u[1] = c /\ u[2] = t.of[2])
      /\ history \subseteq history' /\ history' \subseteq Units /\ memory' \subseteq Units
  BY <1>4, <1>5, <1>7, Reads DEF PersistFacts, Read
<1>9. Counted
  BY <1>1, <1>3, <1>4, CountsLater
<1>10. /\ arrived' \in [Chats -> Nat] /\ store \in [Chats -> Sessions]
       /\ \A d \in Chats : arrived[d] <= arrived'[d] /\ arrived'[d] <= Len(script[d])
  BY <1>1, Reads
<1>11. CASE Raises(s, e)
  <2>1. PICK next : next = {}
    OBVIOUS
  <2>2. tasks' = (tasks \ {t}) \cup next /\ UNCHANGED store /\ \A u \in next : FALSE
    BY <1>4, <1>5, <1>11, <2>1 DEF Becomes
  <2>3. Becoming(t, next)
    BY <2>2 DEF Becoming
  <2>4. MemoryInv'
    BY <1>1, <1>8, <1>9, <2>2, CombineQuiet
  <2> QED
    BY <1>1, <1>2, <1>3, <1>8, <2>2, <2>3, <2>4
<1>12. CASE ~Raises(s, e)
  <2>1. Save(c, Scanned(s), e) /\ Becomes(t, {NewTask("tidy", t.of, "loaded", Scanned(s))})
    BY <1>4, <1>5, <1>12
  \* The turn's own fact is scanned unless the session was cleared before.
  <2>2. ASSUME NEW j \in 1 .. k, IsFact(<<c, t.of[2], j>>)
        PROVE  <<c, t.of[2], j>> \in history' \/ Clears(c, t.of[2] - 1)
    <3> SUFFICES ASSUME ~Clears(c, t.of[2] - 1) PROVE <<c, t.of[2], j>> \in history'
      OBVIOUS
    <3> PICK own : own = <<c, t.of[2], j>>
      OBVIOUS
    <3>1. LastClear(t) = t.of[2] - 1
      BY <1>2, <2>2 DEF LastClear, IsFact
    <3>2. own \in Facts(ToScan(s))
      BY <1>3, <1>5, <2>2, <3>1, OwnToScan DEF Facts
    <3>3. CASE own \in NewFacts(s, e)
      BY <1>4, <1>5, <1>12, <3>3 DEF PersistFacts, Raises
    <3>4. CASE own \in memory
      <4>1. Known(own) /\ own[1] = c /\ own[2] = t.of[2]
        BY <3>4 DEF KnownInv
      <4> QED
        BY <1>2, <1>8, <4>1 DEF Known
    <3> QED
      BY <3>2, <3>3, <3>4 DEF NewFacts, Read
  <2>3. PICK n \in Int : n = t.of[2]
    BY <1>3
  <2>4. SessionKept(c, Scanned(s), n)'
    <3>1. /\ Scanned(s) \in Sessions /\ Scanned(s).turns = s.turns
          /\ Scanned(s).consolidated = old.consolidated /\ Scanned(s).scanned = Len(s.turns)
      BY <1>6, EditedSessions
    <3>2. SessionKept(c, old, n)'
      <4>1. PICK i \in Int : i = LastClear(t) /\ i <= n /\ SessionKept(c, old, i)
        BY <1>3, <2>3
      <4> QED
        BY <1>1, <1>8, <4>1, KeptLater
    <3>3. \A i \in 1 .. old.consolidated : i \in DOMAIN s.turns /\ s.turns[i] \in history'
      BY <1>6, <3>2 DEF SessionKept
    <3>4. ASSUME NEW i \in DOMAIN s.turns
          PROVE  /\ s.turns[i][1] = c
                 /\ IsFact(s.turns[i])' => s.turns[i] \in history' \/ Clears(c, s.turns[i][2] - 1)'
      <4>1. CASE i \in DOMAIN old.turns
        BY <1>6, <3>2, <4>1 DEF SessionKept
      <4>2. CASE i \notin DOMAIN old.turns
        <5>1. PICK j \in 1 .. k : i = Len(old.turns) + j
          <6> PICK len : len = Len(old.turns)
            OBVIOUS
          <6>1. len \in Nat /\ i \in 1 .. (len + k) /\ i \notin 1 .. len /\ k \in Nat
            BY <1>6, <4>2
          <6>2. i - len \in 1 .. k /\ i = len + (i - len)
            BY <6>1
          <6> QED
            BY <6>2
        <5>2. PICK own : own = <<c, t.of[2], j>>
          OBVIOUS
        <5>3. s.turns[i] = own /\ own[1] = c /\ own[2] = t.of[2]
          BY <1>6, <5>1, <5>2
        <5>4. IsFact(own)' <=> IsFact(own)
          BY <1>1 DEF IsFact
        <5>5. Clears(c, t.of[2] - 1) => Clears(c, t.of[2] - 1)'
          BY <1>1 DEF Clears
        <5>6. IsFact(own) => own \in history' \/ Clears(c, t.of[2] - 1)
          BY <2>2, <5>2
        <5> QED
          BY <5>3, <5>4, <5>5, <5>6
      <4> QED
        BY <4>1, <4>2
    <3>5. Len(s.turns) \in Nat
      BY <1>6
    <3> QED
      BY <3>1, <3>3, <3>4, <3>5 DEF SessionKept
  <2>5. /\ store' \in [Chats -> Sessions]
        /\ \A d \in Chats : \/ store'[d] = store[d]
                            \/ \E r, j : /\ r = store'[d] /\ j \in Int /\ j <= arrived'[d]
                                         /\ SessionKept(d, r, j)'
    BY <1>1, <1>3, <2>1, <2>3, <2>4, SaveIs
  <2>6. PICK u : u = NewTask("tidy", t.of, "loaded", Scanned(s))
    OBVIOUS
  <2>7. /\ u \in Task /\ u.kind = "tidy" /\ u.of = t.of /\ u.pc = "loaded"
        /\ u.session = Scanned(s) /\ u.seen = {}
    BY <1>3, <1>6, <2>6, NewTaskIs, EditedSessions
  <2>8. TaskKept(u)'
    <3>1. LastClear(u)' = n
      BY <2>3, <2>7 DEF LastClear
    <3>2. CopyKept(u)'
      BY <2>4, <2>7, <3>1 DEF CopyKept, SessionKept
    <3> QED
      BY <1>1, <1>3, <2>7, <3>2 DEF TaskKept
  <2>9. PICK next : next = {u}
    OBVIOUS
  <2>10. tasks' = (tasks \ {t}) \cup next
    BY <2>1, <2>6, <2>9 DEF Becomes
  <2>11. Becoming(t, next)
    BY <2>7, <2>8, <2>9, <2>10 DEF Becoming
  <2>12. MemoryInv'
    <3>1. tasks' \subseteq tasks \cup next /\ \A v \in next : TaskKept(v)'
      BY <2>11 DEF Becoming
    <3> QED
      BY <1>1, <1>8, <1>9, <1>10, <2>5, <3>1, Combine
  <2>13. \A v \in next : v.kind = "tidy"
    BY <2>7, <2>9
  <2> QED
    BY <1>1, <1>2, <1>3, <1>8, <2>11, <2>12, <2>13
<1> QED
  BY <1>11, <1>12

\* A coroutine that is cancelled or dies takes nothing with it.
LEMMA EndKept ==
    ASSUME MemoryInv, (\E t \in tasks : Stop(t)) \/ Crash
    PROVE  /\ MemoryInv' /\ tasks' \subseteq tasks
           /\ UNCHANGED <<arrived, memory, history, store>>
<1>1. /\ tasks' \subseteq tasks /\ tasks # {} /\ Upset
      /\ UNCHANGED <<script, arrived, store, memory, history, failures>>
  BY DEF Stop, Crash, Becomes
<1>2. PICK t \in tasks : t.of \in Messages
  BY <1>1, Reads, TaskTypes
<1>3. Counted
  BY <1>1, <1>2, CountsLater
<1>4. PICK next : next = {}
  OBVIOUS
<1>5. tasks' \subseteq tasks \cup next /\ \A u \in next : TaskKept(u)'
  BY <1>1, <1>4
<1>6. history \subseteq history' /\ history' \subseteq Units /\ memory' \subseteq Units
  BY <1>1, Reads
<1>7. MemoryInv'
  BY <1>1, <1>3, <1>5, <1>6, CombineQuiet
<1> QED
  BY <1>1, <1>7

\* Every step of a coroutine but the end of a turn.
LEMMA CoroutineKept ==
    ASSUME MemoryInv, NEW t \in tasks, Step(t), ~TurnEnds(t)
    PROVE  StepKept(t)
<1>1. CASE Prepare(t) \/ Tidy(t)
  <2>1. /\ t.kind # "archive" /\ t.pc = "loaded"
        /\ UNCHANGED <<script, arrived, failures>>
    BY <1>1 DEF Prepare, Tidy
  <2>2. PICK e : StartConsolidation(t, e) /\ Error(e)
    BY <1>1 DEF Prepare, Tidy
  <2> QED
    BY <2>1, <2>2, StartKept
<1>2. CASE Summarized(t) \/ RawArchived(t)
  BY <1>2, AnswerKept
<1>3. CASE RawArchiveFails(t)
  BY <1>3, DumpKept
<1>4. CASE SummaryFails(t)
  BY <1>4, FailureKept
<1>5. CASE ArchiveStarts(t)
  BY <1>5, ArchiveStartKept
<1>6. CASE NewSession(t)
  BY <1>6, NewSessionKept
<1>7. CASE Preflight(t)
  BY <1>7, PreflightKept
<1> QED
  BY <1>1, <1>2, <1>3, <1>4, <1>5, <1>6, <1>7 DEF Step

LEMMA MemoryStep == MemoryInv /\ KnownInv /\ [Next]_vars => MemoryInv'
<1> SUFFICES ASSUME MemoryInv, KnownInv, [Next]_vars PROVE MemoryInv'
  OBVIOUS
<1>1. CASE \E c \in Chats : Load(c)
  BY <1>1, LoadKept
<1>2. ASSUME NEW t \in tasks, Step(t) PROVE MemoryInv'
  <2>1. CASE TurnEnds(t)
    BY <2>1, TurnKept
  <2>2. CASE ~TurnEnds(t)
    BY <1>2, <2>2, CoroutineKept DEF StepKept
  <2> QED
    BY <2>1, <2>2
<1>3. CASE (\E t \in tasks : Stop(t)) \/ Crash
  BY <1>3, EndKept
<1>4. CASE UNCHANGED vars
  <2>1. UNCHANGED <<script, arrived, store, memory, history, tasks, failures, upsets>>
    BY <1>4 DEF vars
  <2>2. Counted
    BY <2>1, Reads DEF Counted
  <2>3. PICK next : next = {}
    OBVIOUS
  <2>4. tasks' \subseteq tasks \cup next /\ \A v \in next : TaskKept(v)'
    BY <2>1, <2>3
  <2> QED
    BY <2>1, <2>2, <2>4, Reads, CombineQuiet
<1> QED
  BY <1>1, <1>2, <1>3, <1>4 DEF Next

-----------------------------------------------------------------------------
(* What the memory knows.                                                  *)

\* After a step of a coroutine the memory and what was read of it are known still.
LEMMA KnownLater ==
    ASSUME KnownInv, NEW t \in tasks, NEW next, Becoming(t, next),
           arrived' = arrived, history \subseteq history',
           \A u \in memory' :
              \/ u \in memory \cup t.seen \cup history'
              \/ /\ t.kind = "turn" /\ t.of[2] <= arrived[t.of[1]]
                 /\ u[1] = t.of[1] /\ u[2] = t.of[2]
                 /\ \A v \in next : v.kind # "turn"
    PROVE  KnownInv'
<1>1. /\ tasks' = (tasks \ {t}) \cup next
      /\ \A u \in next : u.kind = "turn" => t.kind = "turn" /\ u.of = t.of
      /\ \A u \in next : u.seen \subseteq memory' \cup t.seen
      /\ \A u, v \in next : u.kind = "turn" /\ v.kind = "turn" => u = v
  BY DEF Becoming
<1>2. TurnsApart'
  <2> SUFFICES ASSUME NEW u \in tasks', NEW v \in tasks',
                      u.kind = "turn", v.kind = "turn", u.of[1] = v.of[1]
               PROVE  u = v
    BY DEF TurnsApart
  <2>1. ASSUME NEW x \in next, NEW y \in tasks \ {t}, x.kind = "turn", y.kind = "turn"
        PROVE  x.of[1] # y.of[1]
    BY <1>1, <2>1 DEF KnownInv, TurnsApart
  <2> QED
    BY <1>1, <2>1 DEF KnownInv, TurnsApart
<1>3. ASSUME NEW u, Known(u) PROVE Known(u)'
  BY <1>1, <1>3 DEF Known
<1>4. ASSUME NEW u \in memory' PROVE Known(u)'
  <2>1. CASE u \in memory \cup t.seen
    BY <1>3, <2>1 DEF KnownInv
  <2>2. CASE u \in history'
    BY <2>2 DEF Known
  <2>3. CASE /\ t.kind = "turn" /\ t.of[2] <= arrived[t.of[1]]
             /\ u[1] = t.of[1] /\ u[2] = t.of[2]
             /\ \A v \in next : v.kind # "turn"
    <3>1. ASSUME NEW v \in tasks', v.kind = "turn" PROVE v.of[1] # u[1]
      BY <1>1, <2>3, <3>1 DEF KnownInv, TurnsApart
    <3> QED
      BY <2>3, <3>1 DEF Known
  <2> QED
    BY <2>1, <2>2, <2>3
<1>5. ASSUME NEW v \in tasks', NEW u \in v.seen PROVE Known(u)'
  <2>1. u \in memory' \/ \E w \in tasks : u \in w.seen
    BY <1>1
  <2> QED
    BY <1>3, <1>4, <2>1 DEF KnownInv
<1> QED
  BY <1>2, <1>4, <1>5 DEF KnownInv

LEMMA KnownLoaded ==
    ASSUME MemoryInv, KnownInv, NEW c \in Chats, Load(c)
    PROVE  KnownInv'
<1>1. /\ UNCHANGED <<memory, history>> /\ arrived' = [arrived EXCEPT ![c] = @ + 1]
      /\ arrived \in [Chats -> Nat] /\ memory \subseteq Units
  BY LoadKept, Reads
<1>2. PICK t : /\ tasks' = tasks \cup {t} /\ t.of = <<c, arrived[c] + 1>>
               /\ t.kind = "turn" /\ t.seen = {}
  BY LoadKept
<1>3. ASSUME NEW u \in tasks, u.kind = "turn" PROVE u.of[1] # c
  BY <1>3 DEF Load, Busy
<1>4. TurnsApart'
  BY <1>2, <1>3 DEF KnownInv, TurnsApart
<1>5. ASSUME NEW u \in Units, Known(u) PROVE Known(u)'
  <2>1. u[1] \in Chats /\ u[2] \in Int
    BY DEF Units
  <2>2. CASE u \in history
    BY <1>1, <2>2 DEF Known
  <2>3. CASE /\ u[2] <= arrived[u[1]]
             /\ \A v \in tasks : v.kind = "turn" => ~(v.of[1] = u[1] /\ v.of[2] = u[2])
    <3>1. u[2] <= arrived'[u[1]]
      BY <1>1, <2>1, <2>3
    <3>2. ~(t.of[1] = u[1] /\ t.of[2] = u[2])
      <4>1. t.of[1] = c /\ t.of[2] = arrived[c] + 1 /\ arrived[c] \in Nat
        BY <1>1, <1>2
      <4> QED
        BY <2>1, <2>3, <4>1
    <3> QED
      BY <1>2, <2>3, <3>1, <3>2 DEF Known
  <2> QED
    BY <1>5, <2>2, <2>3 DEF Known
<1>6. \A v \in tasks : v.seen \subseteq Units
  BY Reads, TaskTypes
<1>7. \A u \in memory' : Known(u)'
  BY <1>1, <1>5 DEF KnownInv
<1>8. \A v \in tasks' : \A u \in v.seen : Known(u)'
  BY <1>2, <1>5, <1>6 DEF KnownInv
<1> QED
  BY <1>4, <1>7, <1>8 DEF KnownInv

LEMMA KnownStep == MemoryInv /\ KnownInv /\ [Next]_vars => KnownInv'
<1> SUFFICES ASSUME MemoryInv, KnownInv, [Next]_vars PROVE KnownInv'
  OBVIOUS
<1>1. CASE \E c \in Chats : Load(c)
  BY <1>1, KnownLoaded
<1>2. ASSUME NEW t \in tasks, Step(t) PROVE KnownInv'
  <2>1. CASE TurnEnds(t)
    <3>1. PICK next : Becoming(t, next) /\ \A u \in next : u.kind = "tidy"
      BY <2>1, TurnKept
    <3>2. /\ arrived' = arrived /\ history \subseteq history'
          /\ t.kind = "turn" /\ t.of[2] <= arrived[t.of[1]]
          /\ \A u \in memory' : u \in memory \/ (u[1] = t.of[1] /\ u[2] = t.of[2])
      BY <2>1, TurnKept
    <3>3. \A u \in next : u.kind # "turn"
      BY <3>1
    <3> QED
      BY <3>1, <3>2, <3>3, KnownLater
  <2>2. CASE ~TurnEnds(t)
    <3>1. StepKept(t)
      BY <1>2, <2>2, CoroutineKept
    <3>2. PICK next : Becoming(t, next)
      BY <3>1 DEF StepKept
    <3> QED
      BY <3>1, <3>2, KnownLater DEF StepKept
  <2> QED
    BY <2>1, <2>2
<1>3. CASE \/ (\E t \in tasks : Stop(t)) \/ Crash
           \/ UNCHANGED vars
  <2>1. tasks' \subseteq tasks /\ UNCHANGED <<arrived, memory, history>>
    BY <1>3, EndKept DEF vars
  <2> QED
    BY <2>1 DEF KnownInv, TurnsApart, Known
<1> QED
  BY <1>1, <1>2, <1>3 DEF Next

LEMMA Inductive == Spec => [](MemoryInv /\ KnownInv)
BY MemoryInit, MemoryStep, KnownStep, PTL DEF Spec

-----------------------------------------------------------------------------
(* What is in the stored session.                                          *)

THEOREM TypeCorrect == Spec => []TypeOK
<1>1. MemoryInv => TypeOK
  BY DEF MemoryInv
<1> QED
  BY <1>1, Inductive, PTL

\* What counts as consolidated in the stored session is in the history, whichever
\* copy was saved last: every copy that is anywhere has that property.
THEOREM ConsolidatedIsOnRecord == Spec => []ConsolidatedIsArchived
<1>1. MemoryInv => ConsolidatedIsArchived
  BY DEF MemoryInv, ConsolidatedIsArchived, SessionKept
<1> QED
  BY <1>1, Inductive, PTL

\* A fact in the stored session is in the history, and so on record, unless an
\* earlier message of the chat cleared the session.
THEOREM FactsAreOnRecord == Spec => []FactsMissedOnlyAfterClear
<1>1. MemoryInv => FactsMissedOnlyAfterClear
  <2> SUFFICES ASSUME MemoryInv, NEW c \in Chats,
                      NEW m \in Facts(store[c].turns) \ (memory \cup history)
               PROVE  \E i \in 1 .. m[2] - 1 : \/ script[c][i] = "new"
                                               \/ script[c][i] = "big"
    BY DEF FactsMissedOnlyAfterClear
  <2>1. SessionKept(c, store[c], arrived[c])
    BY DEF MemoryInv
  <2>2. PICK i \in DOMAIN store[c].turns : store[c].turns[i] = m
    BY DEF Facts, ToSet
  <2>3. IsFact(m)
    BY DEF Facts
  <2> QED
    BY <2>1, <2>2, <2>3 DEF SessionKept, Clears
<1> QED
  BY <1>1, Inductive, PTL

-----------------------------------------------------------------------------
(* What leaves a session.                                                  *)

\* Who saves a session stores the turns of its own copy, or clears it after what
\* is not consolidated has gone to the archive.
LEMMA TurnLeaves ==
    ASSUME MemoryInv, NEW t \in tasks, t.kind # "archive", NEW s, NEW e,
           Save(t.of[1], s, e), NEW next, Becomes(t, next), t \notin next,
           history \subseteq history',
           \/ ToSet(t.session.turns) \subseteq ToSet(s.turns)
           \/ Archive(t) \subseteq next,
           NEW c \in Chats, NEW m \in ToSet(store[c].turns) \ ToSet(store'[c].turns)
    PROVE  \/ m \in history'
           \/ \E u \in tasks' : u.kind = "archive" /\ m \in ToSet(u.session.turns)
           \/ \E u \in tasks \ tasks' : u.of[1] = c /\ m \notin ToSet(u.session.turns)
<1>1. store \in [Chats -> Sessions] /\ t.session \in Sessions /\ t.of[1] \in Chats
      /\ SessionKept(t.of[1], t.session, LastClear(t))
  BY Reads, CopyReads
<1>2. c = t.of[1] /\ store'[c] = s
  <2>1. store' # store
    OBVIOUS
  <2> QED
    BY <1>1, <2>1 DEF Save
<1>3. t \in tasks \ tasks' /\ tasks' = (tasks \ {t}) \cup next
  BY DEF Becomes
<1>4. CASE m \notin ToSet(t.session.turns)
  BY <1>2, <1>3, <1>4
<1>5. CASE m \in ToSet(t.session.turns)
  <2>1. Archive(t) \subseteq next
    BY <1>2, <1>5
  <2>2. PICK i \in DOMAIN t.session.turns : t.session.turns[i] = m
    BY <1>5 DEF ToSet
  <2>3. CASE i <= t.session.consolidated
    <3>1. i \in 1 .. t.session.consolidated
      BY <1>1, <2>2, <2>3, SessionTypes
    <3> QED
      BY <1>1, <2>2, <3>1 DEF SessionKept
  <2>4. CASE ~(i <= t.session.consolidated)
    <3>1. /\ t.session.consolidated \in Nat /\ i \in 1 .. Len(t.session.turns)
          /\ Len(t.session.turns) \in Nat
      BY <1>1, <2>2, SessionTypes
    <3> PICK rest : rest = Unconsolidated(t.session)
      OBVIOUS
    <3>0. t.session.consolidated <= Len(t.session.turns)
      BY <2>4, <3>1
    <3>2. /\ Len(rest) = Len(t.session.turns) - t.session.consolidated
          /\ DOMAIN rest = 1 .. Len(rest)
          /\ \A j \in DOMAIN rest : rest[j] = t.session.turns[t.session.consolidated + j]
      BY <1>1, <3>0, UnconsolidatedIs
    <3>3. i - t.session.consolidated \in DOMAIN rest
          /\ t.session.consolidated + (i - t.session.consolidated) = i
      BY <2>4, <3>1, <3>2
    <3>4. rest[i - t.session.consolidated] = m
      BY <2>2, <3>2, <3>3
    <3>5. m \in ToSet(rest) /\ rest # <<>>
      BY <3>3, <3>4 DEF ToSet
    <3>6. PICK u \in Archive(t) : TRUE
      BY <3>5 DEF Archive, EmptySession
    <3>7. u.kind = "archive" /\ u.session.turns = rest /\ u \in tasks'
      BY <1>3, <2>1, ArchiveIs
    <3> QED
      BY <3>5, <3>7
  <2> QED
    BY <2>3, <2>4
<1> QED
  BY <1>4, <1>5

\* What the property asks of a step.
TurnsLeave == \A c \in Chats : \A m \in ToSet(store[c].turns) \ ToSet(store'[c].turns) :
    \/ m \in history'
    \/ \E u \in tasks' : u.kind = "archive" /\ m \in ToSet(u.session.turns)
    \/ \E u \in tasks \ tasks' : u.of[1] = c /\ m \notin ToSet(u.session.turns)

LEMMA SaveLeaves ==
    ASSUME MemoryInv, NEW t \in tasks, t.kind # "archive", NEW next, Becomes(t, next),
           t \notin next, history \subseteq history', NEW s, NEW e,
           \/ UNCHANGED store
           \/ /\ Save(t.of[1], s, e)
              /\ ToSet(t.session.turns) \subseteq ToSet(s.turns) \/ Archive(t) \subseteq next
    PROVE  TurnsLeave
<1>1. CASE UNCHANGED store
  BY <1>1 DEF TurnsLeave
<1>2. CASE /\ Save(t.of[1], s, e)
           /\ ToSet(t.session.turns) \subseteq ToSet(s.turns) \/ Archive(t) \subseteq next
  BY <1>2, TurnLeaves DEF TurnsLeave
<1> QED
  BY <1>1, <1>2

\* Whoever consolidates goes on as another: its state or its round is new.
LEMMA NextIsNew ==
    ASSUME NEW t \in Task, t.kind # "archive", t.pc \in {"loaded", "asking"},
           NEW r \in Task, r.kind = t.kind, r.round = t.round, NEW known
    PROVE  t \notin Over(r) /\ t \notin NextRound(r, known)
<1>1. t.round \in Nat
  BY TaskTypes DEF MaxRounds
<1>2. \A u \in Over(r) : u.pc = "ready"
  BY DEF Over, Task
<1>3. \A u \in NextRound(r, known) : u.pc = "ready" \/ u.round = t.round + 1
  BY <1>2 DEF NextRound, Task
<1> QED
  BY <1>1, <1>2, <1>3

LEMMA StartLeaves ==
    ASSUME MemoryInv, NEW t \in tasks, t.kind # "archive", t.pc = "loaded",
           NEW e, StartConsolidation(t, e)
    PROVE  TurnsLeave
<1>1. t \in Task /\ t.session \in Sessions
  BY CopyReads
<1>2. history \subseteq history'
  BY DEF StartConsolidation, PersistFacts
<1>0. PICK known : known = Read(memory', e)
  OBVIOUS
<1>3. PICK r : /\ r \in {t, [t EXCEPT !.session = Scanned(t.session)]}
               /\ Becomes(t, Over(r)) \/ Becomes(t, NextRound(r, known)) \/ Becomes(t, {})
  BY <1>0 DEF StartConsolidation
<1>4. PICK next : next \in {Over(r), NextRound(r, known), {}} /\ Becomes(t, next)
  BY <1>3
<1>5. r \in Task /\ r.kind = t.kind /\ r.round = t.round
  BY <1>1, <1>3, EditedSessions DEF Task
<1>6. t \notin next
  BY <1>1, <1>4, <1>5, NextIsNew
<1>7. UNCHANGED store \/ Save(t.of[1], Scanned(t.session), e)
  BY DEF StartConsolidation
<1>8. ToSet(t.session.turns) \subseteq ToSet(Scanned(t.session).turns)
  BY <1>1, EditedSessions
<1> QED
  BY <1>2, <1>4, <1>6, <1>7, <1>8, SaveLeaves

LEMMA ChunkLeaves ==
    ASSUME MemoryInv, NEW t \in tasks, t.pc = "asking", NEW e, ChunkDone(t, e),
           history' = history \cup ToSet(t.chunk)
    PROVE  TurnsLeave
<1>1. CASE t.kind = "archive"
  BY <1>1 DEF ChunkDone, TurnsLeave
<1>2. CASE t.kind # "archive"
  <2> PICK moved : moved = [t.session EXCEPT !.consolidated = @ + Len(t.chunk)]
    OBVIOUS
  <2> PICK r : r = [t EXCEPT !.session = moved]
    OBVIOUS
  <2>1. t \in Task /\ t.session \in Sessions
    BY <1>2, CopyReads
  <2>2. moved \in Sessions /\ moved.turns = t.session.turns
    <3>1. t.session.consolidated \in Nat /\ Len(t.chunk) \in Nat
      BY <2>1, ChunkIs, SessionTypes
    <3>2. PICK k : k = t.session.consolidated + Len(t.chunk)
      OBVIOUS
    <3>3. k \in Nat
      BY <3>1, <3>2
    <3>4. moved = [t.session EXCEPT !.consolidated = k]
      BY <3>2
    <3> QED
      BY <2>1, <3>3, <3>4 DEF Sessions
  <2>3. r \in Task /\ r.kind = t.kind /\ r.round = t.round
    BY <2>1, <2>2 DEF Task
  <2> PICK known : known = Read(memory', e)
    OBVIOUS
  <2>4. Save(t.of[1], moved, e) /\ Becomes(t, NextRound(r, known))
    BY <1>2 DEF ChunkDone
  <2>5. t \notin NextRound(r, known)
    BY <1>2, <2>1, <2>3, NextIsNew
  <2> QED
    BY <1>2, <2>2, <2>4, <2>5, SaveLeaves
<1> QED
  BY <1>1, <1>2

LEMMA ClearLeaves ==
    ASSUME MemoryInv, KnownInv, NEW t \in tasks, NewSession(t) \/ Preflight(t) \/ TurnEnds(t)
    PROVE  TurnsLeave
<1>1. t.kind # "archive"
  <2>1. t \in Task /\ TaskKept(t)
    BY Reads
  <2>2. t.pc \in {"ready", "running"} \/ t.kind = "turn"
    BY DEF NewSession, Preflight, TurnEnds
  <2> QED
    BY <2>1, <2>2 DEF TaskKept, ArchiveKept
<1>2. t \in Task /\ t.session \in Sessions /\ t.of \in Messages
  BY <1>1, CopyReads, TaskTypes
<1>3. \A u \in Archive(t) : u.kind = "archive"
  BY <1>1, ArchiveIs
<1>4. CASE NewSession(t)
  <2>1. PICK e : Save(t.of[1], Cleared(t.session), e)
    BY <1>4 DEF NewSession
  <2>2. Becomes(t, Archive(t)) /\ UNCHANGED history
    BY <1>4 DEF NewSession
  <2> QED
    BY <1>1, <1>3, <2>1, <2>2, SaveLeaves
<1>5. CASE Preflight(t)
  <2>1. t.pc = "ready" /\ UNCHANGED history
    BY <1>5 DEF Preflight
  <2>2. ASSUME NEW s
        PROVE  [t EXCEPT !.pc = "running", !.session = s].pc = "running"
    BY <1>2 DEF Task
  <2>3. PICK u, e :
                 /\ u.pc = "running"
                 /\ \/ /\ Save(t.of[1], Cleared(t.session), e)
                       /\ Becomes(t, {u} \cup Archive(t))
                    \/ Becomes(t, {u}) /\ UNCHANGED store
    BY <1>5, <2>2 DEF Preflight
  <2>4. PICK next : /\ next \in {{u}, {u} \cup Archive(t)}
                    /\ Becomes(t, next)
                    /\ \/ UNCHANGED store
                       \/ Save(t.of[1], Cleared(t.session), e) /\ Archive(t) \subseteq next
    BY <2>3
  <2>5. t \notin next
    BY <1>1, <1>3, <2>1, <2>3, <2>4
  <2> QED
    BY <1>1, <2>1, <2>4, <2>5, SaveLeaves
<1>6. CASE TurnEnds(t)
  <2>1. PICK e \in StartErrors, k \in 0 .. 2 :
          \/ Becomes(t, {}) /\ UNCHANGED store
          \/ /\ Save(t.of[1], Scanned(WithTurn(t, k)), e)
             /\ Becomes(t, {NewTask("tidy", t.of, "loaded", Scanned(WithTurn(t, k)))})
    BY <1>6 DEF TurnEnds
  <2>2. t.pc = "running" /\ history \subseteq history'
    BY <1>6 DEF TurnEnds, PersistFacts
  <2> PICK s : s = Scanned(WithTurn(t, k))
    OBVIOUS
  <2> PICK u : u = NewTask("tidy", t.of, "loaded", s)
    OBVIOUS
  <2>3. ToSet(t.session.turns) \subseteq ToSet(s.turns)
    <3> PICK new : new = WithTurn(t, k).turns
      OBVIOUS
    <3>1. /\ \A i \in DOMAIN t.session.turns : i \in DOMAIN new /\ new[i] = t.session.turns[i]
          /\ WithTurn(t, k) \in Sessions
      BY <1>2, WithTurnIs
    <3>2. s.turns = new
      BY <3>1, EditedSessions
    <3> QED
      BY <3>1, <3>2 DEF ToSet
  <2>4. u.pc = "loaded"
    BY DEF NewTask
  <2>5. PICK next : /\ next \in {{}, {u}} /\ Becomes(t, next)
                    /\ UNCHANGED store \/ Save(t.of[1], s, e)
    BY <2>1
  <2> QED
    BY <1>1, <2>2, <2>3, <2>4, <2>5, SaveLeaves
<1> QED
  BY <1>4, <1>5, <1>6

LEMMA StepLeaves == MemoryInv /\ KnownInv /\ [Next]_vars => TurnsLeave
<1> SUFFICES ASSUME MemoryInv, KnownInv, [Next]_vars PROVE TurnsLeave
  OBVIOUS
<1>1. CASE UNCHANGED store
  BY <1>1 DEF TurnsLeave
<1>2. ASSUME NEW t \in tasks, Tidy(t) \/ Prepare(t) PROVE TurnsLeave
  BY <1>2, StartLeaves DEF Tidy, Prepare
<1>3. ASSUME NEW t \in tasks, Summarized(t) \/ RawArchived(t) PROVE TurnsLeave
  BY <1>3, ChunkLeaves DEF Summarized, RawArchived
<1>4. ASSUME NEW t \in tasks, ArchiveStarts(t) \/ SummaryFails(t)
                             \/ RawArchiveFails(t) \/ Stop(t)
      PROVE  UNCHANGED store
  BY <1>4 DEF ArchiveStarts, SummaryFails, RawArchiveFails, Stop
<1>5. ASSUME NEW t \in tasks, Step(t) PROVE TurnsLeave
  BY <1>1, <1>2, <1>3, <1>4, <1>5, ClearLeaves DEF Step
<1>6. (\E c \in Chats : Load(c)) \/ Crash \/ UNCHANGED vars => UNCHANGED store
  BY DEF Load, Crash, vars
<1> QED
  BY <1>1, <1>4, <1>5, <1>6 DEF Next

\* A turn leaves the stored session only for the history or an archive, or because
\* the coroutine that saves has a copy that never had it.
THEOREM LeavingTurnsAreArchived == Spec => TurnsLeaveArchived
<1>1. MemoryInv /\ KnownInv /\ [Next]_vars =>
        [\A c \in Chats :
            \A m \in ToSet(store[c].turns) \ ToSet(store'[c].turns) :
              \/ m \in history'
              \/ \E t \in tasks' : t.kind = "archive" /\ m \in ToSet(t.session.turns)
              \/ \E t \in tasks \ tasks' :
                    t.of[1] = c /\ m \notin ToSet(t.session.turns)]_vars
  BY StepLeaves DEF TurnsLeave
<1> QED
  BY <1>1, Inductive, PTL DEF Spec, TurnsLeaveArchived

-----------------------------------------------------------------------------
(* What the coroutines of one message share: its count of failures.        *)

\* Only t goes on, as what is in next.
LEMMA ShareNext ==
    ASSUME SharingInv, NEW t \in tasks, NEW next, tasks' \subseteq (tasks \ {t}) \cup next,
           history \subseteq history',
           \A y \in next : y.of = t.of,
           \/ Unfinished(t)
           \/ \A y \in next : /\ ~Unfinished(y)
                              /\ y.kind = "archive" => t.kind = "archive"
                              /\ OwnOnly(t) => OwnOnly(y)',
           \A x, y \in next : x # y => ~Unfinished(x) /\ (x.kind = "archive" => OwnOnly(y)')
    PROVE  SharingInv'
<1> SUFFICES ASSUME NEW x \in (tasks \ {t}) \cup next, NEW y \in (tasks \ {t}) \cup next,
                    x.of = y.of, x # y
             PROVE  ~Unfinished(x) /\ (x.kind = "archive" => OwnOnly(y)')
  BY DEF SharingInv, Unfinished
<1>0. OwnOnly(y) => OwnOnly(y)'
  BY DEF OwnOnly
<1>1. CASE x \in next /\ y \in next
  BY <1>1
<1>2. CASE x \notin next /\ y \notin next
  BY <1>0, <1>2 DEF SharingInv
<1>3. CASE x \notin next /\ y \in next
  <2>1. ~Unfinished(t) /\ ~Unfinished(x) /\ (x.kind = "archive" => OwnOnly(t))
    BY <1>3 DEF SharingInv
  <2> QED
    BY <1>3, <2>1
<1>4. CASE x \in next /\ y \notin next
  <2>1. ~Unfinished(t) /\ (t.kind = "archive" => OwnOnly(y))
    BY <1>4 DEF SharingInv
  <2> QED
    BY <1>0, <1>4, <2>1
<1> QED
  BY <1>1, <1>2, <1>3, <1>4

\* A consolidation goes on for the same message, with the same session.
LEMMA GoesOn ==
    ASSUME NEW t \in Task, NEW known
    PROVE  \A u \in Over(t) \cup NextRound(t, known) :
              u.of = t.of /\ u.kind = t.kind /\ u.session = t.session
<1>1. \A u \in Over(t) : u.of = t.of /\ u.kind = t.kind /\ u.session = t.session
  BY DEF Over, Task
<1>2. ASSUME NEW u \in NextRound(t, known), u \notin Over(t)
      PROVE  u.of = t.of /\ u.kind = t.kind /\ u.session = t.session
  <2> PICK chunk : u = [t EXCEPT !.pc = "asking", !.round = t.round + 1, !.seen = known,
                                 !.chunk = chunk]
    BY <1>2 DEF NextRound
  <2> QED
    BY DEF Task
<1> QED
  BY <1>1, <1>2

\* What such a coroutine has archived begins with the turn itself.
LEMMA ArchivesOwn ==
    ASSUME MemoryInv, NEW t \in tasks, t.pc = "asking", OwnOnly(t),
           history \subseteq history', ToSet(t.chunk) \subseteq history'
    PROVE  Own(t.of) \in history'
<1>1. CASE Own(t.of) \in history
  BY <1>1
<1>2. CASE t.session.consolidated = 0
  <2>1. /\ t.chunk # <<>>
        /\ \A i \in DOMAIN t.chunk : /\ t.session.consolidated + i \in DOMAIN t.session.turns
                                     /\ t.chunk[i] = t.session.turns[t.session.consolidated + i]
    BY Reads DEF TaskKept, CopyKept, OwnOnly
  <2>2. t.chunk \in Seq(Units) /\ 1 \in DOMAIN t.chunk
    BY <2>1, ChunkIs
  <2>3. t.session.consolidated + 1 = 1
    BY <1>2
  <2>4. 1 \in DOMAIN t.session.turns /\ t.chunk[1] = t.session.turns[1]
    BY <2>1, <2>2, <2>3
  <2>5. t.session.turns # <<>>
    BY <2>4
  <2>6. t.chunk[1] \in ToSet(t.chunk)
    BY <2>2 DEF ToSet
  <2> QED
    BY <2>4, <2>5, <2>6 DEF OwnOnly
<1> QED
  BY <1>1, <1>2 DEF OwnOnly

\* A coroutine that consolidates is an unfinished turn, or goes on as what it was.
Consolidating(t) ==
    \/ Prepare(t) \/ Tidy(t)
    \/ t.kind # "archive" /\ (Summarized(t) \/ RawArchived(t) \/ SummaryFails(t))

LEMMA ConsolidationGoesOn ==
    ASSUME MemoryInv, NEW t \in tasks, Consolidating(t)
    PROVE  /\ t.kind # "archive" /\ (t.kind = "turn" => Unfinished(t))
           /\ history \subseteq history'
           /\ \E next : /\ tasks' = (tasks \ {t}) \cup next
                        /\ \A x, y \in next : x = y
                        /\ \A y \in next : /\ y.of = t.of /\ y.kind = t.kind
                                           /\ OwnOnly(t) => OwnOnly(y)'
<1>1. /\ t.kind # "archive" /\ t.pc \in {"loaded", "asking"}
      /\ t \in Task /\ t.session \in Sessions
  <2>1. t.kind # "archive" /\ t.pc \in {"loaded", "asking"}
    BY DEF Consolidating, Prepare, Tidy, Summarized, RawArchived, SummaryFails
  <2> QED
    BY <2>1, CopyReads
<1>2. StepKept(t)
  <2>1. Step(t) /\ ~TurnEnds(t)
    BY <1>1 DEF Consolidating, Step, TurnEnds
  <2> QED
    BY <2>1, CoroutineKept
<1>3. history \subseteq history'
  BY <1>2 DEF StepKept
\* What it becomes, from a copy with the same turns.
<1>4. \E after, known, next :
        /\ after \in Task /\ after.of = t.of /\ after.kind = t.kind
        /\ after.session.turns = t.session.turns
        /\ \/ after.session.consolidated = t.session.consolidated
           \/ t.pc = "asking" /\ ToSet(t.chunk) \subseteq history'
        /\ tasks' = (tasks \ {t}) \cup next
        /\ next = Over(after) \/ next = NextRound(after, known) \/ next = {}
  <2>1. CASE Prepare(t) \/ Tidy(t)
    <3>1. PICK e : StartConsolidation(t, e)
      BY <2>1 DEF Prepare, Tidy
    <3>2. PICK after : after = [t EXCEPT !.session = Scanned(t.session)]
      OBVIOUS
    <3>3. /\ after \in Task /\ after.of = t.of /\ after.kind = t.kind
          /\ after.session = Scanned(t.session)
          /\ after.session.turns = t.session.turns
          /\ after.session.consolidated = t.session.consolidated
      <4>1. Scanned(t.session) \in Sessions
        BY <1>1, EditedSessions
      <4>2. after \in Task /\ after.of = t.of /\ after.kind = t.kind
            /\ after.session = Scanned(t.session)
        BY <1>1, <3>2, <4>1 DEF Task
      <4> QED
        BY <1>1, <4>2, EditedSessions
    <3>4. \E next : /\ tasks' = (tasks \ {t}) \cup next
                    /\ \/ next = Over(t) \/ next = Over(after) \/ next = {}
                       \/ next = NextRound(after, Read(memory', e))
      BY <3>1, <3>2 DEF StartConsolidation, Becomes
    <3> QED
      BY <1>1, <3>3, <3>4
  <2>2. CASE SummaryFails(t)
    <3>1. tasks' = (tasks \ {t}) \cup Over(t)
      BY <1>1, <2>2 DEF SummaryFails, Becomes
    <3> QED
      BY <1>1, <3>1
  <2>3. CASE Summarized(t) \/ RawArchived(t)
    <3>1. t.pc = "asking" /\ history' = history \cup ToSet(t.chunk)
      BY <2>3 DEF Summarized, RawArchived
    <3>2. PICK e : ChunkDone(t, e)
      BY <2>3 DEF Summarized, RawArchived
    <3>3. PICK n : n = t.session.consolidated + Len(t.chunk)
      OBVIOUS
    <3>4. n \in Nat
      BY <1>1, <3>1, <3>3, ChunkIs, SessionTypes
    <3>5. PICK moved : moved = [t.session EXCEPT !.consolidated = n]
      OBVIOUS
    <3>6. moved \in Sessions /\ moved.turns = t.session.turns
      BY <1>1, <3>4, <3>5 DEF Sessions
    <3>7. PICK after : after = [t EXCEPT !.session = moved]
      OBVIOUS
    <3>8. /\ after \in Task /\ after.of = t.of /\ after.kind = t.kind
          /\ after.session = moved
      BY <1>1, <3>6, <3>7 DEF Task
    <3>9. tasks' = (tasks \ {t}) \cup NextRound(after, Read(memory', e))
      BY <1>1, <3>2, <3>3, <3>5, <3>7 DEF ChunkDone, Becomes
    <3> QED
      BY <3>1, <3>6, <3>8, <3>9
  <2> QED
    BY <2>1, <2>2, <2>3 DEF Consolidating
<1>5. PICK after, known, next :
        /\ after \in Task /\ after.of = t.of /\ after.kind = t.kind
        /\ after.session.turns = t.session.turns
        /\ \/ after.session.consolidated = t.session.consolidated
           \/ t.pc = "asking" /\ ToSet(t.chunk) \subseteq history'
        /\ tasks' = (tasks \ {t}) \cup next
        /\ next = Over(after) \/ next = NextRound(after, known) \/ next = {}
  BY <1>4
<1>6. \A x, y \in next : x = y
  BY <1>5, OneGoesOn
<1>7. ASSUME NEW y \in next
      PROVE  y.of = t.of /\ y.kind = t.kind /\ (OwnOnly(t) => OwnOnly(y)')
  <2>1. y.of = t.of /\ y.kind = t.kind /\ y.session = after.session
    BY <1>5, GoesOn
  <2>2. ASSUME OwnOnly(t) PROVE OwnOnly(y)'
    <3>1. CASE after.session.consolidated = t.session.consolidated
      BY <1>3, <1>5, <2>1, <2>2, <3>1 DEF OwnOnly
    <3>2. CASE t.pc = "asking" /\ ToSet(t.chunk) \subseteq history'
      <4>1. Own(t.of) \in history'
        BY <1>3, <2>2, <3>2, ArchivesOwn
      <4> QED
        BY <1>5, <2>1, <2>2, <4>1 DEF OwnOnly
    <3> QED
      BY <1>5, <3>1, <3>2
  <2> QED
    BY <2>1, <2>2
<1> QED
  BY <1>1, <1>3, <1>5, <1>6, <1>7 DEF Unfinished

LEMMA ConsolidationShares ==
    ASSUME MemoryInv, SharingInv, NEW t \in tasks, Consolidating(t)
    PROVE  SharingInv'
<1>1. /\ t.kind # "archive" /\ (t.kind = "turn" => Unfinished(t))
      /\ history \subseteq history'
  BY ConsolidationGoesOn
<1>2. PICK next : /\ tasks' = (tasks \ {t}) \cup next
                  /\ \A x, y \in next : x = y
                  /\ \A y \in next : /\ y.of = t.of /\ y.kind = t.kind
                                     /\ OwnOnly(t) => OwnOnly(y)'
  BY ConsolidationGoesOn
<1>3. CASE t.kind = "turn"
  BY <1>1, <1>2, <1>3, ShareNext
<1>4. CASE t.kind # "turn"
  <2>1. \A y \in next : ~Unfinished(y) /\ y.kind # "archive"
    BY <1>1, <1>2, <1>4 DEF Unfinished
  <2> QED
    BY <1>1, <1>2, <2>1, ShareNext
<1> QED
  BY <1>3, <1>4

\* An archive goes on as an archive, if it does.
Archiving(t) ==
    \/ ArchiveStarts(t)
    \/ t.kind = "archive" /\ (Summarized(t) \/ RawArchived(t) \/ SummaryFails(t))
    \/ RawArchiveFails(t)

LEMMA ArchiveGoesOn ==
    ASSUME MemoryInv, NEW t \in tasks, Archiving(t)
    PROVE  /\ history \subseteq history'
           /\ \E next : /\ tasks' = (tasks \ {t}) \cup next
                        /\ \A x, y \in next : x = y
                        /\ \A y \in next :
                            /\ y.of = t.of /\ y.kind = "archive" /\ t.kind = "archive"
                            /\ \/ ArchiveStarts(t) /\ y.round = 1
                               \/ SummaryFails(t) /\ y.round = t.round + 1
           /\ ArchiveStarts(t) \/ (SummaryFails(t) /\ t.round < MaxFailures) =>
                \E y \in tasks' : y.kind = "archive" /\ y.of = t.of
<1> DEFINE Goes(next) ==
      /\ tasks' = (tasks \ {t}) \cup next
      /\ \A x, y \in next : x = y
      /\ \A y \in next :
          /\ y.of = t.of /\ y.kind = "archive" /\ t.kind = "archive"
          /\ \/ ArchiveStarts(t) /\ y.round = 1
             \/ SummaryFails(t) /\ y.round = t.round + 1
<1> DEFINE Starts == ArchiveStarts(t) \/ (SummaryFails(t) /\ t.round < MaxFailures)
<1> SUFFICES /\ history \subseteq history'
             /\ \E next : Goes(next)
             /\ Starts => \E y \in tasks' : y.kind = "archive" /\ y.of = t.of
  OBVIOUS
<1>1. t \in Task
  BY Reads
<1>2. history \subseteq history'
  <2>1. Step(t) /\ ~TurnEnds(t)
    BY DEF Archiving, Step, TurnEnds, ArchiveStarts, Summarized, RawArchived, SummaryFails,
           RawArchiveFails
  <2> QED
    BY <2>1, CoroutineKept DEF StepKept
<1>3. CASE ArchiveStarts(t)
  <2>1. PICK seen : tasks' = (tasks \ {t}) \cup
                      {[t EXCEPT !.pc = "asking", !.round = 1, !.seen = seen,
                                 !.chunk = t.session.turns]}
    BY <1>3 DEF ArchiveStarts, Becomes
  <2>2. PICK y : y = [t EXCEPT !.pc = "asking", !.round = 1, !.seen = seen,
                               !.chunk = t.session.turns]
    OBVIOUS
  <2>3. y.of = t.of /\ y.kind = "archive" /\ t.kind = "archive" /\ y.round = 1
    BY <1>1, <1>3, <2>2 DEF Task, ArchiveStarts
  <2>0. PICK next : next = {y}
    OBVIOUS
  <2>4. \A x \in next : x = y
    BY <2>0
  <2>5. tasks' = (tasks \ {t}) \cup next /\ y \in tasks'
    BY <2>0, <2>1, <2>2
  <2>6. Goes(next)
    BY <1>3, <2>3, <2>4, <2>5
  <2> HIDE DEF Goes, Starts
  <2> QED
    BY <1>2, <2>3, <2>5, <2>6
<1>4. CASE SummaryFails(t) /\ t.kind = "archive" /\ t.round < MaxFailures
  <2>1. PICK seen : tasks' = (tasks \ {t}) \cup {[t EXCEPT !.round = @ + 1, !.seen = seen]}
    BY <1>4 DEF SummaryFails, Becomes
  <2>2. PICK y : y = [t EXCEPT !.round = @ + 1, !.seen = seen]
    OBVIOUS
  <2>3. y.of = t.of /\ y.kind = "archive" /\ y.round = t.round + 1
    BY <1>1, <1>4, <2>2 DEF Task
  <2>0. PICK next : next = {y}
    OBVIOUS
  <2>4. \A x \in next : x = y
    BY <2>0
  <2>5. tasks' = (tasks \ {t}) \cup next /\ y \in tasks'
    BY <2>0, <2>1, <2>2
  <2>6. Goes(next)
    BY <1>4, <2>3, <2>4, <2>5
  <2> HIDE DEF Goes, Starts
  <2> QED
    BY <1>2, <2>3, <2>5, <2>6
<1>5. CASE ~Starts
  <2>1. PICK next : next = {}
    OBVIOUS
  <2>2. tasks' = (tasks \ {t}) \cup next /\ \A y \in next : FALSE
    BY <1>5, <2>1 DEF Archiving, SummaryFails, Summarized, RawArchived, RawArchiveFails,
                      ChunkDone, Becomes, Over
  <2>3. Goes(next)
    BY <2>2
  <2> HIDE DEF Goes, Starts
  <2> QED
    BY <1>2, <1>5, <2>3
<1>6. ~(SummaryFails(t) /\ RawArchiveFails(t))
  BY DEF SummaryFails, RawArchiveFails
<1> QED
  BY <1>3, <1>4, <1>5, <1>6 DEF Archiving

LEMMA ArchivingShares ==
    ASSUME MemoryInv, SharingInv, NEW t \in tasks, Archiving(t)
    PROVE  SharingInv'
<1>1. PICK next : /\ tasks' = (tasks \ {t}) \cup next
                  /\ \A x, y \in next : x = y
                  /\ \A y \in next : y.of = t.of /\ y.kind = "archive" /\ t.kind = "archive"
  BY ArchiveGoesOn
<1>2. history \subseteq history'
  BY ArchiveGoesOn
<1>3. \A y \in next : ~Unfinished(y) /\ ~OwnOnly(t)
  BY <1>1 DEF Unfinished, OwnOnly
<1> QED
  BY <1>1, <1>2, <1>3, ShareNext

\* A message is loaded once.
LEMMA LoadShares ==
    ASSUME MemoryInv, SharingInv, NEW c \in Chats, Load(c)
    PROVE  SharingInv'
<1>1. PICK t : tasks' = tasks \cup {t} /\ t.kind = "turn" /\ t.of = <<c, arrived[c] + 1>>
  BY LoadKept
<1>2. arrived[c] \in Nat /\ UNCHANGED history
  BY LoadKept, Reads
<1>3. \A u \in tasks : u.of # t.of
  <2> SUFFICES ASSUME NEW u \in tasks, u.of = t.of PROVE FALSE
    OBVIOUS
  <2>1. u.of[2] <= arrived[u.of[1]]
    BY Reads DEF TaskKept
  <2> QED
    BY <1>1, <1>2, <2>1
<1>4. ASSUME NEW x \in tasks', NEW y \in tasks', x.of = y.of, x # y
      PROVE  x \in tasks /\ y \in tasks
  BY <1>1, <1>3, <1>4
<1>5. \A y \in tasks : OwnOnly(y) => OwnOnly(y)'
  BY <1>2 DEF OwnOnly
<1> QED
  BY <1>4, <1>5 DEF SharingInv, Unfinished

\* The turn that clears its session, and the archive of what it had.
LEMMA ClearingShares ==
    ASSUME MemoryInv, SharingInv, NEW t \in tasks, NewSession(t) \/ Preflight(t)
    PROVE  SharingInv'
<1>1. Unfinished(t) /\ t.kind = "turn" /\ UNCHANGED history /\ t \in Task /\ t.session \in Sessions
  <2>1. t.kind = "turn" /\ t.pc \in {"loaded", "ready"} /\ UNCHANGED history
    BY PreflightKept DEF NewSession, Preflight
  <2> QED
    BY <2>1, CopyReads DEF Unfinished
<1>2. /\ \A a \in Archive(t) : a.kind = "archive" /\ a.of = t.of
      /\ \A a, b \in Archive(t) : a = b
  BY <1>1, ArchiveIs, OneGoesOn
<1>3. CASE NewSession(t)
  <2>1. tasks' = (tasks \ {t}) \cup Archive(t)
    BY <1>3 DEF NewSession, Becomes
  <2> QED
    BY <1>1, <1>2, <2>1, ShareNext
<1>4. ASSUME NEW s \in Sessions, NEW rest \in SUBSET Archive(t),
             rest = {} \/ (s.turns = <<>> /\ s.consolidated = 0),
             tasks' = (tasks \ {t}) \cup ({[t EXCEPT !.pc = "running", !.session = s]} \cup rest)
      PROVE  SharingInv'
  <2>1. PICK u : u = [t EXCEPT !.pc = "running", !.session = s]
    OBVIOUS
  <2>2. u.of = t.of /\ u.kind = "turn" /\ u.pc = "running" /\ u.session = s
    BY <1>1, <1>4, <2>1 DEF Task
  <2>3. ~Unfinished(u) /\ u.kind # "archive" /\ (rest # {} => OwnOnly(u)')
    BY <1>4, <2>2 DEF Unfinished, OwnOnly
  <2>4. PICK next : next = {u} \cup rest
    OBVIOUS
  <2>5. \A y \in next : y = u \/ (y \in rest /\ y.kind = "archive" /\ y.of = t.of)
    BY <1>2, <1>4, <2>4
  <2>6. ASSUME NEW x \in next, NEW y \in next, x # y
        PROVE  ~Unfinished(x) /\ (x.kind = "archive" => OwnOnly(y)')
    <3>1. x = u \/ y = u
      BY <1>2, <1>4, <2>5, <2>6
    <3>2. rest # {}
      BY <2>5, <2>6
    <3> QED
      BY <2>3, <2>5, <2>6, <3>1, <3>2 DEF Unfinished
  <2>7. tasks' = (tasks \ {t}) \cup next /\ \A y \in next : y.of = t.of
    BY <1>4, <2>1, <2>2, <2>4, <2>5
  <2> QED
    BY <1>1, <2>6, <2>7, ShareNext
<1>5. CASE Preflight(t)
  <2>1. CASE script[t.of[1]][t.of[2]] = "big" /\ Unconsolidated(t.session) # <<>>
    <3>1. PICK s : s = Cleared(t.session)
      OBVIOUS
    <3>2. s \in Sessions /\ s.turns = <<>> /\ s.consolidated = 0
      BY <1>1, <3>1, EditedSessions
    <3>3. tasks' = (tasks \ {t}) \cup
                     ({[t EXCEPT !.pc = "running", !.session = s]} \cup Archive(t))
      BY <1>5, <2>1, <3>1 DEF Preflight, Becomes
    <3> QED
      BY <1>4, <3>2, <3>3
  <2>2. CASE ~(script[t.of[1]][t.of[2]] = "big" /\ Unconsolidated(t.session) # <<>>)
    <3>1. PICK s : s = t.session
      OBVIOUS
    <3>2. PICK rest : rest = {}
      OBVIOUS
    <3>3. tasks' = (tasks \ {t}) \cup ({[t EXCEPT !.pc = "running", !.session = s]} \cup rest)
      BY <1>5, <2>2, <3>1, <3>2 DEF Preflight, Becomes
    <3>4. s \in Sessions /\ rest \in SUBSET Archive(t)
      BY <1>1, <3>1, <3>2
    <3>5. rest = {} \/ (s.turns = <<>> /\ s.consolidated = 0)
      BY <3>2
    <3> QED
      BY <1>4, <3>3, <3>4, <3>5
  <2> QED
    BY <2>1, <2>2
<1> QED
  BY <1>3, <1>5

\* The consolidation that a turn leaves behind has the turn's copy and its units.
LEMMA TurnShares ==
    ASSUME MemoryInv, KnownInv, SharingInv, NEW t \in tasks, TurnEnds(t)
    PROVE  SharingInv'
<1>1. /\ t.kind = "turn" /\ history \subseteq history' /\ t \in Task
      /\ t.session \in Sessions /\ t.of \in Messages
  BY TurnKept, CopyReads
<1>2. PICK k \in 0 .. 2 : \E next :
        /\ tasks' = (tasks \ {t}) \cup next
        /\ next \subseteq {NewTask("tidy", t.of, "loaded", Scanned(WithTurn(t, k)))}
  <2>1. PICK e \in StartErrors, k \in 0 .. 2 :
          IF Raises(WithTurn(t, k), e)
          THEN Becomes(t, {})
          ELSE Becomes(t, {NewTask("tidy", t.of, "loaded", Scanned(WithTurn(t, k)))})
    BY DEF TurnEnds
  <2>2. PICK next :
          /\ Becomes(t, next)
          /\ next \subseteq {NewTask("tidy", t.of, "loaded", Scanned(WithTurn(t, k)))}
    BY <2>1
  <2> QED
    BY <2>2 DEF Becomes
<1>3. PICK next : /\ tasks' = (tasks \ {t}) \cup next
                  /\ next \subseteq {NewTask("tidy", t.of, "loaded", Scanned(WithTurn(t, k)))}
  BY <1>2
<1>4. PICK s : s = WithTurn(t, k)
  OBVIOUS
<1>5. /\ s \in Sessions /\ s.consolidated = t.session.consolidated
      /\ Len(s.turns) = Len(t.session.turns) + k
      /\ \A i \in DOMAIN t.session.turns : s.turns[i] = t.session.turns[i]
      /\ \A j \in 1 .. k : s.turns[Len(t.session.turns) + j] = <<t.of[1], t.of[2], j>>
  BY <1>1, <1>4, WithTurnIs
<1>6. PICK u : u = NewTask("tidy", t.of, "loaded", Scanned(s))
  OBVIOUS
<1>7. /\ u.of = t.of /\ u.kind = "tidy" /\ u.session.turns = s.turns
      /\ u.session.consolidated = s.consolidated
  BY <1>1, <1>5, <1>6, NewTaskIs, EditedSessions
<1>8. ASSUME OwnOnly(t) PROVE OwnOnly(u)'
  <2>1. ASSUME s.turns # <<>> PROVE s.turns[1] = Own(t.of)
    <3> PICK old : old = t.session.turns
      OBVIOUS
    <3>0. old \in Seq(Units) /\ Len(old) \in Nat /\ DOMAIN old = 1 .. Len(old)
      BY <1>1, SessionTypes
    <3>1. CASE old = <<>>
      <4>1. Len(old) = 0 /\ Len(s.turns) = k /\ s.turns \in Seq(Units)
        BY <1>5, <3>1, SessionTypes
      <4>2. k # 0
        BY <2>1, <4>1
      <4>3. 1 \in 1 .. k /\ Len(old) + 1 = 1
        BY <4>1, <4>2
      <4>4. s.turns[Len(old) + 1] = <<t.of[1], t.of[2], 1>>
        BY <1>5, <4>3
      <4> QED
        BY <4>3, <4>4 DEF Own
    <3>2. CASE old # <<>>
      <4>1. 1 \in DOMAIN old
        BY <3>0, <3>2
      <4> QED
        BY <1>5, <1>8, <3>2, <4>1 DEF OwnOnly
    <3> QED
      BY <3>1, <3>2
  <2> QED
    BY <1>1, <1>5, <1>7, <1>8, <2>1 DEF OwnOnly
<1>9. \A y \in next : y = u
  BY <1>3, <1>4, <1>6
<1>10. ~Unfinished(u) /\ u.kind # "archive"
  BY <1>7 DEF Unfinished
<1> QED
  BY <1>1, <1>7, <1>8, <1>9, <1>3, <1>10, ShareNext

LEMMA SharingStep == MemoryInv /\ KnownInv /\ SharingInv /\ [Next]_vars => SharingInv'
<1> SUFFICES ASSUME MemoryInv, KnownInv, SharingInv, [Next]_vars PROVE SharingInv'
  OBVIOUS
<1>1. ASSUME NEW c \in Chats, Load(c) PROVE SharingInv'
  BY <1>1, LoadShares
<1>2. ASSUME NEW t \in tasks, Step(t) PROVE SharingInv'
  <2>1. \/ Consolidating(t) \/ Archiving(t) \/ NewSession(t) \/ Preflight(t) \/ TurnEnds(t)
    BY <1>2 DEF Step, Consolidating, Archiving
  <2> QED
    BY <2>1, ConsolidationShares, ArchivingShares, ClearingShares, TurnShares
<1>3. CASE (\E t \in tasks : Stop(t)) \/ Crash \/ UNCHANGED vars
  <2>1. tasks' \subseteq tasks /\ UNCHANGED history
    BY <1>3, EndKept DEF vars
  <2> QED
    BY <2>1 DEF SharingInv, Unfinished, OwnOnly
<1> QED
  BY <1>1, <1>2, <1>3 DEF Next


LEMMA CountTypes ==
    ASSUME MemoryInv, NEW t \in tasks
    PROVE  /\ t \in Task /\ t.of \in Messages /\ t.round \in Nat
           /\ DOMAIN failures = Messages /\ \A m \in Messages : failures[m] \in Nat
           /\ upsets \in Nat
<1>1. /\ t \in Task /\ upsets \in Nat
      /\ failures \in [Messages -> 0 .. MaxFailures - 1 + upsets]
  BY Reads
<1>2. t.of \in Messages /\ t.round \in Nat
  BY <1>1, TaskTypes DEF MaxRounds
<1>3. \A m \in Messages : failures[m] \in Nat
  BY <1>1 DEF MaxFailures
<1> QED
  BY <1>1, <1>2, <1>3

\* What a coroutine does to the count of its message.
LEMMA CountsAre ==
    ASSUME MemoryInv, KnownInv, NEW t \in tasks, Step(t)
    PROVE  /\ history \subseteq history'
           /\ \A m \in Messages : m # t.of => failures'[m] = failures[m]
           /\ \/ failures' = failures
              \/ /\ SummaryFails(t) \/ RawArchiveFails(t)
                 /\ failures'[t.of] = failures[t.of] + 1
              \/ t.pc = "asking" /\ ToSet(t.chunk) \subseteq history'
<1>1. history \subseteq history'
  BY TurnKept, CoroutineKept DEF StepKept
<1>2. t.of \in Messages /\ DOMAIN failures = Messages
  BY CountTypes
<1>3. CASE NewSession(t) \/ Prepare(t) \/ Preflight(t) \/ TurnEnds(t) \/ Tidy(t)
           \/ ArchiveStarts(t)
  <2>1. failures' = failures
    BY <1>3 DEF NewSession, Prepare, Preflight, TurnEnds, Tidy, ArchiveStarts
  <2> QED
    BY <1>1, <2>1
<1>4. CASE Summarized(t) \/ RawArchived(t)
  <2>1. /\ t.pc = "asking" /\ history' = history \cup ToSet(t.chunk)
        /\ failures' = [failures EXCEPT ![t.of] = 0]
    BY <1>4 DEF Summarized, RawArchived
  <2> QED
    BY <1>1, <1>2, <2>1
<1>5. CASE SummaryFails(t) \/ RawArchiveFails(t)
  <2>1. failures' = [failures EXCEPT ![t.of] = @ + 1]
    BY <1>5 DEF SummaryFails, RawArchiveFails
  <2> QED
    BY <1>1, <1>2, <1>5, <2>1
<1> QED
  BY <1>3, <1>4, <1>5 DEF Step

\* An archive that asks has just started, has failed once more, or stands by.
LEMMA StepArchives ==
    ASSUME MemoryInv, NEW t \in tasks, Step(t), NEW u \in tasks',
           u.kind = "archive", u.pc = "asking", ~(u \in tasks /\ u # t)
    PROVE  /\ t.kind = "archive" /\ u.of = t.of
           /\ \/ ArchiveStarts(t) /\ u.round = 1
              \/ SummaryFails(t) /\ u.round = t.round + 1
<1>1. CASE Archiving(t)
  BY <1>1, ArchiveGoesOn
<1>2. CASE Consolidating(t)
  BY <1>2, ConsolidationGoesOn
<1>3. ASSUME NewSession(t) \/ Preflight(t) PROVE FALSE
  <2>1. t.kind # "archive" /\ t \in Task
    BY <1>3, PreflightKept, CountTypes DEF NewSession
  <2>2. u \notin Archive(t)
    BY <2>1, ArchiveIs
  <2>3. \E s : u = [t EXCEPT !.pc = "running", !.session = s]
    BY <1>3, <2>2 DEF NewSession, Preflight, Becomes
  <2> QED
    BY <2>1, <2>3 DEF Task
<1>4. ASSUME TurnEnds(t) PROVE FALSE
  <2>1. \E m, s : u = NewTask("tidy", m, "loaded", s)
    BY <1>4 DEF TurnEnds, Becomes
  <2> QED
    BY <2>1 DEF NewTask
<1> QED
  BY <1>1, <1>2, <1>3, <1>4 DEF Step, Consolidating, Archiving

\* Only what has archived the turn itself takes back the count of an archive.
LEMMA StepCounts ==
    ASSUME MemoryInv, KnownInv, SharingInv, FailuresInv, NEW t \in tasks, Step(t),
           NEW u \in tasks', u.kind = "archive", u.pc = "asking"
    PROVE  u.round <= failures'[u.of] + 1 \/ Own(u.of) \in history'
<1>1. /\ history \subseteq history'
      /\ \A m \in Messages : m # t.of => failures'[m] = failures[m]
      /\ \/ failures' = failures
         \/ /\ SummaryFails(t) \/ RawArchiveFails(t)
            /\ failures'[t.of] = failures[t.of] + 1
         \/ t.pc = "asking" /\ ToSet(t.chunk) \subseteq history'
  BY CountsAre
<1>2. CASE u \in tasks /\ u # t
  <2>1. u.round <= failures[u.of] + 1 \/ Own(u.of) \in history
    BY <1>2 DEF FailuresInv
  <2>2. u.of \in Messages /\ u.round \in Nat /\ failures[u.of] \in Nat
    BY <1>2, CountTypes
  <2>3. CASE u.of # t.of \/ failures' = failures
    <3>1. failures'[u.of] = failures[u.of]
      BY <1>1, <2>2, <2>3
    <3> QED
      BY <1>1, <2>1, <3>1
  <2>4. CASE u.of = t.of /\ failures'[t.of] = failures[t.of] + 1
    BY <1>1, <2>1, <2>2, <2>4
  <2>5. CASE u.of = t.of /\ t.pc = "asking" /\ ToSet(t.chunk) \subseteq history'
    <3>1. OwnOnly(t)
      BY <1>2, <2>5 DEF SharingInv
    <3> QED
      BY <1>1, <2>5, <3>1, ArchivesOwn
  <2> QED
    BY <1>1, <2>3, <2>4, <2>5
<1>3. CASE ~(u \in tasks /\ u # t)
  <2>1. /\ t.kind = "archive" /\ u.of = t.of
        /\ \/ ArchiveStarts(t) /\ u.round = 1
           \/ SummaryFails(t) /\ u.round = t.round + 1
    BY <1>3, StepArchives
  <2>2. t.of \in Messages /\ t.round \in Nat /\ failures[t.of] \in Nat
        /\ DOMAIN failures = Messages
    BY CountTypes
  <2>3. CASE ArchiveStarts(t) /\ u.round = 1
    <3>1. failures' = failures
      BY <2>3 DEF ArchiveStarts
    <3> QED
      BY <2>1, <2>2, <2>3, <3>1
  <2>4. CASE SummaryFails(t) /\ u.round = t.round + 1
    <3>1. t.pc = "asking" /\ failures' = [failures EXCEPT ![t.of] = @ + 1]
      BY <2>4 DEF SummaryFails
    <3>2. t.round <= failures[t.of] + 1 \/ Own(t.of) \in history
      BY <2>1, <3>1 DEF FailuresInv
    <3>3. failures'[t.of] = failures[t.of] + 1
      BY <2>2, <3>1
    <3> QED
      BY <1>1, <2>1, <2>2, <2>4, <3>2, <3>3
  <2> QED
    BY <2>1, <2>3, <2>4
<1> QED
  BY <1>2, <1>3

LEMMA CountStep ==
    MemoryInv /\ KnownInv /\ SharingInv /\ FailuresInv /\ [Next]_vars => FailuresInv'
<1> SUFFICES ASSUME MemoryInv, KnownInv, SharingInv, FailuresInv, [Next]_vars
             PROVE  FailuresInv'
  OBVIOUS
<1>1. ASSUME NEW c \in Chats, Load(c) PROVE FailuresInv'
  <2>1. PICK t : tasks' = tasks \cup {t} /\ t.kind = "turn"
    BY <1>1, LoadKept
  <2>2. UNCHANGED <<history, failures>>
    BY <1>1 DEF Load
  <2> QED
    BY <2>1, <2>2 DEF FailuresInv
<1>2. ASSUME NEW t \in tasks, Step(t) PROVE FailuresInv'
  BY <1>2, StepCounts DEF FailuresInv
<1>3. CASE (\E t \in tasks : Stop(t)) \/ Crash \/ UNCHANGED vars
  <2>1. tasks' \subseteq tasks
    BY <1>3, EndKept DEF vars
  <2>2. UNCHANGED <<history, failures>>
    BY <1>3 DEF Stop, Crash, vars
  <2> QED
    BY <2>1, <2>2 DEF FailuresInv
<1> QED
  BY <1>1, <1>2, <1>3 DEF Next

\* An archive that is gone from one state to the next, with no crash and no error of the
\* memory store, is summarized or dumped, or has used up the attempts of its count.
LEMMA ArchiveEnds ==
    ASSUME MemoryInv, KnownInv, FailuresInv, [Next]_vars, NEW t \in tasks,
           t.kind = "archive", upsets' = upsets,
           ~(\E u \in tasks' : u.kind = "archive" /\ u.of = t.of)
    PROVE  ToSet(t.session.turns) \subseteq history' \/ Own(t.of) \in history'
<1>1. t \notin tasks' /\ upsets \in Nat /\ TaskKept(t) /\ ~Upset
  <2>1. upsets \in Nat /\ TaskKept(t)
    BY Reads
  <2> QED
    BY <2>1 DEF Upset
<1>2. PICK u \in tasks : Step(u)
  <2>1. ASSUME NEW c \in Chats, Load(c) PROVE t \in tasks'
    BY <2>1 DEF Load
  <2> QED
    BY <1>1, <2>1 DEF Next, Crash, Stop, vars
<1>3. u = t
  <2>1. \E next : tasks' = (tasks \ {u}) \cup next
    BY <1>2, CoroutineKept DEF StepKept, Becoming, TurnEnds, Becomes
  <2> QED
    BY <1>1, <2>1
<1>4. CASE Summarized(t) \/ RawArchived(t)
  <2>1. t.pc = "asking" /\ ToSet(t.chunk) \subseteq history'
    BY <1>4 DEF Summarized, RawArchived
  <2>2. t.chunk = t.session.turns
    BY <1>1, <2>1 DEF TaskKept, ArchiveKept
  <2> QED
    BY <2>1, <2>2
<1>5. CASE SummaryFails(t)
  <2>1. t.pc = "asking" /\ ~(failures[t.of] + 1 >= MaxFailures)
    BY <1>5 DEF SummaryFails, ThirdInRow
  <2>2. failures[t.of] \in Nat /\ t.round \in Nat
    BY CountTypes
  <2>3. ~(t.round < MaxFailures)
    BY <1>5, ArchiveGoesOn DEF Archiving
  <2>4. ~(t.round <= failures[t.of] + 1)
    BY <2>1, <2>2, <2>3 DEF MaxFailures
  <2>5. Own(t.of) \in history
    BY <2>1, <2>4 DEF FailuresInv
  <2>6. history \subseteq history'
    BY <1>2, <1>3, CountsAre
  <2> QED
    BY <2>5, <2>6
<1>6. ~ArchiveStarts(t)
  BY ArchiveGoesOn DEF Archiving
<1>7. ~RawArchiveFails(t)
  BY <1>1 DEF RawArchiveFails
<1>8. ~(NewSession(t) \/ Prepare(t) \/ Preflight(t) \/ TurnEnds(t) \/ Tidy(t))
  BY PreflightKept, TurnKept DEF NewSession, Prepare, Tidy
<1> QED
  BY <1>2, <1>3, <1>4, <1>5, <1>6, <1>7, <1>8 DEF Step

\* archive_messages gives an archive up without its messages in the history only for a
\* crash, a store that raises, or the consolidation of the same turn, which counts the
\* same failures: and this has then archived the turn.
THEOREM ArchivesAreKept == Spec => ArchiveGuaranteed
<1>1. Init => SharingInv /\ FailuresInv
  BY DEF Init, SharingInv, FailuresInv
<1>2. MemoryInv /\ KnownInv /\ FailuresInv /\ [Next]_vars =>
        [\A t \in tasks :
            t.kind = "archive" /\ upsets' = upsets
            /\ ~(\E u \in tasks' : u.kind = "archive" /\ u.of = t.of)
                => \/ ToSet(t.session.turns) \subseteq history'
                   \/ Own(t.of) \in history']_vars
  BY ArchiveEnds
<1> QED
  BY <1>1, <1>2, MemoryInit, MemoryStep, KnownStep, SharingStep, CountStep, PTL
     DEF Spec, ArchiveGuaranteed
=============================================================================
