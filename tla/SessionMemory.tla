---------------------------- MODULE SessionMemory ----------------------------
(***************************************************************************)
(* What the agent keeps of a conversation: the session with its turns      *)
(* (session/manager.py, session/redis_store.py) and the account's memory   *)
(* (agent/memory.py), as AgentLoop._process_message uses them.             *)
(*                                                                         *)
(* Each message of a gateway chat loads its own copy of the session and    *)
(* gets its own SessionManager and MemoryConsolidator (workspace_override),*)
(* so the consolidation that a turn leaves behind in the background works  *)
(* on a copy, and under a lock, that the next turn does not share.  The    *)
(* chats of an account share its memory.                                   *)
(*                                                                         *)
(* A user message with what follows it up to the next one is a unit here   *)
(* and costs one unit of the prompt: boundaries are always at user         *)
(* messages.  A turn leaves one unit, two if the loop itself put a message *)
(* for the model into it, none if its transcript was cut.                  *)
(* The turns of a chat run one at a time (module SessionDispatch).         *)
(***************************************************************************)
EXTENDS Naturals, Sequences, FiniteSets, SequencesExt

CONSTANTS
    Chats,         \* the chats of one account
    Scripts,       \* what users may send: sequences of Kinds
    Overhead,      \* what the prompt costs without any history
    Window,        \* context_window_tokens
    MaxMessages,   \* bound: the messages of a chat
    MaxUpsets      \* bound: errors of the stores, turns of no unit or of two, /stops, crashes

Kinds == {"plain", "fact", "new", "big"}   \* "big": exceeds the prompt budget with any history

MaxRounds == 5     \* _MAX_CONSOLIDATION_ROUNDS
MaxFailures == 3   \* _MAX_FAILURES_BEFORE_RAW_ARCHIVE

ASSUME MemoryAssumption ==
    /\ IsFiniteSet(Chats)
    /\ Scripts \subseteq Seq(Kinds) /\ \A s \in Scripts : Len(s) <= MaxMessages
    /\ Overhead \in Nat /\ Window \in Nat \ {0} /\ {MaxMessages, MaxUpsets} \subseteq Nat

VARIABLES
    script,    \* per chat: what its user sends
    arrived,   \* per chat: how many of them have been taken
    store,     \* per chat: the stored session
    memory,    \* the facts in MEMORY.md
    history,   \* what HISTORY.md has an entry for
    tasks,     \* the coroutines under way
    failures,  \* per message: _consecutive_failures of its memory store, which all
               \* coroutines of the message share
    upsets

vars == <<script, arrived, store, memory, history, tasks, failures, upsets>>

Messages == Chats \X (1 .. MaxMessages)
Units == Chats \X (1 .. MaxMessages) \X (1 .. 2)

\* Of the units of a turn the first has what the user said.
IsFact(u) == u[3] = 1 /\ script[u[1]][u[2]] = "fact"
Facts(turns) == {u \in ToSet(turns) : IsFact(u)}
UnitsOf(m, k) == [i \in 1 .. k |-> <<m[1], m[2], i>>]

EmptySession == [turns |-> <<>>, consolidated |-> 0, scanned |-> 0]
Sessions == [turns : Seq(Units), consolidated : Nat, scanned : Nat]

\* A coroutine: "turn" is _process_message, "tidy" the consolidation it leaves
\* behind, "archive" the archiving of a session that was cleared.  chunk and seen
\* belong to consolidate(): what it archives and the memory it has read.
Task == [kind : {"turn", "tidy", "archive"}, of : Messages,
         pc : {"loaded", "asking", "ready", "running"}, session : Sessions,
         chunk : Seq(Units), seen : SUBSET Units, round : 0 .. MaxRounds]

NewTask(kind, m, pc, session) ==
    [kind |-> kind, of |-> m, pc |-> pc, session |-> session, chunk |-> <<>>,
     seen |-> {}, round |-> 0]

Busy(c) == \E t \in tasks : t.kind = "turn" /\ t.of[1] = c

Init ==
    /\ script \in [Chats -> Scripts]
    /\ arrived = [c \in Chats |-> 0]
    /\ store = [c \in Chats |-> EmptySession]
    /\ memory = {} /\ history = {} /\ tasks = {}
    /\ failures = [m \in Messages |-> 0]
    /\ upsets = 0

(***************************************************************************)
(* Helpers: the session, its store and the memory store.  At most one call *)
(* of a store fails in a step: "save" that of a session, which is logged   *)
(* and nothing else; "read" those of the memory, which read as empty;      *)
(* "write", "append", "acked" and "trim" that of the memory or the         *)
(* history, see the actions.                                               *)
(***************************************************************************)
Upset == upsets < MaxUpsets /\ upsets' = upsets + 1
Error(e) == IF e = "none" THEN UNCHANGED upsets ELSE Upset

\* session[last_consolidated:]
Unconsolidated(s) == SubSeq(s.turns, s.consolidated + 1, Len(s.turns))

\* clear() leaves the metadata, and with it the count of scanned messages.
Cleared(s) == [s EXCEPT !.turns = <<>>, !.consolidated = 0]

Save(c, s, e) == store' = IF e = "save" THEN store ELSE [store EXCEPT ![c] = s]

\* read_long_term
Read(known, e) == IF e = "read" THEN {} ELSE known

\* estimate_session_prompt_tokens
Estimate(s) == Overhead + Len(Unconsolidated(s))
Target == Window \div 2

\* pick_consolidation_boundary: how many turns to archive, never the last one.
Boundary(s) ==
    LET removable == Len(Unconsolidated(s)) - 1
        toRemove  == IF Estimate(s) - Target > 1 THEN Estimate(s) - Target ELSE 1
    IN  IF removable < toRemove THEN removable ELSE toRemove

\* _persist_explicit_memory_from_session: the facts among the turns not scanned
\* yet that the memory does not have go to the memory and to the history.
ToScan(s) == SubSeq(s.turns, s.scanned + 1, Len(s.turns))
Scanned(s) == [s EXCEPT !.scanned = Len(s.turns)]
NewFacts(s, e) == Facts(ToScan(s)) \ Read(memory, e)

\* The memory is written first.  Either call may raise: "write" before anything is
\* written, "append" when the memory is, "trim" when both are.
Raises(s, e) == NewFacts(s, e) # {} /\ e \in {"write", "append", "trim"}

PersistFacts(s, e) ==
    LET new == NewFacts(s, e)
    IN  /\ memory' = IF new = {} \/ e = "write" THEN memory ELSE Read(memory, e) \cup new
        /\ history' = IF e \in {"write", "append"} THEN history ELSE history \cup new

Becomes(t, next) == tasks' = (tasks \ {t}) \cup next

(***************************************************************************)
(* maybe_consolidate_by_tokens and archive_messages, one step from each    *)
(* await of the model's answer to the next.                                *)
(***************************************************************************)

\* What the coroutine does when the consolidation is over.
Over(t) == IF t.kind = "turn" THEN {[t EXCEPT !.pc = "ready", !.chunk = <<>>,
                                              !.seen = {}, !.round = 0]}
           ELSE {}

\* Mutant: the chunk is not checked to be there.
NextRound_AnyChunk(t, known) ==
    IF t.round < MaxRounds /\ Estimate(t.session) > Target
    THEN {[t EXCEPT !.pc = "asking", !.round = t.round + 1, !.seen = known,
                    !.chunk = SubSeq(Unconsolidated(t.session), 1, Boundary(t.session))]}
    ELSE Over(t)

\* The next round, if the prompt is too long, rounds are left, and there is a
\* turn that may go; known is the memory that consolidate() reads.
NextRound(t, known) ==
    LET size == Boundary(t.session)
        more == t.round < MaxRounds /\ Estimate(t.session) > Target /\ size > 0
    IN  IF ~more THEN Over(t)
        ELSE {[t EXCEPT !.pc = "asking", !.round = t.round + 1, !.seen = known,
                        !.chunk = SubSeq(Unconsolidated(t.session), 1, size)]}

\* An empty session is not even scanned; an idle one is.  An error of the memory
\* ends the coroutine.
StartConsolidation(t, e) ==
    LET s == t.session
        scanned == [t EXCEPT !.session = Scanned(s)]
    IN  IF s.turns = <<>>
        THEN Becomes(t, Over(t)) /\ UNCHANGED <<store, memory, history>>
        ELSE /\ PersistFacts(s, e)
             /\ IF ToScan(s) # <<>> /\ ~Raises(s, e)
                THEN Save(t.of[1], Scanned(s), e)
                ELSE UNCHANGED store
             /\ Becomes(t, CASE Raises(s, e) -> {}
                             [] ~Raises(s, e) /\ Estimate(s) < Window -> Over(scanned)
                             [] OTHER -> NextRound(scanned, Read(memory', e)))

StartErrors == {"none", "read", "write", "append", "trim", "save"}

\* A background consolidation starts when the event loop comes to it.
Tidy(t) ==
    /\ t.kind = "tidy" /\ t.pc = "loaded"
    /\ \E e \in StartErrors : StartConsolidation(t, e) /\ Error(e)
    /\ UNCHANGED <<script, arrived, failures>>

ArchiveStarts(t) ==
    /\ t.kind = "archive" /\ t.pc = "loaded"
    /\ \E e \in {"none", "read"} :
        /\ Error(e)
        /\ Becomes(t, {[t EXCEPT !.pc = "asking", !.round = 1, !.seen = Read(memory, e),
                                 !.chunk = t.session.turns]})
    /\ UNCHANGED <<script, arrived, store, memory, history, failures>>

\* After the chunk is archived: last_consolidated moves and the session is saved.
ChunkDone(t, e) ==
    IF t.kind = "archive"
    THEN Becomes(t, {}) /\ UNCHANGED store
    ELSE LET moved == [t.session EXCEPT !.consolidated = @ + Len(t.chunk)]
         IN  /\ Save(t.of[1], moved, e)
             /\ Becomes(t, NextRound([t EXCEPT !.session = moved], Read(memory', e)))

\* The memory after save_memory: as it was read, with what the chunk adds; it is
\* written if that differs from what was read.
Updated(t) ==
    LET update == t.seen \cup Facts(t.chunk) IN IF update # t.seen THEN update ELSE memory

\* The model calls save_memory: one entry of history, and the memory.
Summarized(t) ==
    /\ t.pc = "asking"
    /\ history' = history \cup ToSet(t.chunk)
    /\ memory' = Updated(t)
    /\ failures' = [failures EXCEPT ![t.of] = 0]
    /\ \E e \in {"none", "read", "save"} : ChunkDone(t, e) /\ Error(e)
    /\ UNCHANGED <<script, arrived>>

\* The model does not call it, or calls it wrongly, or append_history raises: nothing
\* is written.  With an error of the store more may be: after "trim" the entry of the
\* history, after "acked" the memory as well.
HalfWritten(t, e) ==
    /\ history' = IF e \in {"trim", "acked"} THEN history \cup ToSet(t.chunk) ELSE history
    /\ memory' = IF e = "acked" THEN Updated(t) ELSE memory

\* Mutant: the count is compared before it is raised.
ThirdInRow_Before(t) == failures[t.of] >= MaxFailures

\* Either counts as a failure.  The third in a row dumps the messages themselves.
ThirdInRow(t) == failures[t.of] + 1 >= MaxFailures

RawArchived(t) ==
    /\ t.pc = "asking" /\ ThirdInRow(t)
    /\ history' = history \cup ToSet(t.chunk)
    /\ failures' = [failures EXCEPT ![t.of] = 0]
    /\ \E e \in {"none", "read", "save", "acked"} :
        /\ memory' = IF e = "acked" THEN Updated(t) ELSE memory
        /\ ChunkDone(t, e) /\ Error(e)
    /\ UNCHANGED <<script, arrived>>

\* _raw_archive raises, and nobody catches that: the coroutine ends, with the dump
\* written ("trim") or not, and the count stays where it is.
RawArchiveFails(t) ==
    /\ t.pc = "asking" /\ ThirdInRow(t) /\ Upset
    /\ \E e \in {"append", "trim"} : HalfWritten(t, e)
    /\ failures' = [failures EXCEPT ![t.of] = @ + 1]
    /\ Becomes(t, {})
    /\ UNCHANGED <<script, arrived, store>>

\* Mutant: the result of consolidate() is ignored: the chunk counts as consolidated.
SummaryFails_Ignored(t) ==
    /\ t.pc = "asking" /\ ~ThirdInRow(t)
    /\ failures' = [failures EXCEPT ![t.of] = @ + 1]
    /\ UNCHANGED <<memory, history, upsets>>
    /\ ChunkDone(t, "none")
    /\ UNCHANGED <<script, arrived>>

\* Any other failure ends a consolidation by tokens; archive_messages asks again.
SummaryFails(t) ==
    /\ t.pc = "asking" /\ ~ThirdInRow(t)
    /\ failures' = [failures EXCEPT ![t.of] = @ + 1]
    /\ \E e \in {"none", "read", "trim", "acked"} :
        /\ HalfWritten(t, e) /\ Error(e)
        /\ Becomes(t, IF t.kind = "archive" /\ t.round < MaxFailures
                      THEN {[t EXCEPT !.round = @ + 1, !.seen = Read(memory', e)]}
                      ELSE Over(t))
    /\ UNCHANGED <<script, arrived, store>>

(***************************************************************************)
(* _process_message                                                        *)
(***************************************************************************)

\* A failed load gives an empty session, as for a chat that is new.
Load(c) ==
    LET m == <<c, arrived[c] + 1>>
    IN  /\ arrived[c] < Len(script[c]) /\ ~Busy(c)
        /\ arrived' = [arrived EXCEPT ![c] = @ + 1]
        /\ \/ tasks' = tasks \cup {NewTask("turn", m, "loaded", store[c])}
              /\ UNCHANGED upsets
           \/ /\ store[c].turns # <<>> /\ Upset
              /\ tasks' = tasks \cup {NewTask("turn", m, "loaded", EmptySession)}
        /\ UNCHANGED <<script, store, memory, history, failures>>

IsNew(t) == script[t.of[1]][t.of[2]] = "new"

\* Mutant: the snapshot is taken from the session after it was cleared.
Archive_AfterClear(t) ==
    LET snapshot == [EmptySession EXCEPT !.turns = Unconsolidated(Cleared(t.session))]
    IN  IF snapshot.turns = <<>> THEN {} ELSE {NewTask("archive", t.of, "loaded", snapshot)}

\* The session is emptied; what was not consolidated is archived in the background.
Archive(t) ==
    LET snapshot == [EmptySession EXCEPT !.turns = Unconsolidated(t.session)]
    IN  IF snapshot.turns = <<>> THEN {} ELSE {NewTask("archive", t.of, "loaded", snapshot)}

NewSession(t) ==
    /\ t.kind = "turn" /\ t.pc = "loaded" /\ IsNew(t)
    /\ \E e \in {"none", "save"} : Save(t.of[1], Cleared(t.session), e) /\ Error(e)
    /\ Becomes(t, Archive(t))
    /\ UNCHANGED <<script, arrived, memory, history, failures>>

Prepare(t) ==
    /\ t.kind = "turn" /\ t.pc = "loaded" /\ ~IsNew(t)
    /\ \E e \in StartErrors : StartConsolidation(t, e) /\ Error(e)
    /\ UNCHANGED <<script, arrived, failures>>

\* The preflight check of the prompt: one that is still too long resets the session.
Preflight(t) ==
    LET run(s) == [t EXCEPT !.pc = "running", !.session = s]
    IN  /\ t.pc = "ready"
        /\ IF script[t.of[1]][t.of[2]] = "big" /\ Unconsolidated(t.session) # <<>>
           THEN /\ \E e \in {"none", "save"} :
                    Save(t.of[1], Cleared(t.session), e) /\ Error(e)
                /\ Becomes(t, {run(Cleared(t.session))} \cup Archive(t))
           ELSE Becomes(t, {run(t.session)}) /\ UNCHANGED <<store, upsets>>
        /\ UNCHANGED <<script, arrived, memory, history, failures>>

\* The session with what _save_turn adds to it.
WithTurn(t, k) == [t.session EXCEPT !.turns = @ \o UnitsOf(t.of, k)]

\* Mutant: the turn counts as scanned although it is added after the scan.
TurnEnds_ScansFirst(t) ==
    LET s == WithTurn(t, 1)
    IN  /\ t.pc = "running"
        /\ PersistFacts(t.session, "none")
        /\ Save(t.of[1], Scanned(s), "none") /\ UNCHANGED upsets
        /\ Becomes(t, {NewTask("tidy", t.of, "loaded", Scanned(s))})
        /\ UNCHANGED <<script, arrived, failures>>

\* _save_turn, _persist_session_state, and the consolidation left behind.  An error
\* of the memory ends the turn with its session not saved.
TurnEnds(t) ==
    /\ t.pc = "running"
    /\ \E e \in StartErrors, k \in 0 .. 2 :
        LET s == WithTurn(t, k)
        IN  /\ PersistFacts(s, e)
            /\ IF Raises(s, e)
               THEN Becomes(t, {}) /\ UNCHANGED store
               ELSE /\ Save(t.of[1], Scanned(s), e)
                    /\ Becomes(t, {NewTask("tidy", t.of, "loaded", Scanned(s))})
            /\ IF e = "none" /\ k = 1 THEN UNCHANGED upsets ELSE Upset
    /\ UNCHANGED <<script, arrived, failures>>

(***************************************************************************)
(* /stop cancels the turn, and not what runs in the background; a process  *)
(* that dies takes both with it.                                           *)
(***************************************************************************)
Stop(t) ==
    /\ t.kind = "turn" /\ Upset
    /\ Becomes(t, {})
    /\ UNCHANGED <<script, arrived, store, memory, history, failures>>

Crash ==
    /\ tasks # {} /\ Upset
    /\ tasks' = {}
    /\ UNCHANGED <<script, arrived, store, memory, history, failures>>

Step(t) ==
    \/ NewSession(t) \/ Prepare(t) \/ Preflight(t) \/ TurnEnds(t)
    \/ Tidy(t) \/ ArchiveStarts(t)
    \/ Summarized(t) \/ RawArchived(t) \/ RawArchiveFails(t) \/ SummaryFails(t)

Next ==
    \/ \E c \in Chats : Load(c)
    \/ \E t \in tasks : Step(t) \/ Stop(t)
    \/ Crash

Spec == Init /\ [][Next]_vars

(***************************************************************************)
(* Properties                                                              *)
(***************************************************************************)

\* The types of the variables; a coroutine that asks the model has something to
\* archive, and a message has no more failures behind it than the raw dump and its own
\* errors allow.
TypeOK ==
    /\ script \in [Chats -> Scripts]
    /\ arrived \in [Chats -> Nat] /\ \A c \in Chats : arrived[c] <= Len(script[c])
    /\ store \in [Chats -> Sessions]
    /\ memory \subseteq Units /\ history \subseteq Units
    /\ tasks \subseteq Task
    /\ \A t \in tasks : t.pc = "asking" => t.chunk # <<>>
    /\ upsets \in 0 .. MaxUpsets
    /\ failures \in [Messages -> 0 .. MaxFailures - 1 + upsets]

\* last_consolidated is the "number of messages already consolidated to files": a
\* turn that the model is no longer shown is in the history, whichever copy of the
\* session was saved last and however its consolidation ended.
ConsolidatedIsArchived ==
    \A c \in Chats : \A i \in 1 .. store[c].consolidated :
        i \in DOMAIN store[c].turns /\ store[c].turns[i] \in history

\* A fact told by the user is on record once its turn is in the session.  The code
\* misses one only after the session was cleared (the count of scanned messages
\* is not): never because of a failure, a /stop or the order of the saves.
FactsMissedOnlyAfterClear ==
    \A c \in Chats : \A m \in Facts(store[c].turns) \ (memory \cup history) :
        \E i \in 1 .. m[2] - 1 : \/ script[c][i] = "new"
                                 \/ script[c][i] = "big"

\* A turn leaves the session only when it is archived or about to be.  What the code
\* excepts is a lost update: a coroutine saves a copy that it loaded before the turn was
\* there.  (A consolidation left behind by an earlier turn does; so does, after it or
\* after a failed load or save, a turn.)  A copy that has the turn never loses it.
TurnsLeaveArchived ==
    [][\A c \in Chats :
          \A m \in ToSet(store[c].turns) \ ToSet(store'[c].turns) :
              \/ m \in history'
              \/ \E t \in tasks' : t.kind = "archive" /\ m \in ToSet(t.session.turns)
              \/ \E t \in tasks \ tasks' :
                    t.of[1] = c /\ m \notin ToSet(t.session.turns)]_vars

\* What the user said in a message, with the answer.
Own(m) == <<m[1], m[2], 1>>

\* archive_messages, "Archive messages with guaranteed persistence (retries until
\* raw-dump fallback)": an archiving that ends, other than by a crash or an error of the
\* memory store, has put all its messages in the history.  The code keeps this unless
\* the consolidation that the same turn left behind, which shares its count of failures,
\* was at work meanwhile: then the turn itself is in the history.
ArchiveGuaranteed ==
    [][\A t \in tasks :
          t.kind = "archive" /\ upsets' = upsets
          /\ ~(\E u \in tasks' : u.kind = "archive" /\ u.of = t.of)
              => \/ ToSet(t.session.turns) \subseteq history'
                 \/ Own(t.of) \in history']_vars

(***************************************************************************)
(* The inductive invariant.  A copy of a session is as good as the store's *)
(* whoever has it: what it counts as consolidated is in the history, and   *)
(* it has been scanned to its end, or beyond it after it was cleared.      *)
(***************************************************************************)
Clears(c, k) == \E i \in 1 .. k : script[c][i] = "new" \/ script[c][i] = "big"

\* A session of chat c, cleared by one of its first k messages if at all.
SessionKept(c, s, k) ==
    /\ s \in Sessions
    /\ Len(s.turns) <= s.scanned /\ (Len(s.turns) < s.scanned => Clears(c, k))
    /\ \A i \in 1 .. s.consolidated : i \in DOMAIN s.turns /\ s.turns[i] \in history
    /\ \A i \in DOMAIN s.turns :
        LET m == s.turns[i]
        IN  m[1] = c /\ (IsFact(m) => m \in history \/ Clears(c, m[2] - 1))

\* The last message that can have cleared the copy of a coroutine.
LastClear(t) ==
    IF t.kind = "turn" /\ ~(t.pc = "running" /\ script[t.of[1]][t.of[2]] = "big")
    THEN t.of[2] - 1 ELSE t.of[2]

ArchiveKept(t) ==
    /\ t.session.turns # <<>> /\ t.pc \in {"loaded", "asking"}
    /\ t.pc = "asking" => t.chunk = t.session.turns /\ t.round \in 1 .. MaxFailures

\* What is being archived are the turns that follow the consolidated ones.
CopyKept(t) ==
    /\ t.kind = "tidy" => t.pc \in {"loaded", "asking"}
    /\ SessionKept(t.of[1], t.session, LastClear(t))
    /\ t.pc = "asking" =>
        /\ t.chunk # <<>>
        /\ \A i \in DOMAIN t.chunk :
            /\ t.session.consolidated + i \in DOMAIN t.session.turns
            /\ t.chunk[i] = t.session.turns[t.session.consolidated + i]

TaskKept(t) ==
    /\ t \in Task /\ t.of[2] <= arrived[t.of[1]]
    /\ IF t.kind = "archive" THEN ArchiveKept(t) ELSE CopyKept(t)

MemoryInv ==
    /\ TypeOK
    /\ \A c \in Chats : SessionKept(c, store[c], arrived[c])
    /\ \A t \in tasks : TaskKept(t)

\* After an error between the two writes the memory knows a fact that the history does
\* not have; but the turn that told it has ended with the error, and no session gets it.
Known(u) ==
    \/ u \in history
    \/ /\ u[2] <= arrived[u[1]]
       /\ \A t \in tasks : t.kind = "turn" => ~(t.of[1] = u[1] /\ t.of[2] = u[2])

TurnsApart ==
    \A t, u \in tasks : t.kind = "turn" /\ u.kind = "turn" /\ t.of[1] = u.of[1] => t = u

KnownInv ==
    /\ TurnsApart
    /\ \A u \in memory : Known(u)
    /\ \A t \in tasks : \A u \in t.seen : Known(u)

\* A turn shares its message, and the count of failures, with nobody until it runs.  What
\* shares it with an archive is a coroutine whose session was cleared: it has the units of
\* the turn itself, and the first thing it archives is the first of them.
Unfinished(t) == t.kind = "turn" /\ t.pc # "running"

OwnOnly(t) ==
    /\ t.kind # "archive"
    /\ t.session.turns # <<>> => t.session.turns[1] = Own(t.of)
    /\ t.session.consolidated = 0 \/ Own(t.of) \in history

SharingInv ==
    \A t, u \in tasks : t.of = u.of /\ t # u =>
        ~Unfinished(t) /\ (t.kind = "archive" => OwnOnly(u))

\* The attempts of an archive are counted, unless the turn itself is archived meanwhile.
FailuresInv ==
    \A t \in tasks : t.kind = "archive" /\ t.pc = "asking" =>
        t.round <= failures[t.of] + 1 \/ Own(t.of) \in history
=============================================================================
