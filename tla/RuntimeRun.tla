----------------------------- MODULE RuntimeRun -----------------------------
(***************************************************************************)
(* The runtime of one session (agent/loop.py, _process_message and         *)
(* _run_agent_loop, with agent/runtime/): a turn plans tool calls, runs    *)
(* them in batches and keeps a checkpoint of the session, so that a tool   *)
(* may ask the user, end the turn, and have the answer resume it.          *)
(*                                                                         *)
(* The checkpoint is stored in Redis under optimistic locking.  A save     *)
(* that fails or conflicts is logged and the turn goes on.  Turns exclude  *)
(* each other by the lock of the session, until its lease runs out; turns  *)
(* of two replicas then overlap.  What the messages say is data: a         *)
(* transcript is the set of the calls whose results it has; a question has *)
(* an id.  Retries of a failed call and its timeout stay within a call.    *)
(***************************************************************************)
EXTENDS Integers, FiniteSets

CONSTANTS
    Concurrency,      \* config.max_concurrency
    MaxCalls,         \* bound: the calls of one turn
    MaxTurns,         \* bound: the messages of the session
    MaxFaults,        \* bound: the saves that fail
    MaxLapses         \* bound: turns that begin while another one works

ASSUME RuntimeAssumption ==
    /\ Concurrency \in Nat \ {0} /\ MaxCalls \in Nat \ {0}
    /\ MaxTurns \in Nat /\ MaxFaults \in Nat /\ MaxLapses \in Nat

VARIABLES
    stored,    \* the session's checkpoint in Redis
    current,   \* the turns whose checkpoint has the version of the stored one
    turn,      \* the turns, in the order in which they begin
    owner,     \* the turn that last began or resumed a run in the checkpoint
    faults,    \* the saves that failed: <<turn, where it was>>
    lapses

vars == <<stored, current, turn, owner, faults, lapses>>

Turns == 1..MaxTurns
Nobody == 0

\* A result is named by its turn and its number in the turn, in the order in which
\* results join a transcript.
Calls == Turns \X Nat
Older(r, q) == r[1] < q[1] \/ (r[1] = q[1] /\ r[2] < q[2])

\* What is left of a transcript from some message on.
Newest(some, all) == some \subseteq all /\ \A q \in some, r \in all \ some : Older(r, q)

\* The transcript is read in WAITING_HUMAN only, and kept here for that status.
Checkpoint(status, question, snapshot) ==
    [status |-> status, question |-> question, snapshot |-> snapshot]
NoCheckpoint == Checkpoint("none", Nobody, {})

Statuses == {"RUNNING", "WAITING_HUMAN", "COMPLETED", "FAILED"}

\* resumes: the turn whose question this one answers; plan, done: the calls of
\* the plan, and how many are over; calls: all calls the turn has made; asker:
\* the call that asked the user; then: where the turn goes on after its save;
\* since: the calls made when the transcript was last cut; trimmed: what it resumed
\* with was cut.
NoTurn == [pc |-> "none", resumes |-> Nobody, trimmed |-> FALSE, messages |-> {},
           planned |-> FALSE, plan |-> 0, done |-> 0, calls |-> 0, since |-> 0,
           asker |-> 0, then |-> "none"]

Ended == {"answered", "asked", "gone"}
Live(t) == turn[t].pc \notin Ended \cup {"none"}

Init ==
    /\ stored = NoCheckpoint
    /\ current = {}
    /\ turn = [t \in Turns |-> NoTurn]
    /\ owner = Nobody
    /\ faults = {}
    /\ lapses = 0

\* Of a turn that is over only what its question needs is left.
Left(next) ==
    IF next.pc \notin Ended THEN next
    ELSE [NoTurn EXCEPT !.pc = next.pc, !.resumes = next.resumes, !.asker = next.asker,
              !.planned = next.planned,
              !.messages = IF next.pc = "asked" THEN next.messages ELSE {}]

-----------------------------------------------------------------------------
(* The checkpoint store.                                                   *)

Fault(t) ==
    /\ Cardinality(faults) < MaxFaults
    /\ faults' = faults \cup {<<t, turn[t].pc>>}

\* Every save counts the version up, so that all others lose touch with it.
Write(t, checkpoint, knows) ==
    /\ stored' = checkpoint /\ current' = knows
    /\ owner' = IF turn[t].pc \in {"resuming", "starting"} \/ stored = NoCheckpoint
                THEN t ELSE owner

\* Mutant: the expected version is not looked at.
Save_Unchecked(t, checkpoint, expected, next) ==
    /\ turn' = [turn EXCEPT ![t] = Left(next)]
    /\ Write(t, checkpoint, {t})
    /\ UNCHANGED faults

\* _save_runtime_checkpoint, which may expect the version it knows, and needs none
\* where nothing is stored.  A conflict or an error is logged, and the turn goes on
\* with the version it has.  An error may come after Redis has written.
Save(t, checkpoint, expected, next) ==
    /\ turn' = [turn EXCEPT ![t] = Left(next)]
    /\ LET clashes == expected /\ stored # NoCheckpoint /\ t \notin current
       IN  \/ ~clashes /\ Write(t, checkpoint, {t}) /\ UNCHANGED faults
           \/ clashes /\ UNCHANGED <<stored, current, owner, faults>>
           \/ Fault(t) /\ ~clashes /\ Write(t, checkpoint, {})
           \/ /\ Fault(t) /\ UNCHANGED <<stored, owner>>
              /\ current' = IF expected THEN current ELSE current \ {t}

-----------------------------------------------------------------------------
(* _process_message: the message may answer a question, of which the user  *)
(* knows as soon as the tool has asked.                                    *)

Questions == {t \in Turns : turn[t].asker > 0}

\* Mutant: any answer resumes the session that waits.
Matches_Any(checkpoint, question) ==
    checkpoint.status = "WAITING_HUMAN" /\ question # Nobody

Matches(checkpoint, question) ==
    /\ checkpoint.status = "WAITING_HUMAN" /\ question # Nobody
    /\ checkpoint.question = question

\* The session's lock is taken, unless its lease ran out, and the checkpoint loaded;
\* if that fails, the message is as one that answers nothing.
Load(t) ==
    /\ turn[t].pc = "none" /\ \A u \in 1 .. t - 1 : turn[u].pc # "none"
    /\ \/ (\A u \in Turns : ~Live(u)) /\ UNCHANGED lapses
       \/ (\E u \in Turns : Live(u)) /\ lapses < MaxLapses /\ lapses' = lapses + 1
    /\ \E question \in Questions \cup {Nobody} :
        turn' = [turn EXCEPT ![t] =
            IF Matches(stored, question)
            THEN [NoTurn EXCEPT !.pc = "resuming", !.resumes = question,
                                !.messages = stored.snapshot]
            ELSE [NoTurn EXCEPT !.pc = "starting"]]
    /\ current' = IF turn'[t].pc = "resuming" THEN current \cup {t} ELSE current
    /\ UNCHANGED <<stored, owner, faults>>

Resume(t) ==
    /\ turn[t].pc = "resuming"
    /\ Save(t, Checkpoint("RUNNING", Nobody, {}), TRUE,
            [turn[t] EXCEPT !.pc = "starting"])
    /\ UNCHANGED lapses

\* Mutant: the run goes on with the checkpoint it saved, not with the one that
\* saving it returned.
Start_Stale(t) ==
    /\ turn[t].pc = "starting"
    /\ turn' = [turn EXCEPT ![t].pc = "planning"]
    /\ Write(t, Checkpoint("RUNNING", Nobody, {}), {})
    /\ UNCHANGED <<faults, lapses>>

\* A prompt that is too long is built anew, without the transcript of the
\* checkpoint.  The run begins with a checkpoint of its own; a turn that the
\* guardrails block ends at once.
Start(t) ==
    /\ turn[t].pc = "starting"
    /\ \E trimmed \in IF turn[t].resumes = Nobody THEN {FALSE} ELSE BOOLEAN,
          next \in {"planning", "COMPLETED"} :
        Save(t, Checkpoint("RUNNING", Nobody, {}), FALSE,
             [turn[t] EXCEPT !.pc = next, !.trimmed = trimmed,
                             !.messages = IF trimmed THEN {} ELSE @])
    /\ UNCHANGED lapses

-----------------------------------------------------------------------------
(* _run_agent_loop, ToolCallExecutor.execute_plan.                         *)

Becomes(t, next) ==
    /\ turn' = [turn EXCEPT ![t] = Left(next)]
    /\ UNCHANGED <<stored, current, owner, faults, lapses>>

\* A round begins with the transcript as it is, or without calls and results: that
\* is what is left of one that is over the budget, or that the provider refuses.
Cut(t) == [turn[t] EXCEPT !.messages = {}, !.since = turn[t].calls,
                          !.trimmed = turn[t].resumes # Nobody]
Rounds(t) == {turn[t], Cut(t)}

\* The planner goes round (another model, a repaired or a forced transcript),
\* gives up (the prompt is over budget), or the model fails or answers.  How many
\* rounds there are is left open: any may be the last, which fails the turn.
PlanWithoutCalls(t) ==
    /\ turn[t].pc = "planning"
    /\ \E round \in Rounds(t), next \in {"planning", "answered", "FAILED", "COMPLETED"} :
        Becomes(t, [round EXCEPT !.pc = next, !.planned = TRUE])

PlanCalls(t) ==
    /\ turn[t].pc = "planning"
    /\ \E round \in Rounds(t), n \in 1 .. MaxCalls - turn[t].calls :
        Becomes(t, [round EXCEPT
            !.pc = "calling", !.planned = TRUE, !.plan = n, !.done = 0])

\* The calls of the last plan once more: they are answered without being made.  A
\* plan of one call may repeat without end, a longer one ends the turn in time.
PlanRepeated(t) ==
    /\ turn[t].pc = "planning" /\ turn[t].plan > 0
    /\ \E round \in Rounds(t),
          then \in {"planning"} \cup (IF turn[t].plan > 1 THEN {"answered"} ELSE {}) :
        Becomes(t, [round EXCEPT !.pc = "saving", !.then = then])

BatchSize(t) ==
    LET left == turn[t].plan - turn[t].done
    IN  IF left < Concurrency THEN left ELSE Concurrency

\* Mutant: of a batch that asks, the result that asks alone is kept.
RunBatch_OnlyAsker(t) ==
    /\ turn[t].pc = "calling"
    /\ LET batch == turn[t].calls + 1 .. turn[t].calls + BatchSize(t)
       IN  \E asker \in batch :
            Becomes(t, [turn[t] EXCEPT
                !.pc = "saving", !.then = "asking", !.calls = @ + BatchSize(t),
                !.asker = asker, !.messages = @ \cup {<<t, asker>>}])

\* A batch runs side by side.  The results up to the first that asks the user go
\* into the transcript.
RunBatch(t) ==
    /\ turn[t].pc = "calling"
    /\ LET batch == turn[t].calls + 1 .. turn[t].calls + BatchSize(t)
           over  == turn[t].done + BatchSize(t)
       IN  \E asker \in batch \cup {0} :
            Becomes(t, [turn[t] EXCEPT
                !.pc = IF asker = 0 /\ over < turn[t].plan THEN "calling" ELSE "saving",
                !.then = IF asker > 0 THEN "asking" ELSE "planning",
                !.done = over, !.calls = @ + BatchSize(t), !.asker = asker,
                !.messages = @ \cup {<<t, c>> : c \in {d \in batch : asker = 0 \/ d <= asker}}])

SavePlan(t) ==
    /\ turn[t].pc = "saving"
    /\ Save(t, Checkpoint("RUNNING", Nobody, {}), TRUE,
            [turn[t] EXCEPT !.pc = turn[t].then, !.then = "none"])
    /\ UNCHANGED lapses

\* The checkpoint has the last 40 messages; the result that asks is the last of all.
\* How many results are among them is left open.
SaveQuestion(t) ==
    /\ turn[t].pc = "asking"
    /\ \E snapshot \in SUBSET turn[t].messages :
        /\ Newest(snapshot, turn[t].messages) /\ <<t, turn[t].asker>> \in snapshot
        /\ Save(t, Checkpoint("WAITING_HUMAN", t, snapshot), TRUE,
                [turn[t] EXCEPT !.pc = "asked"])
    /\ UNCHANGED lapses

Finish(t) ==
    /\ turn[t].pc \in {"COMPLETED", "FAILED"}
    /\ Save(t, Checkpoint(turn[t].pc, Nobody, {}), TRUE,
            [turn[t] EXCEPT !.pc = "answered"])
    /\ UNCHANGED lapses

\* /stop, an exception or the death of the process ends the turn where it is;
\* nothing is saved then.
Abandon(t) == Live(t) /\ Becomes(t, [turn[t] EXCEPT !.pc = "gone"])

Plan(t) == PlanWithoutCalls(t) \/ PlanCalls(t) \/ PlanRepeated(t)

Next ==
    \E t \in Turns :
        \/ Load(t) \/ Resume(t) \/ Start(t) \/ Plan(t)
        \/ RunBatch(t) \/ SavePlan(t) \/ SaveQuestion(t) \/ Finish(t)
        \/ Abandon(t)

Spec == Init /\ [][Next]_vars

-----------------------------------------------------------------------------
(* Properties.                                                             *)

Turn ==
    [pc : {"none", "resuming", "starting", "planning", "calling", "saving", "asking",
           "COMPLETED", "FAILED", "answered", "asked", "gone"},
     resumes : Turns \cup {Nobody}, trimmed : BOOLEAN, messages : SUBSET Calls,
     planned : BOOLEAN, plan : 0..MaxCalls, done : 0..MaxCalls, calls : 0..MaxCalls,
     since : 0..MaxCalls, asker : 0..MaxCalls, then : {"none", "planning", "asking", "answered"}]

TypeOK ==
    /\ stored \in [status : Statuses \cup {"none"},
                   question : Turns \cup {Nobody}, snapshot : SUBSET Calls]
    /\ current \subseteq Turns /\ owner \in Turns \cup {Nobody}
    /\ turn \in [Turns -> Turn]
    /\ faults \subseteq Turns \X {"resuming", "starting", "saving", "asking",
                                "COMPLETED", "FAILED"}
    /\ lapses \in 0..MaxLapses

\* A turn that another one has overtaken, because its lease ran out, leaves the
\* checkpoint of the later one alone, whatever it still saves.
OverlapHarmless ==
    [][\A t \in Turns :
         turn[t].pc \in {"saving", "asking", "COMPLETED", "FAILED"} /\ turn'[t] # turn[t]
             => UNCHANGED <<stored, current>> \/ stored = NoCheckpoint \/ owner = t]_vars

Faultless(t) == \A f \in faults : f[1] # t

\* A question that ended its turn waits in the checkpoint for its answer, until
\* another run begins or resumes, unless a save of its turn failed.
QuestionKept ==
    \A t \in Turns :
        turn[t].pc = "asked" /\ owner = t /\ Faultless(t) =>
            stored.status = "WAITING_HUMAN" /\ stored.question = t

\* Neither of the saves with which the turn takes up an answer was made.
Unsaved(t) == {<<t, "resuming">>, <<t, "starting">>} \subseteq faults

\* An answer that comes twice is worked on once: no turn takes up a question on
\* which another turn, one that could save its taking it up or its beginning, has
\* begun to plan.
ResumedOnce ==
    [][\A t, u \in Turns :
         /\ turn[t].pc = "none" /\ turn'[t].resumes # Nobody
         /\ turn[u].resumes = turn'[t].resumes
         => ~turn[u].planned \/ Unsaved(u)]_vars

\* What a tool did reaches the model, until the transcript is cut: of the calls that
\* a turn has made since, it lacks only those beside and after the one that asked; and
\* a turn that resumes has the result that asked, and of all that the turn that asked
\* had it lacks only what is older than what it has.
ResultsReachModel ==
    \A t \in Turns : Live(t) =>
        /\ \A c \in turn[t].since + 1 .. turn[t].calls :
             \/ <<t, c>> \in turn[t].messages
             \/ /\ turn[t].asker > 0
                /\ c \in turn[t].asker + 1 .. turn[t].asker + Concurrency - 1
        /\ LET asked == turn[t].resumes
               had == turn[asked].messages
           IN  asked # Nobody /\ ~turn[t].trimmed =>
                 /\ <<asked, turn[asked].asker>> \in turn[t].messages
                 /\ Newest(had \cap turn[t].messages, had)

-----------------------------------------------------------------------------
(* The inductive invariant.                                                *)

Begins == {"none", "resuming", "starting"}

\* What a turn knows fits where it is; the calls of a plan fit into the bound.
WellFormed ==
    \A t \in Turns :
        /\ turn[t].pc = "calling" =>
             /\ turn[t].done < turn[t].plan
             /\ turn[t].calls + turn[t].plan - turn[t].done <= MaxCalls
        /\ turn[t].pc = "saving" => turn[t].then # "none"
        /\ turn[t].pc = "none" => turn[t].resumes = Nobody
        /\ turn[t].pc \in Begins => ~turn[t].planned

\* Only the owner, and who is about to own it, knows the checkpoint's version.
CurrentOwns ==
    \A t \in current : turn[t].pc \notin Begins \cup Ended => owner = t

\* The owner knows it, as long as its saves succeed.
OwnerCurrent ==
    \A t \in Turns :
        turn[t].pc \notin Begins \cup Ended /\ owner = t /\ Faultless(t)
            => t \in current /\ stored # NoCheckpoint

\* A question is in the checkpoint, or taken up, only when its turn is over.
AskedFirst ==
    /\ stored.question # Nobody => turn[stored.question].pc = "asked"
    /\ \A t \in Turns : turn[t].resumes # Nobody => turn[turn[t].resumes].pc = "asked"

\* A question that is taken up leaves the checkpoint, at the latest when its turn
\* begins to plan.
TakenUp ==
    \A t \in Turns :
        turn[t].resumes # Nobody /\ turn[t].resumes = stored.question =>
            \/ turn[t].pc = "resuming" /\ t \in current
            \/ turn[t].pc = "starting" /\ <<t, "resuming">> \in faults
            \/ Unsaved(t)
            \/ turn[t].pc = "gone" /\ ~turn[t].planned

IInv ==
    /\ TypeOK /\ WellFormed /\ CurrentOwns /\ OwnerCurrent /\ QuestionKept
    /\ AskedFirst /\ TakenUp

\* A turn whose call has asked goes straight to its question, with the result.
Asks(t) == turn[t].pc = "asking" \/ (turn[t].pc = "saving" /\ turn[t].then = "asking")
AskerAsks ==
    \A t \in Turns : Live(t) =>
        /\ turn[t].asker > 0 => Asks(t)
        /\ Asks(t) => <<t, turn[t].asker>> \in turn[t].messages

\* A turn calls, and has a prompt to trim, only when it has begun.
BeginsFresh ==
    \A t \in Turns : turn[t].pc \in Begins => turn[t].calls = 0 /\ ~turn[t].trimmed

\* The results of a turn are in no transcript before it begins, and never in that of a
\* turn whose question it answers.
OwnResults ==
    \A t, u \in Turns : turn[t].pc = "none" \/ turn[t].resumes = u =>
        \A r \in turn[u].messages : r[1] # t

\* The checkpoint keeps for a question the last of what its turn had when it ended.
SnapshotIsNewest ==
    stored.question # Nobody =>
        /\ Newest(stored.snapshot, turn[stored.question].messages)
        /\ <<stored.question, turn[stored.question].asker>> \in stored.snapshot

TranscriptInv ==
    /\ AskerAsks /\ BeginsFresh /\ OwnResults /\ SnapshotIsNewest /\ ResultsReachModel
=============================================================================
