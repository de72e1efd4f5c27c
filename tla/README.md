# thqbot: TLA+ models, checks and proofs

thqbot is an agent platform: a browser workbench, a gateway (FastAPI) that owns
the conversations, two Kafka topics, and an agent runtime (`ithqbot`) that takes
a request, runs tools, skills and graphs of skills, and sends progress events
and a reply back. This directory holds TLA+ models of the parts of it whose
correctness depends on the order in which things happen: interleaved
coroutines and threads, crashes between two writes, messages delivered twice or
never.

Paths below are relative to the repository: `graph/executor.py` is
`src/services/ithqbot/ithqbot/graph/executor.py`, `orchestrator.py` and its
neighbours are in `src/services/gateway/app/`, `App.tsx` is in `src/web/src/`.
`PROJECT.json` maps every definition to the lines it stands for.

## Running it

    tlc -workers 2 -config GraphDiamond.cfg MCGraphExecutor
    tlapm GraphProofs.tla

The module of each `.cfg` is in the table of runs.

# 1. The system

| component | state it keeps | operations | hard behaviour | modelled in |
|---|---|---|---|---|
| graph execution (`graph/executor.py`, `scheduler.py`, `state_manager.py`) | nodes and state of a `GraphRun` in memory; rows `graph_runs`, `graph_nodes` | `run`, `resume`, `execute_node`, skip pass, cancellation of siblings | parallel node tasks that merge into one state; rows written one by one; cancellation at any await; crash and resume | `GraphExecutor`, `GraphSchedule`, `TaskGraph` |
| graph validation (`scheduler.py` `validate_graph`) | indegrees, queue | one call | repeated edges, self-loops | `ValidateGraph` |
| outbound delivery (`source_adapter.py`, `main.py`, `orchestrator.py`, `realtime.py`, `repository.py`) | topic and committed offset, claims in Redis, rows of `messages` | fetch, claim, insert, push, commit | redelivery, rebalance, restart, Redis and database errors | `OutboundDelivery`, `ReplyDelivery`, partly |
| gateway conversation (`orchestrator.py`, `repository.py`, `routes/chat.py`) | rows, `unread_count`, status cached in Redis | send a message, handle progress and replies, mark read | awaits between read and write; retried requests; lost acknowledgements | `GatewayConversation`, partly |
| event stream and page (`routes/stream.py`, `realtime.py`, `App.tsx`) | bounded queue, subscription; list shown by the page | publish, receive, history request, optimistic send | Pub/Sub without memory, reconnects, late answers | `LiveView`, partly |
| icatmsg channel (`channels/icatmsg.py`, `channels/manager.py`) | the consumer and the producer of Kafka | poll, receipt, put on the bus; send; connect, close, reconnect | two coroutines replace the clients that both use | `KafkaChannel`, partly |
| bus (`bus/queue.py`) | inbound and outbound queue | put, get | messages of a partition that has moved | `SessionDispatch`, `KafkaChannel` |
| agent loop (`agent/loop.py`) | queue, worker, task and token of each session | dispatch, `/stop`, `/new`, a turn, the end of a turn | cancellation at any await and new messages of the session meanwhile | `SessionDispatch`, `SessionMemory`, `RuntimeRun`, partly |
| sessions (`session/manager.py`, `redis_store.py`) | sessions and locks in Redis | load, save, clear, lock with a lease | lease that ends before its holder does; copies that overwrite each other | `SessionDispatch`, `SessionMemory`, partly |
| agent runtime (`agent/runtime/*`, its use in `agent/loop.py`) | plan and budget of a turn, checkpoint with its version | plan, run a batch, save, ask, resume | saves that fail and are only logged; two turns after a lease ran out; a batch that asks the user | `RuntimeRun`, partly |
| memory (`agent/memory.py`) | MEMORY.md, HISTORY.md, boundaries in the session | explicit facts, consolidation, archive with retries, raw archive | the background works on its own copy; summaries that fail | `SessionMemory`, partly |
| cron (`cron/service.py`) | tables of jobs, events and leases | timer, claim, run, complete, reconcile, add, list, remove | several replicas on one database, crash between two transactions | `CronCluster`, partly |
| planner and loader, heartbeat, tools, MCP, skills, providers, files, authentication, configuration, observability, CLI, page rendering | none that outlives a call, or set-up | | sequential I/O | not modelled, see 6 |

How they interact: the page posts a message; the gateway commits its row,
clears the cached status and produces to `icatmsg_inbound`; the replica of the
agent that owns the partition takes it from its channel, sends a receipt and
puts it on its bus; the agent loop hands it to the worker of its session, which
takes the session's lock in Redis and runs a turn: the turn loads the session
and the checkpoint, plans and runs tool calls (perhaps a graph of skills), may
end with a question that the next message answers, saves the session and
leaves a consolidation behind in the background. The reply goes over the bus to
the dispatcher of the channel, which shares its Kafka clients with the
receiver, and into `icatmsg_outbound`; one process of the gateway's consumer
group claims each event in Redis, stores the reply and publishes it to the
user's Pub/Sub channel; the stream of each browser has a queue between that
channel and the connection; the page merges events, history and its own message
into one list. Beside this, the cron service of each replica turns due jobs into
events in the database and runs them.

What makes them correct: a node runs after its parents and its result is merged
once; a graph run ends; a reply is stored once and not lost; a request is
answered, after its own row; the count of unread messages and the progress shown
with a reply are right; the page shows each message once and misses none; turns
of a session do not overlap, and `/stop` stops what came before it; a question
waits for its answer and is resumed once; what the model is no longer shown is
archived; a due job is run by one replica. The places where this could break are
listed, by line, as `hazards` in `PROJECT.json`.

# 2. The modules

| module | models | kind |
|---|---|---|
| `GraphSchedule` | `get_ready_nodes`, `get_skippable_nodes`, conditions | operators on a constant graph |
| `GraphExecutor` | the driver `run`/`resume`, one task per node, the database, crashes | state machine |
| `TaskGraph` | what a caller relies on: tasks start after their parents and end once | abstract specification |
| `ValidateGraph` | `validate_graph`, one step per popped node, against acyclicity | algorithm and reference |
| `OutboundDelivery` | consumers of one partition, the handler, Redis, the table | state machine |
| `ReplyDelivery` | what the gateway promises of a reply: taken in hand, stored, told, passed over | abstract specification |
| `GatewayConversation` | one conversation: sends, the outbound handler, mark_read | state machine |
| `LiveView` | publication, stream, queue, page | state machine |
| `CronCluster` | timer and worker of each replica, the three tables | state machine |
| `SessionDispatch` | partition, bus, queue, worker, `/stop` and lock of one session | state machine |
| `KafkaChannel` | receiver and dispatcher of one replica and their clients | state machine |
| `SessionMemory` | the copies of a session and the account's memory | state machine |
| `RuntimeRun` | the turns of a session and its checkpoint | state machine |
| `MC...` | the instances TLC checks | |
| `...Proofs` | theorems and proofs | |

The modules of the agent each take one view of a turn. `SessionDispatch` decides
when turns begin and what ends them, and shows that they overlap only when a
lease ran out; `SessionMemory` has that as a rule (one turn of a chat at a
time) and looks at what is saved; `RuntimeRun` has it as a rule with the
exception (`lapses`) and looks at the checkpoint. `KafkaChannel` stands between
`SessionDispatch` and `OutboundDelivery`: what it may leave in the topic (a
reply twice in succession, never out of order) is what `OutboundDelivery`
starts from.

Definitions commented "planted error" or "Mutant" are not part of the models:
each is a wrong form of another definition, kept to show that the properties
notice it (`mutants` in `PROJECT.json`).

## GraphSchedule, GraphExecutor, TaskGraph

State: `nstat`, `runStatus`, `state` are `graph.nodes[n].status`, `run.status`,
`run.state`; `dbNode`, `dbStatus`, `dbState` the rows, which alone survive
`Crash`. `pc` is where the coroutine of `run()` stands, `task[n]` where the task
of node `n` does, `cancelReq` which tasks have had `cancel()` called.

Granularity: coroutines interleave at awaits only. A section without an await
that writes two rows is split between the writes, because the process may die
there; `turn` keeps the other coroutines out meanwhile. Each statement of the
state manager is autocommitted. `EmitYields` says whether awaiting the progress
callback suspends, `EmitMayFail` whether it may raise: the callback is passed in
by the caller, and the executor must be right for either.

Data: a result of node `n` stores the keys `Writes[n]` with any of the values; a
condition compares one key with one value, as `eval_condition` does for the
comparison forms.

`/stop` cancels the task that awaits `run()`: `asyncio.wait` does not cancel what
it waits for, so the node tasks live on without a driver. `resume` of a run whose
tasks still live in the process is excluded (guard of `ResumeLoad`); what happens
otherwise is not modelled.

`ImplementsTaskGraph` is the refinement: rows read as todo, active, done, skipped
or failed change only as `TaskGraph` allows (`retract`, done to failed, is allowed
only where a completion message may raise).

## ValidateGraph

`copies[f][t]` is how often the edge list has the edge, self-loops included;
`unknown` says that it also names a node the graph does not have. The counters,
the deque and the popped nodes are those of the code; the order in which nodes
are popped is left open, which covers the deque. `AcceptsExactlyDags` compares
the verdict with acyclicity stated by rings of nodes.

## OutboundDelivery

State: `log` and `committed` are the partition and the group's offset; `phase[w]`
is the next await of process `w`; `claims` the keys `thqbot:dedupe:*`; `rows[m]`
how many rows have the external id; `pushes[m]` how often its event was
published. `Start` and `Die` move the assignment of the partition; a process may
go on with a record it no longer owns, and its commit then has no effect.

Outcomes of a Redis call: it works; it raises; it raises although the key was
set. `_outbound_handler` logs the exception of a failed insert, and the loop
commits past it, which is `Store`'s third disjunct. A malformed record is passed
without a commit of its own. The kinds `status` and `malformed` do nothing but
commit here; progress is the subject of `GatewayConversation`.

`ImplementsReplyDelivery` is the refinement. `ReplyDelivery` has neither
processes nor offsets nor Redis: a reply is taken in hand, then stored at most
once, then told to the browser at most once, and the group's offset passes only
replies that somebody has taken in hand. The claims, the unique constraint and
the commits are what the code does to keep to that.

## GatewayConversation

Everything between two awaits of `send_user_message` and
`handle_outbound_event` is one action; `mark_read` runs in a thread, so its load
and its commit are two. A progress event is `<<request, number>>`; the cached
status is the set of the events merged into it. The agent's side is external: it
takes the requests of the topic one by one, does not know again one that comes
twice, sends at most `MaxProgress` events and a reply for each. Events arrive once
and in order here, which is what `OutboundDelivery` establishes for stored replies.
That a request has one row is not a property: the insert is one guarded statement
under a unique constraint, and nothing can come between.

`Patient` restricts the user to one round at a time, which is what the code
assumes where it clears the status at the start of a round; `Faults` chooses among
failing Redis, expiry of the status, a failing producer, a lost acknowledgement.

## LiveView

A message is its place in `db`; `unsent` are rows whose event is not yet
published (the code publishes an await after the commit); `queue` is the stream's
`asyncio.Queue`; `view` says of each message how often the list in the page shows
it, with `Local` for the optimistic message (the page finds, replaces and filters
by the id of a message, so the order of its list decides nothing that is stated
here); `gets` are history requests, which are served and answered in any
order; `lost` is a history variable, see the properties. `stream = "deaf"` is a
connection whose pump has ended with an error: it has heartbeats only.

Left out: rows of failed deliveries, the trajectory panel, older pages, the
waiting indicator, conversations created or deleted while the page is open, a
history request that fails. The
task that reads the subscription is taken to be faster than everything else, so
the buffer of the subscription is part of `queue`. A call that fails before its
row is stored does not store it later. `activeIdRef` changes together with
`setActiveId`.

## CronCluster

State: `jobs`, `events`, `leases` are the tables `ithqbot_cron_*`; an event is
named by its dedupe key, job and due time. A handler of the service loads the
whole store, changes it in memory and saves it, without an await: `section[r]`
is the one a replica has under way, with the store it loaded. Sections of
different replicas interleave between their transactions, and that is where one
puts back what another has moved on. `worker[r]` is the worker loop with the
event it runs, `timer[r]` what `_arm_timer` armed. `Crash` is a process that
dies; it comes back (`Start`) as another instance and reconciles.

Time: the clock goes on (`Tick`) at any moment, inside a section as well: each
database call of the code has up to three attempts with sleeps between them
(`service.py:193-213`). `section[r].at` is the time a section has read, which may
be old when it writes what it computed from it; so is the time with which it takes
a lease. A job may take any time too, and a lease may run out while its holder
works. `Fails` is a database call that raises, at every call of a section: where
the code catches it and goes on (`TickFails`, `RecordFails`, `SaveRunFails`: the
event is completed all the same) and where it does not (`LockFails`,
`CompleteFails`, which end the worker loop). A store is written row by row in one
transaction; a save that raises may have written some rows (`SaveFails`).

Two history variables say which copies are stale. `valid[r][j]` is the last time at
which the copy of job `j` in the section of `r` is not overtaken: another replica
wrote or enqueued the job after that. `lost` are the interval jobs that some
section has saved or enqueued from an overtaken copy. `IntervalKept` exempts them,
and without the exemption it is violated: see 5.

## SessionDispatch

State: `partition` holds the session's messages in order; `position` and
`committed` are what the owner has taken and committed; `bus`, `queue`,
`worker`, `token` and `stopping` are per replica `runtime_ingress`,
`_session_queues`, the worker coroutine, `_runtime_controls` and the `/stop` that
`_handle_stop` is busy with; `lock` is the lease in Redis. The lock is taken in a
thread: a worker cancelled meanwhile leaves the thread behind, which may get the
lock for nobody (`strays`). A turn may end with a reply or as cancelled; what it
does is in the other modules. `Move` is a rebalance: messages that the old owner
has already on its bus stay there.

## KafkaChannel

`consumer` and `producer` are `self.consumer`, `self.producer`; `state` says of
each producer object whether it is started or stopped. `co` has for the receiver
and the dispatcher where each stands and which call it returns to. A coroutine
goes on at its own places (`Running`) only while the other one is at an await
(`Awaits`), so that code without an await is atomic although it spans several
actions. A send over a producer that the other coroutine stopped fails without a
fault of the broker. The agent is the action `Answer`. The fault bound counts
what the broker does (a failed start, poll, send).

## SessionMemory

`store[c]` is the stored session; every coroutine in `tasks` holds a copy of its
own, because each message of a gateway chat gets its own SessionManager and
MemoryConsolidator. `consolidated` and `scanned` are `last_consolidated` and the
metadata count of scanned messages; `memory` and `history` the two files. A unit is
a user message with what follows it, up to the next, and costs one unit of the
prompt; `Window` units fit. A turn leaves one unit; two when the loop itself puts a
message with the role of the user into the transcript (`loop.py:2706`), none when its
transcript was cut. A message of the user is `plain`, tells a `fact`, is `/new`, or
is `big`, a prompt that preflight has to cut.

A consolidation awaits the model between reading the memory and writing it. A
failed summary is counted (`failures`, one count for all coroutines of a message,
which share its MemoryStore); at the third in a row the messages are archived raw.
Every call of the stores may fail: the session's save and load, which are logged;
reads of the memory, which give an empty one; `write_long_term` and
`append_history`, which raise after their attempts, before or after they have
written. What raises ends the coroutine where nothing catches it: in the scan for
facts, in the raw dump (`RawArchiveFails`, `memory.py:265`). Inside `consolidate`
it counts as a failure. One call fails per step at most. Each fact is told once:
what `memory` and `history` compare is the unit. Not modelled: a turn that resumes a
question starts from the transcript in the checkpoint, and what it saves may bring
messages of the asking turn into the session a second time.

## RuntimeRun

`stored` is the session's checkpoint; the version numbers are abstracted to
`current`, the turns whose own checkpoint has the version of the stored one,
which is all that the comparison in `save` tells apart. `turn[t]` is what the
turn has in memory. `Save` is what the code does at every place: it succeeds and
makes all other turns stale, it conflicts and is logged, or (`faults`) it fails
before or after Redis has written and is logged. `Load` begins a turn, or a
second one beside it when a lease ran out (`lapses`). Any round may be the last:
the limits of rounds and repeated batches are left open, which allows more than
the code does.

A transcript is a set of results, each named by its turn and its number, so that
`Newest` says what is left of it from some message on. `Cut` is the round in which
the planner goes on without calls and results: it trims a transcript over the budget
(`planner.py:86-170`) or repairs one the provider refuses (`planner.py:260-288` with
`loop.py:2054-2091`); every round may begin so. The snapshot in the checkpoint
(`messages[-40:]`, `loop.py:2793`) has some of the newest results, the one that asked
among them; how many is left open. Both cuts leave no call and no result, which is
why the model's leaves none; `since` and `trimmed` say from where on results are
claimed to be there. Not modelled: the shortening of a single long result, and what
the messages say.

# 3. The runs

| run | cfg / module | distinct states |
|---|---|---|
| `graph_diamond` | `GraphDiamond.cfg` / `MCGraphExecutor` | 11 819 |
| `validate_graph` | `ValidateGraph.cfg` / `ValidateGraph` | 61 750 |
| `outbound_delivery` | `OutboundDelivery.cfg` / `MCOutboundDelivery` | 682 146 |
| `conversation_races` | `ConversationRaces.cfg` / `MCGatewayConversation` | 649 197 |
| `conversation_turns` | `ConversationTurns.cfg` / `MCGatewayConversation` | 67 093 |
| `live_view_races` | `LiveViewRaces.cfg` / `MCLiveView` | 6 088 264 |
| `cron_cluster` | `CronCluster.cfg` / `MCCronCluster` | 1 516 112 |
| `cron_one_shot` | `CronOneShot.cfg` / `MCCronCluster` | violated: see 5 |
| `session_dispatch` | `SessionDispatch.cfg` / `MCSessionDispatch` | 483 192 |
| `kafka_channel` | `KafkaChannel.cfg` / `MCKafkaChannel` | 277 970 |
| `session_memory` | `SessionMemory.cfg` / `MCSessionMemory` | 706 798 |
| `runtime_run` | `RuntimeRun.cfg` / `MCRuntimeRun` | 5 584 172 |

**graph_diamond.** s, then a (conditional) beside b, then d with a condition on
each of its two edges; s and b write one key, a another, with two values. That is
the smallest graph with parallel tasks, a join, skipping and two writers of one
key; d can be reached through either, both or none of its parents. Nothing is
bounded: crashes, resumes and cancellations may repeat for ever. It shows the
order of nodes (`ScheduleSound`, `ImplementsTaskGraph`), that rows and memory agree whenever the
event loop is free (`RowsCurrent`), that a merged result is never computed again
and never lost (`ResultsSafe`), that failure, cancellation and questions leave
rows from which `resume` goes on (`TaskEndsSettled`, `QuestionsHandled`), and
that every call ends (`RunEnds`). `TaskEndsSettled` exempts a task that is
cancelled, or whose callback raises, in the start message, outside of the try
(`executor.py:187-196`): see 5.

**validate_graph.** `AcceptsExactlyDags` on every list of edges on three nodes
with up to two copies of each, self-loops included; for larger graphs it is
proved.

**outbound_delivery.** Two processes are enough for a rebalance in the middle of
a handler, three records for a duplicate with another record between or after,
one death for every place a process can stop at. `StoredAndPushedOnce`,
`LostOnlyIfAbandoned`, the refinement `ImplementsReplyDelivery`, and with
fairness `RepliesSettle`.

**conversation_races.** Two sends, of one request or of two, two calls of
mark_read, one progress event per round, all faults.
`AnswersFollowRequest`, `NoReplyUncounted`, and with fairness
`EveryRequestAnswered`. `NoReplyUncounted` is the lower bound of the count; that a
reply may undo a mark_read is in 5.

**conversation_turns.** Three rounds of up to two progress events, one after the
other, with a producer that fails or loses acknowledgements: `ProgressExact`, a
reply is stored with all of the progress of its round and no other, for a user
who waits. A third
round shows that nothing is left over from two before; two events per round,
that a later event does not replace an earlier one.

**live_view_races.** Two conversations, three messages, a queue of two, two
history requests, every fault. `ShownOnce`, also of the optimistic copy;
`OnlyLostIsMissing`: when nothing is under way, the page misses only messages
whose event was lost (full queue, no subscription, Redis) or which a late answer
of a history request took away. Rows that it shows of another conversation are
not its subject. `LVTypeOK` also bounds the queue. Three messages overflow the queue of two; two
requests can be answered in the wrong order.

**cron_cluster.** Two replicas, a one-time job and an interval job of two units, six
units of time that pass at any moment, calls of the tool on one of the replicas
between any two transactions, one upset (a crash, a failing statement or the removal
of a job). The constraint `LongForOneJob` bounds the run: where both jobs were added
it ends with the third unit, where one was, with the sixth. So three occurrences of
the interval job fit, of which two exist and are compared, and the sections of one
replica are old when those of the other have passed. Leases of one and two units run
out within that time; an event can be retried and given up (two attempts).
`OneExecutor`, `EventsTellTruth`, `IntervalKept`. One upset can stand at every place;
the theorems have no bound.

**session_dispatch.** Two replicas; three messages, `/stop` in the middle, at the
end or nowhere; two of: a rebalance, a lease that runs out during a turn, a
crash. Three messages are needed for one in a turn, one queued, and one that
comes after the `/stop`. `OneTurn`, `AnswersInOrder`, `CancelledByLaterStop`, and
with fairness `MessagesSettle`. Answers are the final ones, which a turn, a `/stop`
or the worker publishes at its end; progress messages are not modelled.

**kafka_channel.** Two records, replies that are tried twice, three producers (a
third object is needed when both coroutines replace one), one failure of the
broker. `TopicInOrder`, `LostOnlyAfterFault`, and with fairness `RepliesSettle`.
`LostOnlyAfterFault` says that nobody closes a client before the first failure; what
becomes of a client that one coroutine closes under the other is the subject of
`TopicInOrder` and `RepliesSettle`.

**session_memory.** Four messages of a chat in a window of three with an
overhead of one, so that the prompt outgrows it while an earlier consolidation
is under way; scripts with facts, `/new` and a prompt that is too big; two of: a
call of a store that fails, a turn that leaves no unit or two, `/stop`, a crash.
`ConsolidatedIsArchived`, `FactsMissedOnlyAfterClear`, `TurnsLeaveArchived`,
`ArchiveGuaranteed`. The last three have exemptions, which are in 5: the facts after a
session was cleared, what the save of a copy that never had the turn takes away, and
an archive beside the consolidation of its own turn, or whose last call met an error
of the store.

**runtime_run.** Three turns of one session, plans of up to three calls in batches of
two, two saves that fail and one lease that runs out: enough for a question, its
answer, the answer again, and a turn that works beside another. The constraint
`ShortWhereSavesFail` bounds the run: once a save has failed, no turn goes beyond its
first call, which is enough for the properties that speak of saves, because they see
only whether a turn asks. With two failed saves an answer can be taken up twice, so
that the exemption of `ResumedOnce` arises. `QuestionKept`, `ResumedOnce`,
`OverlapHarmless`; the first two except a turn whose saves failed: the code logs such
a failure and goes on, and what then happens is described in 5. `ResultsReachModel`:
a batch of two has a result before or beside the one that asks, three calls a batch
before it; of two turns the second resumes, and the third resumes the question of
that one.

`CHECK_DEADLOCK FALSE` stands in the runs of `ValidateGraph` (an algorithm that
ends) and of the models whose number of calls, records, messages, turns or time
is bounded: they stop when the bound is used up. `GraphExecutor` is checked for
deadlock. Types are checked where they say more than the others imply; that the
types of the other modules hold is proved.

## Fairness

- `GraphExecutor`: weak fairness of the driver and of each node task. The event
  loop steps every runnable coroutine, and a skill ends because the executor of
  tools gives each call a time limit. Nothing is assumed of crashes, resumes or
  the user.
- `OutboundDelivery`: weak fairness of each process: it is restarted (compose
  policy) and its loop goes on. Nothing is assumed of the producer, Redis or the
  database; deaths are bounded.
- `GatewayConversation`: weak fairness of the coroutines, of the consumer, and of
  the agent taking a request and replying. Progress events need not be sent.
- `SessionDispatch`: weak fairness of the receiver, the loop and the worker of
  each replica: they are coroutines of one event loop, and a turn ends. Nothing
  is assumed of rebalances, leases, crashes or the threads left behind.
- `KafkaChannel`: strong fairness of the receiver and of the dispatcher. Each is
  disabled again and again while the other one runs, and asyncio runs every
  coroutine that is ready, in order; an await of the broker comes back, with a
  result or an error. Nothing is assumed of the agent; faults are bounded.

# 4. The theorems

All are for every value of the constants: any graph, any number of processes,
replicas, jobs, messages, requests, reads, turns, deaths and failures.

**GraphProofs.** `IInv` of `GraphExecutor` is inductive. The safety properties are not by
themselves: that a result is merged once needs to know where its task stands and
what its row says while the two writes are under way (`RowsFollow`,
`AppliedNodes`), and that a child's row does not get ahead of its parents' needs
that its parents' tasks are over when it starts and that nothing puts them back
(`TasksAreIndependent`, `TaskStatusMatch`, `DriverAndTasks`). From it:
`ScheduleIsSound`, `ResultsAreSafe`, `TasksEndSettled`, `RowsAreCurrent`, the
action properties `SettledRowsAreFinal` and `WaitingRowsAreKept`, and
`Refinement`: `Spec => ImplementsTaskGraph`. `QuestionsAreHandled` needs, with
`IInv`, that a pass begins without tasks of an earlier one (`PassesAreApart`),
that a task that ended in an error left its node failed (`ErrorsShow`), and that a
run with a node that waits is not marked running again before the question is put
back (`QuestionMarksRun`).

`GraphsAreValidated` says that `validate_graph` accepts exactly the graphs
without a cycle, for any number of nodes, edges and copies of an edge. `VGInv`
keeps that the counters are those of the edges out of nodes that are left
(`CountsAreCurrent`) and that the popped nodes can be put in an order
(`PoppedAreSorted`: every set of them has a node that no other leads to). If the
deque is empty and nodes are left, each of them has a predecessor among them,
and a longest walk backwards through them runs into itself: that is a ring
(`RingWithin`). If all were popped, a ring would be a set without such a node. The
longest walk comes from the library's theorem that a set of numbers has a least
one (`LeastNumber`), not from an induction.

**DeliveryProofs.** `IInv` of `OutboundDelivery` says that a claimed reply is settled (stored,
abandoned, or about to be stored), so a duplicate may be dropped
(`ClaimsAreSettled`); that what the owner of the partition consumed is settled
except the record it has not claimed (`ConsumedIsSettled`); so what it commits is
(`CommittedIsSettled`). From it `StoredOnce`, `NothingElseIsLost`,
`OffsetGrows`. `NothingLostWithoutRedis` has an invariant of its own
(`StoredWhenConsumed`): without claims nothing is taken for a duplicate before it
is stored, so with a database that answers no reply is lost at all.
`DeliveryRefinement`: `Spec => ImplementsReplyDelivery`, one case per action. Most
steps leave the abstract state alone; a claim (or a handler that goes on without
Redis) settles its reply, the insert stores it, the publication tells of it, and
a commit passes what `CommittedIsSettled` says is settled. The lemmas
`WhatSettles` and `WhatIsPassed` say which steps change the two sets.

`LVInv` of `LiveView` says where a message of the open conversation is that the
page does not show: not published yet, in the queue, lost, or in what an
unanswered history request will bring (`MissingIsExpected`); and that the
optimistic message is not shown beside the row that was stored for it
(`LocalIsPosting`), without which the answer of the call would show it twice. From
it `LVTypeCorrect`, `MessagesShownOnce`, `OnlyLostMissing`, for any number of
conversations, messages and requests and any queue.

**GatewayConversationProofs.** `IInv` adds to the properties that what is on its
way has its row (`EventsAreStored`) and that the count the handler has loaded is
still good when it is written (`LoadedIsCurrent`): one handler counts, and
`mark_read` only writes zero. From it `TypeCorrect`,
`RequestsComeFirst`, `NewRepliesCount`, `OnlyRepliesCount`. `StatusIsExact` has
as hypotheses the constants of `conversation_turns`: `Patient`, and neither
`redis` nor `expiry` among the faults. It follows from `RoundInv`: one call, one
request in the topic or one round at a time, a cache that is empty when the round
begins, and of a round with `n` progress events, of which the handler has taken
`k`, the others in the topic in order, those `k` in the cache (`RoundAt`). Without
the hypotheses it is false, as section 5 says.

**CronClusterProofs.** `IInv` adds to `OneExecutor` that a replica which takes the
execution lock, or writes what a run has left, has the run's event
(`SectionHasEvent`), and as
much of the types as the steps need (`Shapes`). The argument: a claim takes a
pending event and makes it processing in one statement, only the replica that
has the event completes it, and the removal of its job deletes done events only;
no lease is needed, which is why `OneExecutorHolds` also when the execution lock
runs out. `TypeCorrect` counts attempts (`AttemptsCounted`); the delay before a
retry doubles, and because the provers know nothing of `^` that powers of two are
numbers is an assumption (`PowersAreNumbers`), evaluated by TLC. `EventsAreTrue`
rests on `TruthInv`: a run that succeeded is counted and no other
(`RunsTellTruth`), and what is no event has not succeeded (`NothingForgotten`).
Trying to prove the property in its first form showed it false beyond the bounds
of the run: a replica that still has the row of a deleted job in memory makes the
same event a second time. The property is now stated for the events whose job
was not deleted, by a user or because another occurrence of a one-time job
succeeded (`Remembered`). `IntervalsAreKept` says `IntervalKept` with its exemption. It rests on
`SpacingInv`, which speaks of the row in the table and of the copies that are not
overtaken: an event and a plan of the same job (a time for which it is scheduled) are
the same or an interval apart, and two plans that differ were computed at this
very instant (`SpacedOf`). A copy that a section had at the moment of another one's
write counts as current until the clock moves on, because until then both move the
job on to the same time; after that it is overtaken (`ValidSince`).
The lemma `FirstTime` (the first of a set of times) is from the library's theorems on
well-founded sets.

**SessionDispatchProofs.** `IInv` adds to the types that a busy worker has a
message (`BusyWithMessage`) and that a turn whose lease has not run out has the
lock (`TurnHasLock`): a replica gives back only its own lock, and a lease that
lapses marks its turn. From it `Typed` and
`TurnsDoNotOverlap`. `LineInv` says that what a replica has taken stands in line:
the message of its worker, its queue, the `/stop` under way, its bus
(`LineInOrder`), what it answered before all of them (`AnsweredBefore`), and that
a token is cancelled only while its `/stop` is under way (`StopOwnsToken`). From
it `AnswersAreInOrder` and `StopsCancelBackwards`.

**RuntimeRunProofs.** `IInv` turns around who knows the version of the stored
checkpoint: only the turn that last began or resumed a run in it
(`CurrentOwns`), and that one as long as its saves succeed (`OwnerCurrent`). So a
turn that was overtaken conflicts, which gives `OverlapIsHarmless`; and a
question stays until another turn takes it up (`QuestionsAreKept`). That it is
taken up once needs where it can still be seen: a question that a turn has taken
up leaves the checkpoint at the latest when that turn begins to plan, unless
both saves that would do it failed (`TakenUp`, `AskedFirst`). From it
`QuestionsAreResumedOnce`. For `TranscriptsAreComplete` it takes that the
checkpoint keeps of a question the newest of what its turn had when it ended, the
result that asked among it (`SnapshotIsNewest`); that a turn's results are its own
or those of the turn it resumes (`OwnResults`), so that what it adds is newer than
what it got, and the newest of the newest is the newest; and that a turn with a call
that asked does nothing more but save and ask (`TranscriptInv`).

**KafkaChannelProofs.** `TypeCorrect` needs where each coroutine returns to: the
place says which operation it is in and who called it (`PathsFit`). The proof
asks for at least one attempt to start, which is what `max(1, ...)` in the code
gives. `TopicIsInOrder` rests on `OrderInv`: the receiver handles the next record of
what it polled, the dispatcher the last reply it took from the bus
(`BatchIsNext`, `RepliesAreNext`); that reply is not in the topic before its
first attempt is over, and at most once before its second is (`RepliesCounted`).
`NothingLostWithoutFault` rests on `CalmInv`: while the broker has not failed
nobody closes a client: `start()` makes both, and the dispatcher has nothing to
send before, so that no send meets a producer that was stopped.

**SessionMemoryProofs.** `MemoryInv` says of every copy of a session, in the
store or in any coroutine, what the properties say of the stored one
(`SessionKept`): it has been scanned to its end, or beyond it after it was
cleared, what it counts as consolidated is in the history, and its facts are
unless an earlier message cleared the session. It holds of all copies because it
speaks of the copy and of the history, which only grows: that is why a save of a
stale copy does no harm to it. A consequence seen only in the proof: the scan at
the start of a consolidation never finds anything, because every turn is scanned
when it ends. That a fact in the memory is also in the history, although a store may
fail between the two writes, is `KnownInv`: the turn that told it has then ended with
the error, and no session gets its unit. From both `TypeCorrect`,
`ConsolidatedIsOnRecord`, `FactsAreOnRecord`, `LeavingTurnsAreArchived`.

`ArchivesAreKept` needs two more. An archive counts its attempts in the count of its
message, `FailuresInv`: it is in its n-th only if n - 1 failures are counted, so that
the third dumps the messages, unless somebody has set the count back meanwhile. Who can
is `SharingInv`: nobody shares a message with a turn that has not reached the model, and
what shares it with an archive has a session that begins with the turn itself
(`OwnOnly`), because the turn cleared it; so what it has archived when it sets the count
back begins with that turn, which is the exemption of the property. An error of the
store that ends an archive is the other exemption (`upsets` changes).

Assumptions: the named `ASSUME`s of the modules, which TLC evaluates in each run.

Only model-checked: liveness (`RunEnds`, `RepliesSettle` of two modules,
`EveryRequestAnswered`, `MessagesSettle`), which is out of the prover's reach.
Every other property of the runs that pass is a theorem (`ProgressExact` for the
constants of its run's kind, as said above). The run that must be violated has no
theorem.

# 5. Where the code and its documents disagree

`cron_one_shot` must end with a counterexample. `list_jobs` reconciles: a
one-time job that is due or running has no last run yet, is taken for missed and
gets a new due time. The timer then makes a second event with another dedupe
key, and the job runs twice, although `docs/OPERATION_GUIDE.md:77` says that the
dedupe key keeps an event from being consumed twice.

Other behaviour worth knowing, seen in the models or while writing them. Where a
property of section 3 exempts it, that is said: the property does not catch it.

*Graph.* `run()` makes one skip pass before it looks for ready nodes: a node that
only the skipping of its parent makes unreachable stays pending in a run recorded
as done. `resume()` puts back waiting nodes only: a node that ran when the
process died stays running, nothing is executed, and the run is recorded as
done. The same becomes of a node whose task is cancelled, or whose callback raises,
in the start message: it is sent outside of the try (`executor.py:187-196`), so that
the row stays running and `resume()` does not put it back (exempt in
`TaskEndsSettled`). An error of a node leaves `run()` before the final status is
saved.

*Gateway.* A process that stops between claim and insert leaves the claim, and
the redelivered reply is dropped as a duplicate (exempt in `LostOnlyIfAbandoned`;
proved impossible without Redis: `NothingLostWithoutRedis`). The cached status has
no request id: when rounds overlap, an event of the last one may go into the next
reply (`ProgressExact` is for a user who waits). The handler writes the count it
loaded before an await, plus one, over a mark_read that came between
(`repository.py:227`; `NoReplyUncounted` is the other direction). A request reported
as not delivered may be answered when only the producer's acknowledgement was lost.
A gateway that dies between commit and publication leaves a message without an
answer.

*Page.* `routes/stream.py:6` says that after a lost connection the front end
reconnects and gets what it missed from the history; the page does not ask for it
(`App.tsx:392`), so that what was published meanwhile stays missing until the
conversation is opened again (exempt in `OnlyLostIsMissing`). A stream whose
subscription fails stays open and silent. The answer of a history request is shown
whatever conversation is open by then (`App.tsx:313`): a late one overwrites the list
with another conversation's rows. `OnlyLostIsMissing` exempts the rows that it takes
away; nothing is said of the foreign rows it shows.

*Channel.* A consumer that was stopped after an error stays in `self.consumer`
(`icatmsg.py:594` clears the producer only) and is taken for a live one at 558:
after one failed poll the replica may receive nothing more.

*Cron.* A handler saves every row it has loaded, several round trips after it read
the clock (`service.py:193-213`, `736-746`, `879`). When another replica has meanwhile
enqueued the job and moved it on, the save puts back a time computed before, and two
occurrences lie closer than the interval; `IntervalKept` exempts a job of which a
section saved or enqueued an overtaken copy, and is violated without the exemption.

*Memory.* `/new` and a prompt that is too big clear the session but keep the count
of scanned messages in its metadata: the facts of the first messages after it are
not scanned (exempt in `FactsMissedOnlyAfterClear`, for every later message of
the chat). The consolidation that a turn leaves behind works on its own copy and
saves it rounds later, over the turns that came meanwhile, which are lost without
being archived; so are those that a turn overwrites whose load had failed, or that
began before such a save (a lost update: exempt in `TurnsLeaveArchived`, as the save of
a copy that never had the turn). The calls of the memory store raise after three
attempts (`memory.py:298-340` Redis, `403-422` PostgreSQL). Inside `consolidate` that
counts as a failure; but the raw dump is written outside of any try
(`memory.py:265`), and an error there ends `archive_messages` with the messages it was
given, already cleared from the session, in no file. A store that works does not
help in one case: `archive_messages`, whose docstring (`memory.py:790`) says "Archive
messages with guaranteed persistence (retries until raw-dump fallback)", asks three
times and relies on the third failure in a row making the dump; but the count of
failures (`memory.py:253`, `262`) is shared with the consolidation that the same turn
leaves behind, whose success in between sets it back, and after its attempts
`archive_messages` returns `True` (796) with the messages in no file. It takes a turn
whose prompt was too big (which archives what it cleared) and that leaves two units
(exempt in `ArchiveGuaranteed`, which is violated without the exemption). An error in
the scan for facts ends the turn with its session not saved. A read that fails looks like an empty
memory, over which the next write goes.

*Runtime.* A save that fails or conflicts is logged and the turn goes on; after
the first save of a run is lost, all its later ones conflict, and its question
cannot be answered (exempt in `QuestionKept`). `AGENT_RUNTIME_EVOLUTION.md` 7.2 and
7.3 say that run id and version keep an answer from being resumed twice and that the
version is updated before the run goes on; the code ignores the result of that save,
so that an answer may be taken up twice when both saves fail (exempt in
`ResumedOnce`). When a call of a batch asks the user, the results of the calls beside
it that come later in the batch are dropped. A round over the budget is trimmed
(`planner.py:86-132`), and one that the provider refuses or answers with nothing is
repaired (`planner.py:260-288`, `loop.py:2054-2091`): both drop every call and result
of the transcript, and the model goes on as if they had not been made.
`ResultsReachModel` speaks of the results since then. A preflight that has to
rebuild the prompt loses the resumed transcript. The checkpoint keeps the last 40
messages, so that a turn that resumes has the newest results only, and each of them
shortened. A turn ended by repeated batches, by its budget, by `/stop` or by a crash
leaves its checkpoint RUNNING; `/new` leaves the checkpoint; CANCELLING and
CANCELLED are never written.

# 6. Not modelled, and the plan

Of the modelled components: a crash of the gateway, listing and deleting of
conversations; rows of failed deliveries, trajectory panel and older pages in
the page; the cron mode that keeps jobs in a file, `enable_job`, `run_job`, the
reconnect of the store; `stop()` and media of the channel; the file and PostgreSQL
stores of checkpoints, retries and time limits within a tool call; the file and
in-memory session stores; a graph run that is resumed while tasks of the stopped
run still live in the process.

Not modelled at all, because there is no protocol to check: planner and loader
(the graph is a constant of the models), tools, MCP, skills, providers, files,
authentication, configuration, observability, CLI, page rendering. They read an
input, call a service and return; heartbeat is one coroutine that takes a lease,
reads a file and asks the model, and keeps nothing from one tick to the next.
These are most of the 39 000 lines of the repository, which is why the mapped
lines are a small share of it: bundled skills (document checks and conversions),
prompts, metrics and the command line have no state whose interleavings could be
explored, and a transcription of them would show nothing.

What would come next: a crash of the gateway between the commit of a message and
its publication, composed with `OutboundDelivery`; and one module of the whole
way of a request, from the page to the reply, whose parts are the modules here.
