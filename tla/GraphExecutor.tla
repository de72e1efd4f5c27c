---------------------------- MODULE GraphExecutor ----------------------------
(***************************************************************************)
(* GraphExecutor (graph/executor.py) running one GraphRun over one graph,  *)
(* with its state manager (graph/state_manager.py) and a process that may  *)
(* die at any moment.                                                      *)
(*                                                                         *)
(* The coroutine of run() ("the driver") and the one execute_node task per *)
(* ready node interleave at awaits only.  A section without an await that  *)
(* writes the database more than once is split between the writes, because *)
(* the process can die there; `turn` keeps every other coroutine out until *)
(* the section ends.                                                       *)
(*                                                                         *)
(* Database rows survive a crash, everything else is lost with it.         *)
(***************************************************************************)
EXTENDS GraphSchedule

CONSTANTS
  Writes,        \* Writes[n]: the keys that node n's result stores in run.state
  EmitYields,    \* TRUE: awaiting the emit callback really suspends
  EmitMayFail,   \* TRUE: the emit callback may raise
  DRIVER,        \* the coroutine of run()/resume(), as a value of `turn`
  NONE           \* nobody is inside a section without awaits

ASSUME WritesAssumption == Writes \in [Nodes -> SUBSET Keys]
ASSUME EmitAssumption   == EmitYields \in BOOLEAN /\ EmitMayFail \in BOOLEAN
ASSUME TurnAssumption   == DRIVER \notin Nodes /\ NONE \notin Nodes /\ DRIVER # NONE

VARIABLES
  nstat,       \* graph.nodes[n].status
  runStatus,   \* GraphRun.status
  state,       \* GraphRun.state
  applied,     \* history: the nodes whose result has been merged into state
  pc,          \* where the driver stands
  skips,       \* the skipped_nodes list that the driver still walks
  task,        \* the phase of each node's execute_node task
  cancelReq,   \* the nodes whose task has had cancel() called
  turn,        \* who is between two database writes
  dbNode,      \* graph_nodes rows: the status, or "absent"
  dbStatus,    \* graph_runs.status, or "absent"
  dbState,     \* graph_runs.state
  dbApplied    \* history: `applied` as of the last save_run

memory == <<nstat, runStatus, state, applied>>
driver == <<pc, skips>>
tasks  == <<task, cancelReq>>
dbRun  == <<dbStatus, dbState, dbApplied>>
vars   == <<nstat, runStatus, state, applied, pc, skips, task, cancelReq, turn,
            dbNode, dbStatus, dbState, dbApplied>>

RunStatus == {"pending", "running", "waiting", "done", "failed"}

\* "created": the task is scheduled; "starting": it awaits the start message;
\* "skill": it awaits the skill; "commit": the state is saved, the node row not
\* yet; "report": it awaits the completion message; the others are outcomes
\* ("unsent": the start message raised, or the task was cancelled there).
Alive    == {"created", "starting", "skill", "commit", "report"}
Outcomes == {"ok", "interaction", "error", "cancelled", "unsent"}
TaskPhase == {"none"} \cup Alive \cup Outcomes

DriverPc == {"idle", "resuming", "entering", "loop", "skipping", "dispatch", "waiting",
             "cancelling", "returned", "raised", "cancelled"}

AliveTasks == {n \in Nodes : task[n] \in Alive}

FreshNodes == [n \in Nodes |-> "pending"]
FreshState == [k \in Keys |-> Absent]

Init ==
  /\ nstat = FreshNodes /\ runStatus = "pending" /\ state = FreshState /\ applied = {}
  /\ pc = "idle" /\ skips = {}
  /\ task = [n \in Nodes |-> "none"] /\ cancelReq = {} /\ turn = NONE
  /\ dbNode = [n \in Nodes |-> "absent"]
  /\ dbStatus = "absent" /\ dbState = FreshState /\ dbApplied = {}

-----------------------------------------------------------------------------
(***************************************************************************)
(* The state manager: one autocommitted statement per call.                *)
(***************************************************************************)
SaveRun == dbStatus' = runStatus' /\ dbState' = state' /\ dbApplied' = applied'

SaveNode(n) == dbNode' = [dbNode EXCEPT ![n] = nstat'[n]]

Hydrated(base) == [n \in Nodes |-> IF dbNode[n] = "absent" THEN base[n] ELSE dbNode[n]]

SetNode(n, s) == nstat' = [nstat EXCEPT ![n] = s]
SetTask(n, t) == task' = [task EXCEPT ![n] = t]

-----------------------------------------------------------------------------
(***************************************************************************)
(* The driver                                                              *)
(***************************************************************************)

\* What a caller passes as initial_state or user_input: nothing, or every key.
UserInputs == {FreshState} \cup [Keys -> Vals]

\* AgentLoop.run_graph builds a fresh GraphRun and calls run().
NewRun ==
  /\ pc = "idle" /\ dbStatus = "absent"
  /\ nstat' = FreshNodes /\ runStatus' = "pending" /\ applied' = {}
  /\ state' \in UserInputs
  /\ pc' = "entering" /\ turn' = DRIVER
  /\ UNCHANGED <<skips, tasks, dbNode, dbRun>>

\* resume(): load the run and its nodes, merge the user's input.  The caller
\* resumes a run of which no task is alive in this process.
ResumeLoad ==
  /\ pc \in {"idle", "returned", "raised", "cancelled"} /\ turn = NONE
  /\ dbStatus # "absent" /\ AliveTasks = {}
  /\ nstat' = Hydrated(FreshNodes)
  /\ runStatus' = dbStatus /\ applied' = dbApplied
  /\ \E input \in UserInputs :
       state' = [k \in Keys |-> IF input[k] = Absent THEN dbState[k] ELSE input[k]]
  /\ pc' = "resuming" /\ turn' = DRIVER
  /\ task' = [n \in Nodes |-> "none"] /\ cancelReq' = {} /\ skips' = {}
  /\ UNCHANGED <<dbNode, dbRun>>

ResetWaitingNode(n) ==
  /\ pc = "resuming" /\ turn = DRIVER /\ nstat[n] = "waiting"
  /\ SetNode(n, "pending") /\ SaveNode(n)
  /\ UNCHANGED <<runStatus, state, applied, driver, tasks, turn, dbRun>>

ResumeSave ==
  /\ pc = "resuming" /\ turn = DRIVER /\ \A n \in Nodes : nstat[n] # "waiting"
  /\ UNCHANGED memory /\ SaveRun
  /\ pc' = "entering"
  /\ UNCHANGED <<skips, tasks, turn, dbNode>>

\* The head of run(): hydrate, mark the run running, save it, send a message.
EnterRun ==
  /\ pc = "entering" /\ turn = DRIVER
  /\ nstat' = Hydrated(nstat) /\ runStatus' = "running"
  /\ UNCHANGED <<state, applied>> /\ SaveRun
  /\ \/ pc' = "loop"
     \/ EmitMayFail /\ pc' = "raised"
  /\ turn' = NONE
  /\ UNCHANGED <<skips, tasks, dbNode>>

\* One iteration starts by listing the nodes to skip; the list is not
\* recomputed while it is walked.
BeginSkipPass ==
  /\ pc = "loop" /\ turn = NONE
  /\ skips' = get_skippable_nodes(nstat, state)
  /\ pc' = IF skips' = {} THEN "dispatch" ELSE "skipping"
  /\ UNCHANGED <<memory, tasks, turn, dbNode, dbRun>>

SkipNode(n) ==
  /\ pc = "skipping" /\ turn = NONE /\ n \in skips
  /\ SetNode(n, "skipped") /\ SaveNode(n)
  /\ skips' = skips \ {n}
  /\ \/ pc' = pc
     \/ EmitMayFail /\ pc' = "raised"
  /\ UNCHANGED <<runStatus, state, applied, tasks, turn, dbRun>>

EndSkipPass ==
  /\ pc = "skipping" /\ turn = NONE /\ skips = {}
  /\ UNCHANGED memory /\ SaveRun
  /\ pc' = "dispatch"
  /\ UNCHANGED <<skips, tasks, turn, dbNode>>

Dispatch ==
  /\ pc = "dispatch" /\ turn = NONE
  /\ get_ready_nodes(nstat, state) # {}
  /\ task' = [n \in Nodes |-> IF n \in get_ready_nodes(nstat, state) THEN "created" ELSE "none"]
  /\ cancelReq' = {}
  /\ pc' = "waiting"
  /\ UNCHANGED <<memory, skips, turn, dbNode, dbRun>>

\* Nothing is ready: the loop ends and the run gets its final status.
FinishRun ==
  /\ pc = "dispatch" /\ turn = NONE
  /\ get_ready_nodes(nstat, state) = {}
  /\ runStatus' = IF \E n \in Nodes : nstat[n] = "failed" THEN "failed"
                  ELSE IF \E n \in Nodes : nstat[n] = "waiting" THEN "waiting"
                  ELSE "done"
  /\ UNCHANGED <<nstat, state, applied>> /\ SaveRun
  /\ task' = [n \in Nodes |-> "none"] /\ cancelReq' = {}
  /\ \/ pc' = "returned"
     \/ EmitMayFail /\ pc' = "raised"
  /\ UNCHANGED <<skips, turn, dbNode>>

\* asyncio.wait(pending, FIRST_EXCEPTION) returns: some task has raised, or all
\* have ended.  Every task has had its first step by then, since they were
\* scheduled together.
Raised == {n \in Nodes : task[n] \in {"interaction", "error", "unsent"}}

HasFailed(n) == task[n] \in {"error", "unsent"}

WaitReturns_AnyException ==   \* planted error: InteractionRequired is like any exception
  /\ pc = "waiting" /\ turn = NONE
  /\ \A n \in Nodes : task[n] # "created"
  /\ Raised # {} \/ AliveTasks = {}
  /\ IF Raised # {} /\ AliveTasks # {}
       THEN cancelReq' = AliveTasks /\ pc' = "cancelling"
       ELSE cancelReq' = cancelReq /\ pc' = IF Raised # {} THEN "raised" ELSE "loop"
  /\ UNCHANGED <<memory, skips, task, turn, dbNode, dbRun>>

WaitReturns_KeepsRaised ==    \* planted error: a waiting node's task stays in `pending`
  /\ pc = "waiting" /\ turn = NONE
  /\ \A n \in Nodes : task[n] # "created"
  /\ Raised # {} \/ AliveTasks = {}
  /\ pc' = IF \E n \in Nodes : HasFailed(n) THEN "raised"
           ELSE IF Raised = {} THEN "loop" ELSE "waiting"
  /\ UNCHANGED <<memory, skips, tasks, turn, dbNode, dbRun>>

WaitReturns ==
  /\ pc = "waiting" /\ turn = NONE
  /\ \A n \in Nodes : task[n] # "created"
  /\ Raised # {} \/ AliveTasks = {}
  /\ IF \E n \in Nodes : HasFailed(n)
       THEN /\ cancelReq' = AliveTasks
            /\ pc' = IF AliveTasks = {} THEN "raised" ELSE "cancelling"
            /\ task' = task
       ELSE \* tasks that ended leave the set that is waited for
            /\ task' = [n \in Nodes |-> IF task[n] \in Alive THEN task[n] ELSE "none"]
            /\ pc' = IF AliveTasks = {} THEN "loop" ELSE "waiting"
            /\ cancelReq' = cancelReq
  /\ UNCHANGED <<memory, skips, turn, dbNode, dbRun>>

\* gather() of the cancelled tasks returns and the first error is re-raised.
RaiseError ==
  /\ pc = "cancelling" /\ turn = NONE /\ AliveTasks = {}
  /\ pc' = "raised"
  /\ UNCHANGED <<memory, skips, tasks, turn, dbNode, dbRun>>

\* The task that awaits run() is cancelled (/stop).  asyncio.wait does not
\* cancel what it waits for: the node tasks live on.  gather() does.
CancelRun ==
  /\ turn = NONE
  /\ \/ pc \in {"waiting", "cancelling"}
     \/ EmitYields /\ pc \in {"loop", "skipping"}
  /\ pc' = "cancelled"
  /\ UNCHANGED <<memory, skips, tasks, turn, dbNode, dbRun>>

-----------------------------------------------------------------------------
(***************************************************************************)
(* The task of one node: execute_node                                      *)
(***************************************************************************)
StartNode(n) ==
  /\ task[n] = "created" /\ turn = NONE
  /\ SetNode(n, "running") /\ SaveNode(n)
  /\ SetTask(n, "starting")
  /\ turn' = IF EmitYields THEN NONE ELSE n
  /\ UNCHANGED <<runStatus, state, applied, driver, cancelReq, dbRun>>

\* The start message is sent outside of the try statement.
StartSent(n) ==
  /\ task[n] = "starting" /\ turn \in {NONE, n} /\ n \notin cancelReq
  /\ \/ SetTask(n, "skill")
     \/ EmitMayFail /\ SetTask(n, "unsent")
  /\ turn' = NONE
  /\ UNCHANGED <<memory, driver, cancelReq, dbNode, dbRun>>

\* The skill returns: under the state lock the result is merged and the run
\* is saved; the node row follows in SaveDoneNode.
SkillReturns_NodeFirst(n) ==  \* planted error: the node row is written before the run row
  /\ task[n] = "skill" /\ turn = NONE /\ n \notin cancelReq
  /\ SetNode(n, "done") /\ SaveNode(n)
  /\ \E result \in [Writes[n] -> Vals] :
       state' = [k \in Keys |-> IF k \in Writes[n] THEN result[k] ELSE state[k]]
  /\ applied' = applied \cup {n}
  /\ SetTask(n, "commit") /\ turn' = n
  /\ UNCHANGED <<runStatus, driver, cancelReq, dbRun>>

SkillReturns(n) ==
  /\ task[n] = "skill" /\ turn = NONE /\ n \notin cancelReq
  /\ SetNode(n, "done")
  /\ \E result \in [Writes[n] -> Vals] :
       state' = [k \in Keys |-> IF k \in Writes[n] THEN result[k] ELSE state[k]]
  /\ applied' = applied \cup {n}
  /\ UNCHANGED runStatus /\ SaveRun
  /\ SetTask(n, "commit") /\ turn' = n
  /\ UNCHANGED <<driver, cancelReq, dbNode>>

SaveDoneNode(n) ==
  /\ task[n] = "commit" /\ turn = n
  /\ UNCHANGED memory /\ SaveNode(n)
  /\ SetTask(n, "report") /\ turn' = IF EmitYields THEN NONE ELSE n
  /\ UNCHANGED <<driver, cancelReq, dbRun>>

DoneSent(n) ==
  /\ task[n] = "report" /\ turn \in {NONE, n} /\ n \notin cancelReq
  /\ SetTask(n, "ok") /\ turn' = NONE
  /\ UNCHANGED <<memory, driver, cancelReq, dbNode, dbRun>>

\* `except Exception`: the skill failed, or the completion message did.  The
\* save_run that follows save_node rewrites the row with what it holds already
\* (RowsCurrent), so dying between the two shows nothing new.
NodeFails(n) ==
  /\ n \notin cancelReq
  /\ \/ task[n] = "skill" /\ turn = NONE
     \/ EmitMayFail /\ task[n] = "report" /\ turn \in {NONE, n}
  /\ SetNode(n, "failed") /\ SaveNode(n)
  /\ UNCHANGED <<runStatus, state, applied>> /\ SaveRun
  /\ SetTask(n, "error") /\ turn' = NONE
  /\ UNCHANGED <<driver, cancelReq>>

\* `except InteractionRequired`: the node row is written, then the run row.
SkillAsks(n) ==
  /\ task[n] = "skill" /\ turn = NONE /\ n \notin cancelReq
  /\ SetNode(n, "waiting") /\ runStatus' = "waiting" /\ SaveNode(n)
  /\ turn' = n
  /\ UNCHANGED <<state, applied, driver, tasks, dbRun>>

SaveWaitingRun(n) ==
  /\ task[n] = "skill" /\ turn = n
  /\ UNCHANGED memory /\ SaveRun
  /\ \/ SetTask(n, "interaction")
     \/ EmitMayFail /\ SetTask(n, "error")
  /\ turn' = NONE
  /\ UNCHANGED <<driver, cancelReq, dbNode>>

\* CancelledError reaches the task at its await.  Only inside the try statement
\* is the node put back to pending.
CancelNode_NoSave(n) ==       \* planted error: the node is put back in memory only
  /\ n \in cancelReq /\ turn = NONE /\ task[n] \in {"starting", "skill", "report"}
  /\ IF task[n] = "skill" THEN SetNode(n, "pending") ELSE UNCHANGED nstat
  /\ SetTask(n, IF task[n] = "starting" THEN "unsent" ELSE "cancelled")
  /\ UNCHANGED <<runStatus, state, applied, driver, cancelReq, turn, dbNode, dbRun>>

CancelNode_NoReset(n) ==      \* planted error: the node is not put back
  /\ n \in cancelReq /\ turn = NONE /\ task[n] \in {"starting", "skill", "report"}
  /\ SetTask(n, IF task[n] = "starting" THEN "unsent" ELSE "cancelled")
  /\ UNCHANGED <<memory, driver, cancelReq, turn, dbNode, dbRun>>

CancelNode(n) ==
  /\ n \in cancelReq /\ turn = NONE /\ task[n] \in {"starting", "skill", "report"}
  /\ IF task[n] = "skill" THEN SetNode(n, "pending") /\ SaveNode(n)
                          ELSE UNCHANGED <<nstat, dbNode>>
  /\ SetTask(n, IF task[n] = "starting" THEN "unsent" ELSE "cancelled")
  /\ UNCHANGED <<runStatus, state, applied, driver, cancelReq, turn, dbRun>>

-----------------------------------------------------------------------------
\* The process dies; a later one knows only the database.
Crash ==
  /\ pc # "idle" \/ AliveTasks # {}
  /\ nstat' = FreshNodes /\ runStatus' = "pending" /\ state' = FreshState /\ applied' = {}
  /\ pc' = "idle" /\ skips' = {}
  /\ task' = [n \in Nodes |-> "none"] /\ cancelReq' = {} /\ turn' = NONE
  /\ UNCHANGED <<dbNode, dbRun>>

DriverStep ==
  \/ EnterRun \/ BeginSkipPass \/ EndSkipPass \/ Dispatch \/ FinishRun
  \/ WaitReturns \/ RaiseError \/ ResumeSave
  \/ \E n \in Nodes : ResetWaitingNode(n) \/ SkipNode(n)

NodeStep(n) ==
  \/ StartNode(n) \/ StartSent(n) \/ SkillReturns(n) \/ SaveDoneNode(n) \/ DoneSent(n)
  \/ NodeFails(n) \/ SkillAsks(n) \/ SaveWaitingRun(n) \/ CancelNode(n)

Next ==
  \/ NewRun \/ ResumeLoad \/ CancelRun \/ Crash
  \/ DriverStep
  \/ \E n \in Nodes : NodeStep(n)

Spec == Init /\ [][Next]_vars

(***************************************************************************)
(* The event loop steps every runnable coroutine, and a skill ends: the    *)
(* tool executor gives each call a time limit.                             *)
(***************************************************************************)
Fairness == WF_vars(DriverStep) /\ \A n \in Nodes : WF_vars(NodeStep(n))

FairSpec == Spec /\ Fairness

-----------------------------------------------------------------------------
(***************************************************************************)
(* Properties                                                              *)
(***************************************************************************)

\* Every variable holds a value the program can give it.
TypeOK ==
  /\ nstat \in [Nodes -> NodeStatus] /\ runStatus \in RunStatus
  /\ state \in RunStates /\ applied \subseteq Nodes
  /\ pc \in DriverPc /\ skips \subseteq Nodes
  /\ task \in [Nodes -> TaskPhase] /\ cancelReq \subseteq Nodes
  /\ turn \in Nodes \cup {DRIVER, NONE}
  /\ dbNode \in [Nodes -> NodeStatus \cup {"absent"}]
  /\ dbStatus \in RunStatus \cup {"absent"}
  /\ dbState \in RunStates /\ dbApplied \subseteq Nodes

Started == {"running", "waiting", "done", "failed"}

\* A node's row says it runs, waits or ran only when the rows of all its
\* parents say done or skipped, and says skipped only when they say done,
\* skipped or failed: no interleaving, cancellation, crash or resume lets a
\* successor of get_ready_nodes/get_skippable_nodes get ahead of its parents.
ParentsSettled ==
  \A n \in Nodes : \A p \in get_parents(n) :
    /\ dbNode[n] \in Started => dbNode[p] \in Finished
    /\ dbNode[n] = "skipped" => dbNode[p] \in TERMINAL_NODE_STATUSES

\* The same of the graph in memory.
ParentsSettledInMemory ==
  \A n \in Nodes : \A p \in get_parents(n) :
    /\ nstat[n] \in Started => nstat[p] \in Finished
    /\ nstat[n] = "skipped" => nstat[p] \in TERMINAL_NODE_STATUSES

\* The list of nodes to skip, computed once per pass of run(), stays right
\* while the pass walks it and awaits a message after each node.
SkipsStayValid ==
  pc = "skipping" =>
    \A n \in skips :
      /\ nstat[n] = "pending"
      /\ \A e \in Edges : e.to = n =>
           /\ nstat[e.from] \in {"done", "skipped", "failed"}
           /\ e.cond # NoCond /\ state[e.cond.key] # e.cond.val

\* What the scheduler selects is right when it is acted upon: no row gets ahead of
\* its parents', and no node is skipped that a parent or a condition speaks for.
ScheduleSound == ParentsSettled /\ SkipsStayValid

\* Whenever the event loop is free, the rows agree with the run in memory:
\* execute_node, run() and resume() save every status they set before they
\* await anything, except that a skip pass saves the run row at its end.
RowsCurrent ==
  turn = NONE /\ pc # "idle" =>
    /\ \A n \in Nodes :
         dbNode[n] = nstat[n] \/ (dbNode[n] = "absent" /\ nstat[n] = "pending")
    /\ dbStatus = runStatus /\ dbState = state /\ dbApplied = applied

\* Once a node's result is merged into the run's state, in memory or in the
\* row, no task is about to run its skill again, whatever crashed, was
\* cancelled or resumed in between.
ResultAppliedOnce ==
  \A n \in applied \cup dbApplied : task[n] \notin {"created", "starting", "skill"}

\* A row says done only when the run's row has that node's result: execute_node
\* saves the run before the node.
StateBeforeNode ==
  \A n \in Nodes : dbNode[n] = "done" => n \in dbApplied

\* The results of nodes that ran side by side are all kept: no merge loses the
\* keys another node stored.
ResultsKept ==
  /\ \A n \in applied : \A k \in Writes[n] : state[k] # Absent
  /\ \A n \in dbApplied : \A k \in Writes[n] : dbState[k] # Absent

\* The result of a node is in the run's row before the node's row says done, stays
\* there, and is computed once.
ResultsSafe == ResultAppliedOnce /\ StateBeforeNode /\ ResultsKept

\* No task ends with its node still running, except one that ended before its
\* skill began: the start message is sent outside of the try statement.
TaskEndsSettled ==
  \A n \in Nodes : task[n] \in Outcomes \ {"unsent"} => nstat[n] # "running"

\* A sibling is cancelled only when some node failed, or its message raised: a
\* node that waits for the user does not stop the branches beside it.
CancelOnlyForFailure ==
  cancelReq # {} =>
    \E n \in Nodes :
      \/ dbNode[n] = "failed" \/ task[n] = "unsent"
      \/ EmitMayFail /\ task[n] = "error" /\ dbNode[n] = "waiting"

\* A node that waits for the user waits until resume() puts it back: no sibling
\* that finishes, fails or is cancelled, and no crash, loses the question.
WaitingIsKept ==
  [][\A n \in Nodes : dbNode[n] = "waiting" /\ pc # "resuming" => dbNode'[n] = "waiting"]_vars

\* When run() is over and some node waits for the user, the run's row says
\* waiting, or failed: a caller that looks for runs to resume finds it, even
\* when a sibling finished, failed or was cancelled after the question.
WaitingRunAnnounced ==
  pc \in {"returned", "raised"} /\ (\E n \in Nodes : dbNode[n] = "waiting")
    => dbStatus \in {"waiting", "failed"}

\* A question to the user stops no branch beside it, and is announced in the end.
QuestionsHandled == CancelOnlyForFailure /\ WaitingRunAnnounced

\* What a row says of an ended node is final: no later task, cancellation,
\* crash or resume takes it back.  (A completion message that raises turns done
\* into failed.)
SettledIsFinal ==
  [][\A n \in Nodes : dbNode[n] \in TERMINAL_NODE_STATUSES =>
       \/ dbNode'[n] = dbNode[n]
       \/ EmitMayFail /\ dbNode[n] = "done" /\ dbNode'[n] = "failed"]_vars

\* A call of run() or resume() ends: it returns, raises, is cancelled, or dies
\* with the process; the scheduling loop cannot spin or wait forever.
RunEnds ==
  pc \in {"entering", "resuming"} ~> pc \in {"returned", "raised", "cancelled", "idle"}

-----------------------------------------------------------------------------
(***************************************************************************)
(* The invariant that every step keeps (see GraphProofs).                  *)
(***************************************************************************)

\* Which coroutines exist at each point of the driver, and who may hold the turn.
DriverAndTasks ==
  /\ pc \notin {"waiting", "cancelling", "cancelled"} => \A n \in Nodes : task[n] \notin Alive
  /\ pc \in {"resuming", "entering"} <=> turn = DRIVER
  /\ \A n \in Nodes : turn = n => task[n] \in {"starting", "skill", "commit", "report"}
  /\ \A n \in Nodes : task[n] = "commit" => turn = n

\* The status of a node whose task is alive.
TaskStatusMatch ==
  \A n \in Nodes :
    /\ task[n] = "created"  => nstat[n] = "pending"
    /\ task[n] = "starting" => nstat[n] = "running"
    /\ task[n] = "skill"    => nstat[n] = IF turn = n THEN "waiting" ELSE "running"
    /\ task[n] \in {"commit", "report"} => nstat[n] = "done"

\* While a task is alive its node's parents are over and its children untouched.
TasksAreIndependent ==
  \A n \in Nodes : \A p \in get_parents(n) :
    /\ task[n] \in Alive => nstat[p] \in Finished
    /\ task[p] \in Alive => nstat[n] = "pending" /\ task[n] \notin Alive

\* Rows and memory, step by step (RowsCurrent is what is left when turn = NONE).
RowsFollow ==
  /\ dbStatus = "absent" => dbApplied = {} /\ \A n \in Nodes : dbNode[n] = "absent"
  /\ pc \notin {"idle", "entering"} => dbStatus # "absent"
  /\ applied = IF pc = "idle" THEN {} ELSE dbApplied
  /\ pc = "idle" => nstat = FreshNodes
  /\ pc # "idle" => \A n \in Nodes :
       IF task[n] = "commit"
         THEN dbNode[n] = "running"
         ELSE dbNode[n] = nstat[n] \/ (dbNode[n] = "absent" /\ nstat[n] = "pending")

\* The run's row trails memory only between the two writes of a node that asks.
RunRowFollows ==
  pc \notin {"idle", "resuming", "entering"} =>
    /\ dbState = state
    /\ dbStatus = runStatus \/ \E n \in Nodes : turn = n /\ task[n] = "skill"

\* A merged result is its node's: the node is past its skill for good.
AppliedNodes ==
  \A n \in Nodes :
    /\ n \in dbApplied => dbNode[n] \in {"running", "done", "failed"}
    /\ n \in dbApplied => task[n] \notin {"created", "starting", "skill"}
    /\ task[n] = "commit" => n \in dbApplied
    /\ dbNode[n] = "done" => n \in dbApplied

SkipsAreDue ==
  pc = "skipping" =>
    \A n \in skips : nstat[n] = "pending" /\ get_incoming_edges(n) # {}
                     /\ ParentsTerminal(nstat, n)

IInv ==
  /\ TypeOK /\ DriverAndTasks /\ TaskStatusMatch /\ TasksAreIndependent
  /\ RowsFollow /\ RunRowFollows /\ AppliedNodes /\ ResultsKept
  /\ SkipsAreDue /\ SkipsStayValid
  /\ TaskEndsSettled
  /\ ParentsSettled /\ ParentsSettledInMemory

\* A pass begins without the tasks of an earlier one, and what it cancels it has done with.
PassesAreApart ==
  /\ pc \in {"idle", "resuming", "entering", "loop", "skipping", "dispatch"} =>
       \A n \in Nodes : task[n] = "none"
  /\ cancelReq # {} => pc \in {"cancelling", "raised", "cancelled"}

\* A task that ended in an error has left its node failed, or had asked before.
ErrorsShow ==
  \A n \in Nodes : task[n] = "error" =>
    dbNode[n] = "failed" \/ (EmitMayFail /\ dbNode[n] = "waiting")

\* A run with a question is not marked running again until the question is put back.
QuestionMarksRun ==
  pc \notin {"idle", "resuming"} /\ (\E n \in Nodes : dbNode[n] = "waiting") =>
    pc # "entering" /\ runStatus \in {"waiting", "failed"}

QuestionInv == PassesAreApart /\ ErrorsShow /\ CancelOnlyForFailure /\ QuestionMarksRun

-----------------------------------------------------------------------------
(***************************************************************************)
(* The rows implement TaskGraph, what a caller of the executor relies on.  *)
(***************************************************************************)
TaskStatus(row) ==
  CASE row \in {"absent", "pending"}  -> "todo"
    [] row \in {"running", "waiting"} -> "active"
    [] OTHER -> row

Abstract == INSTANCE TaskGraph WITH
  Tasks        <- Nodes,
  Parents      <- [n \in Nodes |-> get_parents(n)],
  MayRetract   <- EmitMayFail,
  status       <- [n \in Nodes |-> TaskStatus(dbNode[n])]

\* The rows of graph_nodes, read as todo/active/done/skipped/failed, only ever
\* change the way TaskGraph allows.
ImplementsTaskGraph == Abstract!Spec
=============================================================================
