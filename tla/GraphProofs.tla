----------------------------- MODULE GraphProofs -----------------------------
(***************************************************************************)
(* What is proved of the graph engine: GraphExecutor and ValidateGraph.    *)
(*                                                                         *)
(* For every graph, every set of keys and values, whether or not sending a *)
(* message suspends or raises: what GraphExecutor's rows and memory never  *)
(* violate.                                                                *)
(*                                                                         *)
(* The argument is one inductive invariant, IInv.  A batch of tasks is     *)
(* dispatched when the parents of its nodes are over, and while a task is  *)
(* alive the children of its node stay pending, because the driver awaits  *)
(* the whole batch and a cancelled or dead driver dispatches nothing       *)
(* (TasksAreIndependent); memory and rows differ only between two writes   *)
(* of one section (RowsFollow, RunRowFollows); so the statuses that a step *)
(* reads in memory say something of the rows a crash leaves behind.        *)
(*                                                                         *)
(* For every edge list: what ValidateGraph accepts, by VGInv.              *)
(***************************************************************************)
EXTENDS GraphExecutor, ValidateGraph, FiniteSetTheorems, TLAPS

\* Every parent is a node: load_graph_data joins nodes of the graph.
LEMMA ParentsAreNodes == \A n \in Nodes : get_parents(n) \subseteq Nodes
  BY EdgesAssumption DEF get_parents, get_incoming_edges

\* What get_ready_nodes promises of a node it returns, whatever the conditions.
LEMMA ReadyParents ==
  ASSUME NEW stat, NEW st, NEW n \in get_ready_nodes(stat, st)
  PROVE  stat[n] = "pending" /\ \A p \in get_parents(n) : stat[p] \in Finished
<1>1. stat[n] = "pending"
  BY DEF get_ready_nodes, Ready
<1>2. CASE get_incoming_edges(n) = {}
  BY <1>1, <1>2 DEF get_parents
<1>3. CASE ParentsTerminal(stat, n) /\ \A p \in get_parents(n) : stat[p] # "failed"
  BY <1>1, <1>3 DEF ParentsTerminal, TERMINAL_NODE_STATUSES
<1>4. QED
  BY <1>2, <1>3 DEF get_ready_nodes, Ready

USE DEF NodeStatus, RunStatus, RunStates, DriverPc, TaskPhase, Alive, Outcomes, Finished,
        TERMINAL_NODE_STATUSES, Started, memory, driver, tasks, dbRun, SaveRun, SaveNode,
        SetNode, SetTask, FreshNodes, FreshState

LEMMA InvInit == Init => IInv
  BY ParentsAreNodes, AbsentAssumption, TurnAssumption
     DEF Init, IInv, TypeOK, DriverAndTasks, AliveTasks, TaskStatusMatch, TasksAreIndependent,
         RowsFollow, RunRowFollows, AppliedNodes, ResultsKept, SkipsAreDue, SkipsStayValid,
         TaskEndsSettled, ParentsSettled, ParentsSettledInMemory

LEMMA InvStep == IInv /\ [Next]_vars => IInv'
<1>. SUFFICES ASSUME IInv, [Next]_vars PROVE IInv'
  OBVIOUS
<1>. USE AbsentAssumption, WritesAssumption, TurnAssumption, EmitAssumption, ParentsAreNodes
     DEF IInv, TypeOK, DriverAndTasks, AliveTasks, TaskStatusMatch, TasksAreIndependent,
         RowsFollow, RunRowFollows, AppliedNodes, ResultsKept, SkipsAreDue, SkipsStayValid,
         TaskEndsSettled, ParentsSettled, ParentsSettledInMemory, ParentsTerminal
\* A fresh run: no row exists yet, so nothing in memory contradicts one.
<1>1. CASE NewRun
  BY <1>1 DEF NewRun, UserInputs
\* Memory becomes what the rows say; the rows satisfy the invariant already.
<1>2. CASE ResumeLoad
  BY <1>2 DEF ResumeLoad, UserInputs, Hydrated
<1>3. CASE CancelRun
  BY <1>3 DEF CancelRun
<1>4. CASE Crash
  BY <1>4 DEF Crash
<1>5. CASE EnterRun
  BY <1>5 DEF EnterRun, Hydrated
<1>6. CASE BeginSkipPass
  <2>1. \A n \in get_skippable_nodes(nstat, state) :
           nstat[n] = "pending" /\ get_incoming_edges(n) # {} /\ ParentsTerminal(nstat, n)
    BY DEF get_skippable_nodes, Skippable
  <2>2. SkipsStayValid'
    <3>. SUFFICES ASSUME NEW n \in get_skippable_nodes(nstat, state), NEW e \in Edges, e.to = n
                  PROVE  /\ nstat[e.from] \in TERMINAL_NODE_STATUSES
                         /\ e.cond # NoCond /\ state[e.cond.key] # e.cond.val
      BY <1>6, <2>1 DEF BeginSkipPass
    <3>1. e \in get_incoming_edges(n) /\ e.from \in get_parents(n)
      BY DEF get_incoming_edges, get_parents
    <3>2. e \notin ActiveEdges(n, state)
      BY DEF get_skippable_nodes, Skippable
    <3>3. QED
      BY <2>1, <3>1, <3>2 DEF ActiveEdges, eval_condition
  <2>3. /\ TypeOK' /\ DriverAndTasks' /\ TaskStatusMatch' /\ TasksAreIndependent'
        /\ RowsFollow' /\ RunRowFollows' /\ AppliedNodes' /\ ResultsKept' /\ SkipsAreDue'
        /\ ParentsSettled' /\ ParentsSettledInMemory'
        /\ TaskEndsSettled'
    BY <1>6, <2>1 DEF BeginSkipPass, get_skippable_nodes
  <2>4. QED
    BY <2>2, <2>3
<1>7. CASE EndSkipPass
  BY <1>7 DEF EndSkipPass
\* No task is alive before; the new ones are of pending nodes whose parents are
\* over, so no new task is the parent of another.
<1>8. CASE Dispatch
  <2>1. \A n \in Nodes : task'[n] = "created" =>
           nstat[n] = "pending" /\ \A p \in get_parents(n) : nstat[p] \in Finished
    BY <1>8, ReadyParents DEF Dispatch
  <2>2. \A n \in Nodes : task'[n] \in {"created", "none"} /\ task[n] \notin Alive
    BY <1>8 DEF Dispatch
  <2>3. TasksAreIndependent'
    <3>. SUFFICES ASSUME NEW n \in Nodes, NEW p \in get_parents(n)
                  PROVE /\ task'[n] \in Alive => nstat'[p] \in Finished
                        /\ task'[p] \in Alive => nstat'[n] = "pending" /\ task'[n] \notin Alive
      OBVIOUS
    <3>1. p \in Nodes /\ nstat' = nstat
      BY <1>8 DEF Dispatch
    <3>2. task'[p] \in Alive => nstat[n] = "pending"
      \* p is pending, so n is neither started nor skipped
      BY <2>1, <2>2, <3>1
    <3>3. QED
      BY <2>1, <2>2, <3>1, <3>2
  <2>4. AppliedNodes'
    \* a pending node's row is pending or absent: its result was never merged
    BY <1>8, <2>1, <2>2 DEF Dispatch
  <2>5. TypeOK' /\ DriverAndTasks' /\ TaskStatusMatch' /\ SkipsAreDue' /\ SkipsStayValid'
        /\ TaskEndsSettled'
    BY <1>8, <2>1, <2>2 DEF Dispatch
  <2>6. RowsFollow' /\ RunRowFollows' /\ ResultsKept' /\ ParentsSettled' /\ ParentsSettledInMemory'
    BY <1>8, <2>1, <2>2 DEF Dispatch
  <2>7. QED
    BY <2>3, <2>4, <2>5, <2>6
<1>9. CASE FinishRun
  BY <1>9 DEF FinishRun
<1>10. CASE WaitReturns
  BY <1>10 DEF WaitReturns, Raised
<1>11. CASE RaiseError
  BY <1>11 DEF RaiseError
<1>12. CASE ResumeSave
  BY <1>12 DEF ResumeSave
\* A waiting node that goes back to pending has no started child.
<1>13. ASSUME NEW m \in Nodes, ResetWaitingNode(m) PROVE IInv'
  BY <1>13 DEF ResetWaitingNode
\* The list was computed before the awaits of the pass, but no task is alive.
<1>14. ASSUME NEW m \in Nodes, SkipNode(m) PROVE IInv'
  BY <1>14 DEF SkipNode
\* The parents were over at dispatch; none of them has a live task since.
<1>15. ASSUME NEW m \in Nodes, StartNode(m) PROVE IInv'
  BY <1>15 DEF StartNode
<1>16. ASSUME NEW m \in Nodes, StartSent(m) PROVE IInv'
  BY <1>16 DEF StartSent
\* The run's row is written, the node's row still says running.
<1>17. ASSUME NEW m \in Nodes, SkillReturns(m) PROVE IInv'
  BY <1>17 DEF SkillReturns
<1>18. ASSUME NEW m \in Nodes, SaveDoneNode(m) PROVE IInv'
  BY <1>18 DEF SaveDoneNode
<1>19. ASSUME NEW m \in Nodes, DoneSent(m) PROVE IInv'
  BY <1>19 DEF DoneSent
\* Even done may become failed here: the task is alive, so its children wait.
<1>20. ASSUME NEW m \in Nodes, NodeFails(m) PROVE IInv'
  BY <1>20 DEF NodeFails
<1>21. ASSUME NEW m \in Nodes, SkillAsks(m) PROVE IInv'
  BY <1>21 DEF SkillAsks
<1>22. ASSUME NEW m \in Nodes, SaveWaitingRun(m) PROVE IInv'
  BY <1>22 DEF SaveWaitingRun
<1>23. ASSUME NEW m \in Nodes, CancelNode(m) PROVE IInv'
  BY <1>23 DEF CancelNode
<1>24. CASE UNCHANGED vars
  BY <1>24 DEF vars
<1>25. QED
  BY <1>1, <1>2, <1>3, <1>4, <1>5, <1>6, <1>7, <1>8, <1>9, <1>10, <1>11, <1>12, <1>13,
     <1>14, <1>15, <1>16, <1>17, <1>18, <1>19, <1>20, <1>21, <1>22, <1>23, <1>24
     DEF Next, DriverStep, NodeStep

\* The inductive invariant holds in every reachable state.
THEOREM Invariant == Spec => []IInv
  BY InvInit, InvStep, PTL DEF Spec

\* Every variable keeps its type.
THEOREM TypeCorrect == Spec => []TypeOK
<1>1. IInv => TypeOK
  BY DEF IInv
<1>2. QED
  BY <1>1, Invariant, PTL

\* A node's row never gets ahead of its parents' rows (executor.py run(),
\* execute_node(), resume(); scheduler.py get_ready_nodes, get_skippable_nodes).
THEOREM ParentsAreSettled == Spec => []ParentsSettled
<1>1. IInv => ParentsSettled
  BY DEF IInv
<1>2. QED
  BY <1>1, Invariant, PTL

\* What the scheduler selects is right when it is acted upon, also after the awaits
\* of a skip pass.
THEOREM ScheduleIsSound == Spec => []ScheduleSound
<1>1. IInv => ScheduleSound
  BY DEF IInv, ScheduleSound
<1>2. QED
  BY <1>1, Invariant, PTL

\* No task leaves its node running behind, however it ends.
THEOREM TasksEndSettled == Spec => []TaskEndsSettled
<1>1. IInv => TaskEndsSettled
  BY DEF IInv
<1>2. QED
  BY <1>1, Invariant, PTL

\* A result that was merged is never computed again, across crashes and resumes.
THEOREM ResultsAppliedOnce == Spec => []ResultAppliedOnce
<1>1. IInv => ResultAppliedOnce
  BY DEF IInv, TypeOK, AppliedNodes, RowsFollow, ResultAppliedOnce
<1>2. QED
  BY <1>1, Invariant, PTL

\* A row says done only when the run's row has the node's result.
THEOREM StateIsSavedFirst == Spec => []StateBeforeNode
<1>1. IInv => StateBeforeNode
  BY DEF IInv, AppliedNodes, StateBeforeNode
<1>2. QED
  BY <1>1, Invariant, PTL

\* No merge loses what another node stored.
THEOREM ResultsAreKept == Spec => []ResultsKept
<1>1. IInv => ResultsKept
  BY DEF IInv
<1>2. QED
  BY <1>1, Invariant, PTL

\* The result of a node is saved before its row says done, kept, and computed once
\* (execute_node's two writes, _hydrate_graph).
THEOREM ResultsAreSafe == Spec => []ResultsSafe
<1>1. ResultAppliedOnce /\ StateBeforeNode /\ ResultsKept => ResultsSafe
  BY DEF ResultsSafe
<1>2. QED
  BY <1>1, ResultsAppliedOnce, StateIsSavedFirst, ResultsAreKept, PTL

\* Whenever the event loop is free, the rows agree with memory.
THEOREM RowsAreCurrent == Spec => []RowsCurrent
<1>1. IInv => RowsCurrent
  BY TurnAssumption DEF IInv, DriverAndTasks, RowsFollow, RunRowFollows, RowsCurrent
<1>2. QED
  BY <1>1, Invariant, PTL

-----------------------------------------------------------------------------
(***************************************************************************)
(* Steps of the rows                                                       *)
(***************************************************************************)

\* What one step may do to the rows of graph_nodes: nothing, or one change of
\* one row that TaskGraph allows.
RowChange(n) ==
  /\ \/ /\ dbNode[n] \in {"absent", "pending"} /\ dbNode'[n] = "running"
        /\ \A p \in get_parents(n) : dbNode[p] \in Finished
     \/ /\ dbNode[n] \in {"absent", "pending"} /\ dbNode'[n] = "skipped"
        /\ get_parents(n) # {}
        /\ \A p \in get_parents(n) : dbNode[p] \in TERMINAL_NODE_STATUSES
     \/ dbNode[n] = "running" /\ dbNode'[n] \in {"pending", "waiting", "done", "failed"}
     \/ dbNode[n] = "waiting" /\ dbNode'[n] = "pending" /\ pc = "resuming"
     \/ EmitMayFail /\ dbNode[n] = "done" /\ dbNode'[n] = "failed"
  /\ \A o \in Nodes \ {n} : dbNode'[o] = dbNode[o]

LEMMA RowSteps ==
  ASSUME IInv, [Next]_vars
  PROVE  UNCHANGED dbNode \/ \E n \in Nodes : RowChange(n)
<1>. USE ParentsAreNodes, TurnAssumption, EmitAssumption
     DEF IInv, TypeOK, DriverAndTasks, TaskStatusMatch, TasksAreIndependent, RowsFollow,
         SkipsAreDue, ParentsTerminal, RowChange
<1>1. ASSUME NewRun \/ ResumeLoad \/ CancelRun \/ Crash \/ EnterRun \/ BeginSkipPass
             \/ EndSkipPass \/ Dispatch \/ FinishRun \/ WaitReturns \/ RaiseError \/ ResumeSave
      PROVE  dbNode' = dbNode
  BY <1>1, Zenon DEF NewRun, ResumeLoad, CancelRun, Crash, EnterRun, BeginSkipPass, EndSkipPass,
              Dispatch, FinishRun, WaitReturns, RaiseError, ResumeSave
<1>2. ASSUME NEW m \in Nodes, ResetWaitingNode(m) PROVE RowChange(m)
  BY <1>2 DEF ResetWaitingNode
<1>3. ASSUME NEW m \in Nodes, SkipNode(m) PROVE RowChange(m)
  <2>1. get_parents(m) # {}
    BY <1>3 DEF SkipNode, get_parents
  <2>2. QED
    BY <1>3, <2>1 DEF SkipNode
<1>4. ASSUME NEW m \in Nodes, StartNode(m) PROVE RowChange(m)
  BY <1>4 DEF StartNode
<1>5. ASSUME NEW m \in Nodes, StartSent(m) \/ SkillReturns(m) \/ DoneSent(m) \/ SaveWaitingRun(m)
      PROVE UNCHANGED dbNode
  BY <1>5 DEF StartSent, SkillReturns, DoneSent, SaveWaitingRun
<1>6. ASSUME NEW m \in Nodes, SaveDoneNode(m) PROVE RowChange(m)
  BY <1>6 DEF SaveDoneNode
<1>7. ASSUME NEW m \in Nodes, NodeFails(m) PROVE RowChange(m)
  BY <1>7 DEF NodeFails
<1>8. ASSUME NEW m \in Nodes, SkillAsks(m) PROVE RowChange(m)
  BY <1>8 DEF SkillAsks
<1>9. ASSUME NEW m \in Nodes, CancelNode(m) PROVE UNCHANGED dbNode \/ RowChange(m)
  BY <1>9 DEF CancelNode
<1>10. CASE UNCHANGED vars
  BY <1>10 DEF vars
<1>11. QED
  BY <1>1, <1>2, <1>3, <1>4, <1>5, <1>6, <1>7, <1>8, <1>9, <1>10
     DEF Next, DriverStep, NodeStep

\* What a row says of an ended node is final, except that a completion message
\* that raises turns done into failed.
THEOREM SettledRowsAreFinal == Spec => SettledIsFinal
<1>1. IInv /\ [Next]_vars =>
        [\A n \in Nodes : dbNode[n] \in TERMINAL_NODE_STATUSES =>
           \/ dbNode'[n] = dbNode[n]
           \/ EmitMayFail /\ dbNode[n] = "done" /\ dbNode'[n] = "failed"]_vars
  BY RowSteps DEF RowChange, IInv, TypeOK
<1>2. QED
  BY <1>1, Invariant, PTL DEF Spec, SettledIsFinal

\* Only resume() takes a waiting node's row back.
THEOREM WaitingRowsAreKept == Spec => WaitingIsKept
<1>1. IInv /\ [Next]_vars =>
        [\A n \in Nodes : dbNode[n] = "waiting" /\ pc # "resuming" => dbNode'[n] = "waiting"]_vars
  BY RowSteps DEF RowChange, IInv, TypeOK
<1>2. QED
  BY <1>1, Invariant, PTL DEF Spec, WaitingIsKept

-----------------------------------------------------------------------------
(***************************************************************************)
(* Questions to the user                                                   *)
(***************************************************************************)

LEMMA QuestionInit == Init => QuestionInv
  BY TurnAssumption DEF Init, QuestionInv, PassesAreApart, ErrorsShow, CancelOnlyForFailure,
                        QuestionMarksRun

\* The rows of failed and waiting nodes, of which the invariant speaks, stay.
LEMMA RowsStay ==
  ASSUME IInv, [Next]_vars, NEW n \in Nodes
  PROVE  /\ dbNode[n] = "failed" => dbNode'[n] = "failed"
         /\ dbNode[n] = "waiting" /\ pc # "resuming" => dbNode'[n] = "waiting"
  BY RowSteps DEF RowChange, IInv, TypeOK

LEMMA QuestionStep == IInv /\ QuestionInv /\ [Next]_vars => QuestionInv'
<1>. SUFFICES ASSUME IInv, QuestionInv, [Next]_vars PROVE QuestionInv'
  OBVIOUS
<1>. USE TurnAssumption, EmitAssumption, RowsStay
     DEF IInv, TypeOK, DriverAndTasks, AliveTasks, TaskStatusMatch, RowsFollow, SkipsAreDue,
         QuestionInv, PassesAreApart, ErrorsShow, CancelOnlyForFailure, QuestionMarksRun
\* No row exists yet, so none is waiting.
<1>1. CASE NewRun
  BY <1>1 DEF NewRun
<1>2. CASE ResumeLoad
  BY <1>2 DEF ResumeLoad
<1>3. CASE CancelRun
  BY <1>3 DEF CancelRun
<1>4. CASE Crash
  BY <1>4 DEF Crash
<1>5. CASE EnterRun
  BY <1>5 DEF EnterRun
<1>6. CASE BeginSkipPass
  BY <1>6 DEF BeginSkipPass
<1>7. CASE EndSkipPass
  BY <1>7 DEF EndSkipPass
<1>8. CASE Dispatch
  BY <1>8 DEF Dispatch
<1>9. CASE FinishRun
  BY <1>9 DEF FinishRun
<1>10. CASE WaitReturns
  BY <1>10 DEF WaitReturns, Raised, HasFailed
<1>11. CASE RaiseError
  BY <1>11 DEF RaiseError
\* Every waiting node has been put back, and its row with it.
<1>12. CASE ResumeSave
  BY <1>12 DEF ResumeSave
<1>13. ASSUME NEW m \in Nodes, ResetWaitingNode(m) PROVE QuestionInv'
  BY <1>13 DEF ResetWaitingNode
<1>14. ASSUME NEW m \in Nodes, SkipNode(m) PROVE QuestionInv'
  BY <1>14 DEF SkipNode
<1>15. ASSUME NEW m \in Nodes, StartNode(m) PROVE QuestionInv'
  BY <1>15 DEF StartNode
<1>16. ASSUME NEW m \in Nodes, StartSent(m) PROVE QuestionInv'
  BY <1>16 DEF StartSent
<1>17. ASSUME NEW m \in Nodes, SkillReturns(m) PROVE QuestionInv'
  BY <1>17 DEF SkillReturns
<1>18. ASSUME NEW m \in Nodes, SaveDoneNode(m) PROVE QuestionInv'
  BY <1>18 DEF SaveDoneNode
<1>19. ASSUME NEW m \in Nodes, DoneSent(m) PROVE QuestionInv'
  BY <1>19 DEF DoneSent
<1>20. ASSUME NEW m \in Nodes, NodeFails(m) PROVE QuestionInv'
  BY <1>20 DEF NodeFails
<1>21. ASSUME NEW m \in Nodes, SkillAsks(m) PROVE QuestionInv'
  BY <1>21 DEF SkillAsks
<1>22. ASSUME NEW m \in Nodes, SaveWaitingRun(m) PROVE QuestionInv'
  BY <1>22 DEF SaveWaitingRun
<1>23. ASSUME NEW m \in Nodes, CancelNode(m) PROVE QuestionInv'
  BY <1>23 DEF CancelNode
<1>24. CASE UNCHANGED vars
  BY <1>24 DEF vars
<1>25. QED
  BY <1>1, <1>2, <1>3, <1>4, <1>5, <1>6, <1>7, <1>8, <1>9, <1>10, <1>11, <1>12, <1>13,
     <1>14, <1>15, <1>16, <1>17, <1>18, <1>19, <1>20, <1>21, <1>22, <1>23, <1>24
     DEF Next, DriverStep, NodeStep

\* A sibling is cancelled only for a failure, never for a question; and when run() is over
\* with a question open, the run's row says so, or says failed.
THEOREM QuestionsAreHandled == Spec => []QuestionsHandled
<1>1. IInv /\ QuestionInv => QuestionsHandled
  BY TurnAssumption DEF IInv, DriverAndTasks, RunRowFollows, QuestionInv, QuestionMarksRun,
                        QuestionsHandled, WaitingRunAnnounced
<1>2. Spec => []QuestionInv
  BY Invariant, QuestionInit, QuestionStep, PTL DEF Spec
<1>3. QED
  BY <1>1, <1>2, Invariant, PTL

\* The executor implements TaskGraph: whoever reads the rows sees a task start
\* only after its parents, and end once.
THEOREM Refinement == Spec => ImplementsTaskGraph
<1>1. Init => Abstract!Init
  BY DEF Init, Abstract!Init, TaskStatus
<1>2. ASSUME IInv, [Next]_vars
      PROVE  [Abstract!Next]_([n \in Nodes |-> TaskStatus(dbNode[n])])
  <2>1. CASE UNCHANGED dbNode
    BY <2>1
  <2>2. ASSUME NEW n \in Nodes, RowChange(n)
        PROVE  [Abstract!Next]_([o \in Nodes |-> TaskStatus(dbNode[o])])
    <3>. DEFINE before == [o \in Nodes |-> TaskStatus(dbNode[o])]
                after  == [o \in Nodes |-> TaskStatus(dbNode'[o])]
    <3>1. dbNode \in [Nodes -> NodeStatus \cup {"absent"}] /\ get_parents(n) \subseteq Nodes
      BY <1>2, ParentsAreNodes DEF IInv, TypeOK
    <3>2. after = [before EXCEPT ![n] = TaskStatus(dbNode'[n])]
      BY <2>2 DEF RowChange
    <3>3. /\ before[n] = TaskStatus(dbNode[n])
          /\ \A p \in get_parents(n) : before[p] = TaskStatus(dbNode[p])
          /\ [o \in Nodes |-> get_parents(o)][n] = get_parents(n)
      BY <3>1
    <3>4. CASE dbNode[n] \in {"absent", "pending"} /\ dbNode'[n] = "running"
      <4>1. before[n] = "todo" /\ after = [before EXCEPT ![n] = "active"]
        BY <3>2, <3>3, <3>4 DEF TaskStatus
      <4>2. \A p \in get_parents(n) : before[p] \in Finished
        BY <2>2, <3>3, <3>4 DEF RowChange, TaskStatus
      <4>3. Abstract!Start(n)
        BY <3>3, <4>1, <4>2 DEF Abstract!Start, Abstract!Become, Abstract!Succeeded
      <4>4. QED
        BY <4>3 DEF Abstract!Next
    <3>5. CASE dbNode[n] \in {"absent", "pending"} /\ dbNode'[n] = "skipped"
      <4>1. before[n] = "todo" /\ after = [before EXCEPT ![n] = "skipped"]
        BY <3>2, <3>3, <3>5 DEF TaskStatus
      <4>2. get_parents(n) # {} /\ \A p \in get_parents(n) : before[p] \in TERMINAL_NODE_STATUSES
        BY <2>2, <3>3, <3>5 DEF RowChange, TaskStatus
      <4>3. Abstract!Skip(n)
        BY <3>3, <4>1, <4>2 DEF Abstract!Skip, Abstract!Become, Abstract!Ended
      <4>4. QED
        BY <4>3 DEF Abstract!Next
    <3>6. CASE /\ dbNode[n] \in {"running", "waiting"}
               /\ dbNode'[n] \in {"pending", "waiting", "done", "failed"}
      <4>1. before[n] = "active" /\ after = [before EXCEPT ![n] = TaskStatus(dbNode'[n])]
        BY <3>2, <3>3, <3>6 DEF TaskStatus
      <4>2. CASE dbNode'[n] = "waiting"
        <5>1. after = before
          BY <4>1, <4>2 DEF TaskStatus
        <5>2. QED
          BY <5>1
      <4>3. CASE dbNode'[n] = "pending"
        <5>1. Abstract!PutBack(n)
          BY <4>1, <4>3 DEF TaskStatus, Abstract!PutBack, Abstract!Become
        <5>2. QED
          BY <5>1 DEF Abstract!Next
      <4>4. CASE dbNode'[n] \in {"done", "failed"}
        <5>1. Abstract!End(n)
          BY <4>1, <4>4 DEF TaskStatus, Abstract!End, Abstract!Become
        <5>2. QED
          BY <5>1 DEF Abstract!Next
      <4>5. QED
        BY <3>6, <4>2, <4>3, <4>4
    <3>7. CASE EmitMayFail /\ dbNode[n] = "done" /\ dbNode'[n] = "failed"
      <4>1. before[n] = "done" /\ after = [before EXCEPT ![n] = "failed"]
        BY <3>2, <3>3, <3>7 DEF TaskStatus
      <4>2. Abstract!Retract(n)
        BY <3>7, <4>1 DEF Abstract!Retract, Abstract!Become
      <4>3. QED
        BY <4>2 DEF Abstract!Next
    <3>8. QED
      BY <2>2, <3>4, <3>5, <3>6, <3>7 DEF RowChange
  <2>3. QED
    BY <1>2, <2>1, <2>2, RowSteps
<1>3. QED
  BY <1>1, <1>2, Invariant, PTL DEF Spec, Abstract!Spec, ImplementsTaskGraph

-----------------------------------------------------------------------------
(* ValidateGraph.  The counters follow the edges that are left (VGInv), so *)
(* it is to be shown that nodes of which each has one before it are there  *)
(* exactly when there is a ring.                                           *)

\* Some number of the set is the least: a fact of well-founded sets, no induction.
LEMMA LeastNumber ==
  ASSUME NEW S \in SUBSET Nat, S # {}
  PROVE  \E m \in S : \A k \in S : m <= k
<1>1. PICK m \in S : \A k \in S : <<k, m>> \notin OpToRel(<, Nat)
  BY WFMin, NatLessThanWellFounded, Zenon
<1>2. \A k \in S : ~(k < m)
  BY <1>1, Zenon DEF OpToRel
<1>3. QED
  BY <1>2

\* The numbers up to m are m numbers.
LEMMA FirstNumbers ==
  ASSUME NEW m \in Nat
  PROVE  IsFiniteSet(1..m) /\ Cardinality(1..m) = m
<1>1. 1 \in Int /\ m \in Int
  OBVIOUS
<1>2. IsFiniteSet(1..m) /\ Cardinality(1..m) = IF 1 > m THEN 0 ELSE m - 1 + 1
  BY <1>1, FS_Interval
<1>3. QED
  BY <1>2

\* The edges of EdgesInto.
EdgeSet(F, t) == {e \in F \X (1..MaxCopies) : e[2] <= copies[e[1]][t]}

LEMMA EdgesAreFinite ==
  ASSUME NEW F \in SUBSET GraphNodes, NEW t
  PROVE  /\ IsFiniteSet(EdgeSet(F, t)) /\ EdgesInto(F, t) = Cardinality(EdgeSet(F, t))
         /\ EdgesInto(F, t) \in Nat
<1>1. IsFiniteSet(F) /\ IsFiniteSet(1..MaxCopies)
  BY GraphNodesAssumption, CopiesAssumption, FS_Subset, FS_Interval
<1>2. IsFiniteSet(F \X (1..MaxCopies))
  BY <1>1, FS_Product
<1>3. EdgeSet(F, t) \subseteq F \X (1..MaxCopies)
  BY DEF EdgeSet
<1>4. IsFiniteSet(EdgeSet(F, t))
  BY <1>2, <1>3, FS_Subset
<1>5. QED
  BY <1>4, FS_CardinalityType DEF EdgesInto, EdgeSet

\* No edge is counted exactly when there is none.
LEMMA NoEdges ==
  ASSUME copies \in [GraphNodes -> [GraphNodes -> 0..MaxCopies]],
         NEW F \in SUBSET GraphNodes, NEW t \in GraphNodes
  PROVE  EdgesInto(F, t) = 0 <=> \A f \in F : copies[f][t] = 0
<1>1. EdgesInto(F, t) = 0 <=> EdgeSet(F, t) = {}
  BY EdgesAreFinite, FS_EmptySet
<1>2. ASSUME NEW f \in F, copies[f][t] # 0 PROVE EdgeSet(F, t) # {}
  <2>1. copies[f][t] \in 0..MaxCopies
    OBVIOUS
  <2>2. 1 \in 1..MaxCopies /\ 1 <= copies[f][t]
    BY <1>2, <2>1, CopiesAssumption
  <2>3. <<f, 1>> \in EdgeSet(F, t)
    BY <2>2 DEF EdgeSet
  <2>4. QED
    BY <2>3
<1>3. ASSUME NEW e \in EdgeSet(F, t) PROVE e[1] \in F /\ copies[e[1]][t] # 0
  BY DEF EdgeSet
<1>4. QED
  BY <1>1, <1>2, <1>3

\* Without a node, its edges are not counted.
LEMMA EdgesOfTheRest ==
  ASSUME copies \in [GraphNodes -> [GraphNodes -> 0..MaxCopies]],
         NEW F \in SUBSET GraphNodes, NEW n \in F, NEW t \in GraphNodes
  PROVE  EdgesInto(F \ {n}, t) = EdgesInto(F, t) - copies[n][t]
<1> DEFINE own == EdgeSet({n}, t)
<1> PICK m : m = copies[n][t]
  OBVIOUS
<1>1. m \in 0..MaxCopies /\ m \in Nat /\ 1..m \subseteq 1..MaxCopies
  BY CopiesAssumption
<1>2. Cardinality(own) = m
  <2>1. \A k \in 1..MaxCopies : k <= m <=> k \in 1..m
    BY <1>1
  <2>2. own = {n} \X (1..m)
    <3>1. ASSUME NEW e \in own PROVE e \in {n} \X (1..m)
      BY <1>1, <2>1 DEF EdgeSet
    <3>2. ASSUME NEW e \in {n} \X (1..m) PROVE e \in own
      BY <1>1, <2>1 DEF EdgeSet
    <3>3. QED
      BY <3>1, <3>2
  <2> HIDE DEF own
  <2>3. IsFiniteSet({n}) /\ Cardinality({n}) = 1
    BY FS_Singleton
  <2>4. IsFiniteSet(1..m) /\ Cardinality(1..m) = m
    BY <1>1, FirstNumbers
  <2>5. Cardinality({n} \X (1..m)) = Cardinality({n}) * Cardinality(1..m)
    BY <2>3, <2>4, FS_Product, Zenon
  <2>6. QED
    BY <1>1, <2>2, <2>3, <2>4, <2>5
<1>3. EdgeSet(F \ {n}, t) = EdgeSet(F, t) \ own
  BY DEF EdgeSet
<1>4. EdgeSet(F, t) \cap own = own
  BY DEF EdgeSet
<1>5. Cardinality(EdgeSet(F, t) \ own) = Cardinality(EdgeSet(F, t)) - Cardinality(EdgeSet(F, t) \cap own)
  BY EdgesAreFinite, FS_Difference
<1>6. F \ {n} \in SUBSET GraphNodes
  OBVIOUS
<1>7. QED
  BY <1>2, <1>3, <1>4, <1>5, <1>6, EdgesAreFinite

\* A walk against the edges through k different nodes.
IsWalk(q, k) ==
  /\ \A i, j \in 1..k : q[i] = q[j] => i = j
  /\ \A i \in 1..(k - 1) : copies[q[i + 1]][q[i]] > 0

\* Nodes of which each has one of them before it form a ring somewhere: the longest
\* walk through them comes back to itself.
LEMMA RingWithin ==
  ASSUME NEW S \in SUBSET GraphNodes, S # {},
         \A t \in S : \E f \in S : copies[f][t] > 0
  PROVE  ~Acyclic
<1> DEFINE N == Cardinality(GraphNodes)
           lengths == {k \in 1..N : \E q \in [1..k -> S] : IsWalk(q, k)}
           short == {N - k : k \in lengths}
<1>1. N \in Nat /\ N >= 1
  <2>1. N \in Nat /\ N # 0
    BY GraphNodesAssumption, FS_CardinalityType, FS_EmptySet
  <2>2. QED
    BY <2>1
<1> HIDE DEF N
<1>2. 1 \in lengths
  <2>1. PICK x \in S : TRUE
    OBVIOUS
  <2>2. IsWalk([i \in 1..1 |-> x], 1)
    BY DEF IsWalk
  <2>3. QED
    BY <1>1, <2>2
<1>3. PICK k \in lengths : \A l \in lengths : l <= k
  <2>1. short \in SUBSET Nat /\ short # {}
    <3>1. \A k \in lengths : N - k \in Nat
      BY <1>1
    <3> HIDE DEF lengths
    <3>2. QED
      BY <1>2, <3>1
  <2>2. PICK d \in short : \A e \in short : d <= e
    BY <2>1, LeastNumber
  <2>3. PICK k \in lengths : d = N - k
    <3> HIDE DEF lengths
    <3> QED
      BY <2>2
  <2>4. ASSUME NEW l \in lengths PROVE l <= k
    <3>1. N - k <= N - l
      BY <2>2, <2>3
    <3>2. QED
      BY <1>1, <3>1
  <2>5. QED
    BY <2>4
<1>4. k \in 1..N /\ k \in Nat
  BY <1>1
<1>5. PICK q \in [1..k -> S] : IsWalk(q, k)
  BY <1>3
<1>6. PICK y \in S : copies[y][q[k]] > 0
  BY <1>4
<1>7. \E j \in 1..k : q[j] = y
  <2> SUFFICES ASSUME \A j \in 1..k : q[j] # y PROVE FALSE
    OBVIOUS
  <2>1. PICK r : r = [i \in 1..(k + 1) |-> IF i = k + 1 THEN y ELSE q[i]]
    OBVIOUS
  <2>2. r \in [1..(k + 1) -> S]
    BY <1>4, <2>1
  <2>3. \A i \in 1..k : r[i] = q[i] /\ i \in 1..(k + 1)
    BY <1>4, <2>1
  <2>4. r[k + 1] = y
    BY <1>4, <2>1
  <2>5. \A i \in 1..(k + 1) : i \in 1..k \/ i = k + 1
    BY <1>4
  <2>6. ASSUME NEW i \in 1..(k + 1), NEW j \in 1..(k + 1), r[i] = r[j] PROVE i = j
    BY <1>5, <2>3, <2>4, <2>5, <2>6 DEF IsWalk
  <2>7. ASSUME NEW i \in 1..k PROVE copies[r[i + 1]][r[i]] > 0
    <3>1. CASE i = k
      BY <1>6, <2>3, <2>4, <3>1
    <3>2. CASE i # k
      <4>1. i \in 1..(k - 1) /\ i + 1 \in 1..k
        BY <1>4, <3>2
      <4>2. QED
        BY <1>5, <2>3, <4>1 DEF IsWalk
    <3>3. QED
      BY <3>1, <3>2
  <2>8. (k + 1) - 1 = k
    BY <1>4
  <2>9. IsWalk(r, k + 1)
    BY <2>6, <2>7, <2>8 DEF IsWalk
  <2>10. k + 1 <= N
    <3>1. r \in Injection(1..(k + 1), GraphNodes)
      <4>1. r \in [1..(k + 1) -> GraphNodes]
        BY <2>2
      <4>2. QED
        BY <2>6, <4>1 DEF Injection, IsInjective
    <3>2. Cardinality(1..(k + 1)) <= N
      BY <3>1, FS_Injection, GraphNodesAssumption, Zenon DEF N
    <3>3. Cardinality(1..(k + 1)) = k + 1
      <4> k + 1 \in Nat
        BY <1>4
      <4> QED
        BY FirstNumbers
    <3>4. QED
      BY <3>2, <3>3
  <2>11. k + 1 \in lengths
    BY <1>1, <1>4, <2>2, <2>9, <2>10
  <2>12. QED
    BY <1>3, <1>4, <2>11
<1>8. PICK j \in 1..k : q[j] = y
  BY <1>7
<1>9. PICK m : m = k - j + 1
  OBVIOUS
<1>10. m \in 1..N /\ m \in 1..k /\ j \in Nat /\ j <= k
  BY <1>4, <1>9, <1>1
<1>11. PICK p : p = [i \in 1..m |-> q[k + 1 - i]]
  OBVIOUS
<1>12. \A i \in 1..m : k + 1 - i \in 1..k
  BY <1>4, <1>10
<1>13. p \in [1..m -> GraphNodes]
  BY <1>11, <1>12
<1>14. ASSUME NEW i \in 1..m PROVE copies[p[i]][p[IF i = m THEN 1 ELSE i + 1]] > 0
  <2>1. CASE i = m
    <3>1. 1 \in 1..m /\ k + 1 - i = j /\ k + 1 - 1 = k
      BY <1>4, <1>9, <1>10, <2>1
    <3>2. p[i] = y /\ p[1] = q[k]
      BY <1>8, <1>11, <3>1
    <3>3. QED
      BY <1>6, <2>1, <3>2
  <2>2. CASE i # m
    <3>1. PICK l : l = k - i
      OBVIOUS
    <3>2. l \in 1..(k - 1) /\ i + 1 \in 1..m /\ k + 1 - i = l + 1 /\ k + 1 - (i + 1) = l
      BY <1>4, <1>9, <1>10, <2>2, <3>1
    <3>3. p[i] = q[l + 1] /\ p[i + 1] = q[l]
      BY <1>11, <3>2
    <3>4. QED
      BY <1>5, <2>2, <3>2, <3>3 DEF IsWalk
  <2>3. QED
    BY <2>1, <2>2
<1>15. IsRing(p, m)
  BY <1>14 DEF IsRing
<1>16. QED
  BY <1>10, <1>13, <1>15 DEF Acyclic, N

\* The nodes of a ring all have one of them before it.
LEMMA NoRingWithin ==
  ASSUME copies \in [GraphNodes -> [GraphNodes -> 0..MaxCopies]],
         \A S \in SUBSET GraphNodes : S # {} => \E t \in S : \A f \in S : copies[f][t] = 0
  PROVE  Acyclic
<1> SUFFICES ASSUME NEW k \in 1..Cardinality(GraphNodes), NEW p \in [1..k -> GraphNodes],
                    IsRing(p, k)
             PROVE  FALSE
  BY DEF Acyclic
<1>1. k \in Nat /\ k >= 1
  BY GraphNodesAssumption, FS_CardinalityType
<1> DEFINE S == {p[i] : i \in 1..k}
<1>2. S \in SUBSET GraphNodes /\ S # {}
  BY <1>1
<1>3. PICK i \in 1..k : \A f \in S : copies[f][p[i]] = 0
  BY <1>2
<1>4. PICK j \in 1..k : i = IF j = k THEN 1 ELSE j + 1
  <2>1. CASE i = 1
    <3> k \in 1..k
      BY <1>1
    <3> QED
      BY <2>1
  <2>2. CASE i # 1
    <3>1. i - 1 \in 1..k /\ i - 1 # k /\ i = (i - 1) + 1
      BY <1>1, <2>2
    <3> QED
      BY <3>1
  <2>3. QED
    BY <2>1, <2>2
<1>5. copies[p[j]][p[i]] > 0
  BY <1>4 DEF IsRing
<1>6. copies[p[j]][p[i]] = 0
  BY <1>3
<1>7. QED
  BY <1>5, <1>6

-----------------------------------------------------------------------------
(* The algorithm.                                                          *)

LEMMA VGInitEstablishes ==
  VGInit => VGInv
<1> SUFFICES ASSUME VGInit PROVE VGInv
  OBVIOUS
<1>1. copies \in [GraphNodes -> [GraphNodes -> 0..MaxCopies]] /\ popped = {}
  BY DEF VGInit
<1>2. CountsAreCurrent
  <2>1. GraphNodes \ popped = GraphNodes
    BY <1>1
  <2>2. QED
    BY <2>1 DEF VGInit, CountsAreCurrent
<1>3. PoppedAreSorted
  BY <1>1 DEF PoppedAreSorted
<1>4. (verdict # "invalid" => ~unknown) /\ AcceptsExactlyDags
  BY DEF VGInit, AcceptsExactlyDags
<1>5. QED
  BY <1>1, <1>2, <1>3, <1>4 DEF VGInv

LEMMA PopKeeps ==
  ASSUME VGInv, NEW n \in GraphNodes, Pop(n)
  PROVE  VGInv'
<1> DEFINE rest == GraphNodes \ popped
<1>1. /\ copies \in [GraphNodes -> [GraphNodes -> 0..MaxCopies]] /\ popped \subseteq GraphNodes
      /\ n \in rest /\ indegree[n] = 0
      /\ indegree = [t \in GraphNodes |-> EdgesInto(rest, t)]
      /\ queue = {t \in rest : indegree[t] = 0}
  BY DEF VGInv, CountsAreCurrent, Pop
<1>2. /\ copies' = copies /\ unknown' = unknown /\ verdict' = verdict /\ verdict = "none"
      /\ popped' = popped \cup {n} /\ GraphNodes \ popped' = rest \ {n}
      /\ indegree' = [c \in GraphNodes |-> indegree[c] - copies[n][c]]
      /\ queue' = (queue \ {n}) \cup {c \in GraphNodes : copies[n][c] > 0 /\ indegree'[c] = 0}
  BY DEF Pop
<1> HIDE DEF rest
<1>3. rest \in SUBSET GraphNodes /\ rest \ {n} \in SUBSET GraphNodes
  BY DEF rest
<1>4. \A t \in GraphNodes : /\ indegree[t] \in Nat /\ copies[n][t] \in Nat
                            /\ indegree'[t] = EdgesInto(rest \ {n}, t)
                            /\ indegree'[t] = indegree[t] - copies[n][t]
  <2> SUFFICES ASSUME NEW t \in GraphNodes
               PROVE  /\ indegree[t] \in Nat /\ copies[n][t] \in Nat
                      /\ indegree'[t] = EdgesInto(rest \ {n}, t)
                      /\ indegree'[t] = indegree[t] - copies[n][t]
    OBVIOUS
  <2>1. indegree[t] = EdgesInto(rest, t) /\ indegree'[t] = indegree[t] - copies[n][t]
    BY <1>1, <1>2
  <2>2. copies[n][t] \in 0..MaxCopies
    BY <1>1
  <2>3. copies[n][t] \in Nat
    BY <2>2, CopiesAssumption
  <2>4. EdgesInto(rest \ {n}, t) = EdgesInto(rest, t) - copies[n][t]
    BY <1>1, <1>3, EdgesOfTheRest
  <2>5. EdgesInto(rest, t) \in Nat
    BY <1>3, EdgesAreFinite
  <2>6. QED
    BY <2>1, <2>3, <2>4, <2>5
\* No node that is left comes before n.
<1>5. \A f \in rest : copies[f][n] = 0
  <2>1. EdgesInto(rest, n) = 0
    BY <1>1
  <2>2. QED
    BY <1>1, <1>3, <2>1, NoEdges
<1>6. CountsAreCurrent'
  <2>1. indegree' = [t \in GraphNodes |-> EdgesInto(rest \ {n}, t)]
    BY <1>2, <1>4
  <2>2. ASSUME NEW c PROVE c \in queue' <=> c \in rest \ {n} /\ indegree'[c] = 0
    <3>1. CASE c \in rest /\ c # n
      <4>1. c \in GraphNodes /\ indegree[c] \in Nat /\ copies[n][c] \in Nat
        BY <1>3, <1>4, <3>1
      <4>2. indegree'[c] = indegree[c] - copies[n][c] /\ indegree'[c] = EdgesInto(rest \ {n}, c)
        BY <1>4, <4>1
      <4>3. indegree'[c] \in Nat
        BY <1>3, <4>2, EdgesAreFinite
      <4>4. indegree'[c] = 0 => indegree[c] = 0 \/ copies[n][c] > 0
        BY <4>1, <4>2
      <4>5. indegree[c] = 0 => indegree'[c] = 0
        BY <4>1, <4>2, <4>3
      <4>6. c \in queue <=> indegree[c] = 0
        BY <1>1, <3>1
      <4>7. c \in queue' <=> c \in queue \/ (copies[n][c] > 0 /\ indegree'[c] = 0)
        BY <1>2, <3>1, <4>1
      <4>8. QED
        BY <3>1, <4>4, <4>5, <4>6, <4>7
    <3>2. CASE c = n
      <4>1. copies[n][n] = 0
        BY <1>1, <1>5
      <4>2. QED
        BY <1>2, <3>2, <4>1
    <3>3. CASE c \notin rest
      <4>1. c \notin queue
        BY <1>1, <3>3
      <4>2. ASSUME c \in GraphNodes PROVE copies[n][c] = 0
        <5>1. c \in popped
          BY <3>3, <4>2 DEF rest
        <5>2. \A f \in GraphNodes : copies[f][c] > 0 => f \in popped
          BY <5>1 DEF VGInv, PoppedAreSorted
        <5>3. n \notin popped
          BY <1>1 DEF rest
        <5>4. copies[n][c] \in Nat /\ ~(copies[n][c] > 0)
          BY <1>4, <4>2, <5>2, <5>3
        <5>5. QED
          BY <5>4
      <4>3. ~(c \in GraphNodes /\ copies[n][c] > 0)
        BY <4>2
      <4>4. QED
        BY <1>2, <3>3, <4>1, <4>3
    <3>4. QED
      BY <3>1, <3>2, <3>3
  <2>3. queue' = {t \in rest \ {n} : indegree'[t] = 0}
    BY <2>2
  <2>4. (GraphNodes \ popped)' = rest \ {n}
    BY <1>2
  <2>5. \A F, t : EdgesInto(F, t)' = EdgesInto(F, t)
    BY <1>2 DEF EdgesInto
  <2>6. QED
    BY <2>1, <2>3, <2>4, <2>5, <1>2 DEF CountsAreCurrent, EdgesInto
<1>7. PoppedAreSorted'
  <2>1. ASSUME NEW t \in popped', NEW f \in GraphNodes, copies[f][t] > 0 PROVE f \in popped'
    <3>1. CASE t \in popped
      BY <1>2, <2>1, <3>1 DEF VGInv, PoppedAreSorted
    <3>2. CASE t = n
      <4>1. f \notin rest
        BY <1>5, <2>1, <3>2
      <4>2. QED
        BY <1>2, <4>1 DEF rest
    <3>3. QED
      BY <1>2, <3>1, <3>2
  <2>2. ASSUME NEW S \in SUBSET (popped'), S # {}
        PROVE  \E t \in S : \A f \in S : copies[f][t] = 0
    <3>1. CASE S \ {n} = {}
      <4>1. S = {n} /\ copies[n][n] = 0
        BY <1>1, <1>5, <2>2, <3>1
      <4>2. QED
        BY <4>1
    <3>2. CASE S \ {n} # {}
      <4>1. S \ {n} \in SUBSET popped
        BY <1>2
      <4>2. PICK t \in S \ {n} : \A f \in S \ {n} : copies[f][t] = 0
        BY <3>2, <4>1 DEF VGInv, PoppedAreSorted
      <4>3. t \in popped /\ t \in GraphNodes
        BY <1>1, <4>1
      <4>4. \A f \in GraphNodes : copies[f][t] > 0 => f \in popped
        BY <4>3 DEF VGInv, PoppedAreSorted
      <4>5. n \notin popped
        BY <1>1 DEF rest
      <4>6. copies[n][t] \in Nat /\ ~(copies[n][t] > 0)
        BY <1>4, <4>3, <4>4, <4>5
      <4>7. copies[n][t] = 0
        BY <4>6
      <4>8. QED
        BY <4>2, <4>7
    <3>3. QED
      BY <3>1, <3>2
  <2>3. QED
    BY <1>2, <2>1, <2>2 DEF PoppedAreSorted
<1>8. AcceptsExactlyDags' /\ (verdict # "invalid" => ~unknown)'
  BY <1>2 DEF VGInv, AcceptsExactlyDags
<1>9. popped' \subseteq GraphNodes
  BY <1>1, <1>2
<1>10. QED
  BY <1>1, <1>2, <1>6, <1>7, <1>8, <1>9 DEF VGInv

LEMMA DecideKeeps ==
  ASSUME VGInv, Decide
  PROVE  VGInv'
<1>1. /\ copies \in [GraphNodes -> [GraphNodes -> 0..MaxCopies]] /\ popped \subseteq GraphNodes
      /\ indegree = [t \in GraphNodes |-> EdgesInto(GraphNodes \ popped, t)]
      /\ {t \in GraphNodes \ popped : indegree[t] = 0} = {}
      /\ verdict = "none" /\ ~unknown
  BY DEF VGInv, CountsAreCurrent, Decide
<1>2. /\ copies' = copies /\ unknown' = unknown /\ popped' = popped
      /\ indegree' = indegree /\ queue' = queue
      /\ verdict' = IF Cardinality(popped) = Cardinality(GraphNodes) THEN "dag" ELSE "invalid"
  BY DEF Decide
<1>3. Acyclic' = Acyclic /\ CountsAreCurrent' /\ PoppedAreSorted'
  BY <1>2 DEF VGInv, CountsAreCurrent, PoppedAreSorted, EdgesInto, Acyclic, IsRing
<1>4. CASE popped = GraphNodes
  <2>1. \A S \in SUBSET GraphNodes : S # {} => \E t \in S : \A f \in S : copies[f][t] = 0
    BY <1>4 DEF VGInv, PoppedAreSorted
  <2>2. Acyclic
    BY <1>1, <2>1, NoRingWithin
  <2>3. verdict' = "dag"
    BY <1>2, <1>4
  <2>4. QED
    BY <1>1, <1>2, <2>2, <1>3, <2>3 DEF VGInv, AcceptsExactlyDags
<1>5. CASE popped # GraphNodes
  <2>1. PICK S : S = GraphNodes \ popped
    OBVIOUS
  <2>2. S \in SUBSET GraphNodes /\ S # {}
    BY <1>1, <1>5, <2>1
  <2>3. ASSUME NEW t \in S PROVE \E f \in S : copies[f][t] > 0
    <3>1. t \in GraphNodes /\ indegree[t] = EdgesInto(S, t) /\ indegree[t] # 0
      BY <1>1, <2>1, <2>2
    <3>2. PICK f \in S : copies[f][t] # 0
      BY <1>1, <2>2, <3>1, NoEdges
    <3>3. copies[f][t] \in 0..MaxCopies
      BY <1>1, <2>2, <3>1
    <3>4. QED
      BY <3>2, <3>3, CopiesAssumption
  <2>4. ~Acyclic
    BY <2>2, <2>3, RingWithin
  <2>5. Cardinality(popped) # Cardinality(GraphNodes)
    BY <1>1, <1>5, GraphNodesAssumption, FS_Subset
  <2>6. verdict' = "invalid"
    BY <1>2, <2>5
  <2>7. QED
    BY <1>2, <2>4, <1>3, <2>6 DEF VGInv, AcceptsExactlyDags
<1>6. QED
  BY <1>4, <1>5

\* validate_graph accepts exactly the graphs whose edges name their nodes and form no
\* cycle, whatever edges are repeated and in whatever order the deque is worked off.
THEOREM GraphsAreValidated == VGSpec => []AcceptsExactlyDags
<1>1. VGInit => VGInv
  BY VGInitEstablishes
<1>2. VGInv /\ [VGNext]_vgVars => VGInv'
  <2> SUFFICES ASSUME VGInv, [VGNext]_vgVars PROVE VGInv'
    OBVIOUS
  <2>1. CASE VGNext
    BY <2>1, PopKeeps, DecideKeeps DEF VGNext
  <2>2. CASE UNCHANGED vgVars
    BY <2>2 DEF VGInv, CountsAreCurrent, PoppedAreSorted, AcceptsExactlyDags,
                EdgesInto, Acyclic, IsRing, vgVars
  <2>3. QED
    BY <2>1, <2>2
<1>3. VGInv => AcceptsExactlyDags
  BY DEF VGInv
<1>4. QED
  BY <1>1, <1>2, <1>3, PTL DEF VGSpec
=============================================================================
