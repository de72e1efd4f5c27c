---------------------------- MODULE GraphSchedule ----------------------------
(***************************************************************************)
(* The pure scheduling rules of a skill graph (graph/scheduler.py,         *)
(* graph/condition.py, graph/models.py): which nodes of a run may start    *)
(* and which are skipped, given the status of every node and the run's     *)
(* shared state.                                                           *)
(*                                                                         *)
(* A node that the executor skips has status "done" and the output         *)
(* {"status": "skipped"}; the model writes that pair as the one status     *)
(* "skipped".                                                              *)
(***************************************************************************)
EXTENDS Naturals

CONSTANTS
  Nodes,      \* the ids of graph.nodes
  Edges,      \* graph.edges, records [from, to, cond]
  Keys,       \* the keys of run.state a condition or a skill mentions
  Vals,       \* the values a key may hold
  NoCond,     \* an edge without a condition
  Absent      \* the value of a key that is not in run.state

Conditions == {NoCond} \cup [key : Keys, val : Vals]

\* load_graph_data builds a Graph whose edges join nodes of the graph.
ASSUME EdgesAssumption == Edges \subseteq [from : Nodes, to : Nodes, cond : Conditions]

\* A key that is missing is distinguishable from every value it may have.
ASSUME AbsentAssumption == Absent \notin Vals

\* An edge without a condition is no "state.key == val" comparison.
ASSUME NoCondAssumption == NoCond \notin [key : Keys, val : Vals]

NodeStatus == {"pending", "running", "waiting", "done", "skipped", "failed"}
Finished   == {"done", "skipped"}              \* Node.status = "done"
TERMINAL_NODE_STATUSES == Finished \cup {"failed"}

RunStates == [Keys -> Vals \cup {Absent}]

get_incoming_edges(n) == {e \in Edges : e.to = n}
get_parents(n)        == {e.from : e \in get_incoming_edges(n)}

(***************************************************************************)
(* Conditions compare a key of the state with a constant; a missing key    *)
(* raises inside the evaluator and counts as FALSE.                        *)
(***************************************************************************)
eval_condition(cond, st) == cond = NoCond \/ st[cond.key] = cond.val

ActiveEdges(n, st) == {e \in get_incoming_edges(n) : eval_condition(e.cond, st)}

(***************************************************************************)
(* A pending node is ready when it has no incoming edge, or when every     *)
(* parent is terminal, none has failed and some active edge leads to it.   *)
(***************************************************************************)
ParentsTerminal_Any(stat, n) ==               \* planted error: any() for all()
  \E p \in get_parents(n) : stat[p] \in TERMINAL_NODE_STATUSES

ParentsTerminal(stat, n) == \A p \in get_parents(n) : stat[p] \in TERMINAL_NODE_STATUSES

Ready_FailedParent(stat, st, n) ==            \* planted error: a failed parent does not stop it
  /\ stat[n] = "pending"
  /\ \/ get_incoming_edges(n) = {}
     \/ /\ ParentsTerminal(stat, n) /\ ActiveEdges(n, st) # {}
        /\ \A e \in ActiveEdges(n, st) : stat[e.from] \in Finished

Ready(stat, st, n) ==
  /\ stat[n] = "pending"
  /\ \/ get_incoming_edges(n) = {}
     \/ /\ \A p \in get_parents(n) : stat[p] # "failed"
        /\ ParentsTerminal(stat, n)
        /\ ActiveEdges(n, st) # {}
        /\ \A e \in ActiveEdges(n, st) : stat[e.from] \in Finished

get_ready_nodes(stat, st) == {n \in Nodes : Ready(stat, st, n)}

(***************************************************************************)
(* A pending node is skippable when it has incoming edges, every parent is *)
(* terminal and no incoming edge is active.                                *)
(***************************************************************************)
Skippable(stat, st, n) ==
  /\ stat[n] = "pending"
  /\ get_incoming_edges(n) # {}
  /\ ParentsTerminal(stat, n)
  /\ ActiveEdges(n, st) = {}

get_skippable_nodes(stat, st) == {n \in Nodes : Skippable(stat, st, n)}
=============================================================================
