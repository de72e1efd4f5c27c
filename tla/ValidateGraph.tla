---------------------------- MODULE ValidateGraph ----------------------------
(***************************************************************************)
(* validate_graph (graph/scheduler.py), called before every graph run:     *)
(* Kahn's algorithm over an edge list that may repeat an edge, loop, or    *)
(* name a node that the graph does not have.                               *)
(*                                                                         *)
(* The loop over the edges gives the first indegrees; the loop over the    *)
(* deque is the state machine.  The order of the deque is left open: any   *)
(* queued node may be popped next.                                         *)
(***************************************************************************)
EXTENDS Integers, FiniteSets

CONSTANTS
  GraphNodes,  \* graph.nodes
  MaxCopies    \* bound: how often one edge may be listed

ASSUME GraphNodesAssumption == IsFiniteSet(GraphNodes) /\ GraphNodes # {}
ASSUME CopiesAssumption     == MaxCopies \in Nat

VARIABLES
  copies,     \* copies[f][t]: how often the edge list has the edge f -> t
  unknown,    \* some edge names a node that the graph does not have
  indegree,   \* the counter of each node
  queue,      \* the nodes in the deque
  popped,     \* the nodes that left it; the code counts them in `visited`
  verdict     \* "none" while the loop runs, then "dag" or "invalid"

vgVars == <<copies, unknown, indegree, queue, popped, verdict>>

\* How many listed edges lead from the nodes of F to t: the k-th from f is <<f, k>>.
EdgesInto(F, t) == Cardinality({e \in F \X (1..MaxCopies) : e[2] <= copies[e[1]][t]})

VGInit ==
  /\ copies \in [GraphNodes -> [GraphNodes -> 0..MaxCopies]] /\ unknown \in BOOLEAN
  /\ indegree = [t \in GraphNodes |-> EdgesInto(GraphNodes, t)]
  /\ queue = {t \in GraphNodes : indegree[t] = 0}
  /\ popped = {}
  /\ verdict = IF unknown THEN "invalid" ELSE "none"

\* A child listed twice is counted down twice.
Pop(n) ==
  /\ verdict = "none" /\ n \in queue
  /\ indegree' = [c \in GraphNodes |-> indegree[c] - copies[n][c]]
  /\ popped' = popped \cup {n}
  /\ queue' = (queue \ {n}) \cup {c \in GraphNodes : copies[n][c] > 0 /\ indegree'[c] = 0}
  /\ UNCHANGED <<copies, unknown, verdict>>

Decide_LastLevel ==         \* planted error: the graph is accepted when the deque is empty
  /\ verdict = "none" /\ queue = {}
  /\ verdict' = IF popped = {} THEN "invalid" ELSE "dag"
  /\ UNCHANGED <<copies, unknown, indegree, queue, popped>>

Decide ==
  /\ verdict = "none" /\ queue = {}
  /\ verdict' = IF Cardinality(popped) = Cardinality(GraphNodes) THEN "dag" ELSE "invalid"
  /\ UNCHANGED <<copies, unknown, indegree, queue, popped>>

VGNext == (\E n \in GraphNodes : Pop(n)) \/ Decide

VGSpec == VGInit /\ [][VGNext]_vgVars

-----------------------------------------------------------------------------
\* Reference: no ring of nodes has an edge from each to the next.
IsRing(p, k) == \A i \in 1..k : copies[p[i]][p[IF i = k THEN 1 ELSE i + 1]] > 0

Acyclic == \A k \in 1..Cardinality(GraphNodes) : \A p \in [1..k -> GraphNodes] : ~IsRing(p, k)

\* validate_graph accepts a graph exactly when its edges name nodes of the graph
\* and form no cycle.
AcceptsExactlyDags ==
  /\ verdict = "dag"     => Acyclic /\ ~unknown
  /\ verdict = "invalid" => ~Acyclic \/ unknown

-----------------------------------------------------------------------------
(* The inductive invariant of AcceptsExactlyDags (see GraphProofs).         *)

\* The edges that are left are those of the nodes that are left, and the deque
\* has the nodes to which none leads.
CountsAreCurrent ==
  /\ indegree = [t \in GraphNodes |-> EdgesInto(GraphNodes \ popped, t)]
  /\ queue = {t \in GraphNodes \ popped : indegree[t] = 0}

\* Edges to a node that left the deque come from such nodes only; and in every set of
\* those, some node has no edge from the set.
PoppedAreSorted ==
  /\ \A t \in popped, f \in GraphNodes : copies[f][t] > 0 => f \in popped
  /\ \A S \in SUBSET popped : S # {} => \E t \in S : \A f \in S : copies[f][t] = 0

VGInv ==
  /\ copies \in [GraphNodes -> [GraphNodes -> 0..MaxCopies]]
  /\ popped \subseteq GraphNodes
  /\ verdict # "invalid" => ~unknown
  /\ CountsAreCurrent /\ PoppedAreSorted /\ AcceptsExactlyDags
=============================================================================
