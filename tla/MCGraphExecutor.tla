--------------------------- MODULE MCGraphExecutor ---------------------------
(***************************************************************************)
(* Small graphs for TLC.                                                   *)
(***************************************************************************)
EXTENDS GraphExecutor, TLC

CONSTANTS s, a, b, d,    \* nodes
          k, m,          \* keys
          v, w           \* values

Edge(from, to)          == [from |-> from, to |-> to, cond |-> NoCond]
CondEdge(from, to, key) == [from |-> from, to |-> to, cond |-> [key |-> key, val |-> v]]

\* s, then a (when k = v) beside b, then d (for a when m = v, for b when k = v).
\* s and b write k, a writes m.
DiamondNodes  == {s, a, b, d}
DiamondEdges  == {CondEdge(s, a, k), Edge(s, b), CondEdge(a, d, m), CondEdge(b, d, k)}
DiamondWrites == s :> {k} @@ a :> {m} @@ b :> {k} @@ d :> {}
=============================================================================
