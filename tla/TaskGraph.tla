------------------------------ MODULE TaskGraph ------------------------------
(***************************************************************************)
(* What the durable rows of a graph run promise whoever reads them: a task *)
(* becomes active only after all its parents are done or skipped, only an  *)
(* active task is put back or ends, and an ended task stays ended.         *)
(***************************************************************************)
CONSTANTS
  Tasks,        \* the nodes of the graph
  Parents,      \* Parents[t]: the set of tasks with an edge to t
  MayRetract    \* TRUE: the report of a done task may still turn it into failed

VARIABLE status

Ended     == {"done", "skipped", "failed"}
Succeeded == {"done", "skipped"}

Init == status = [t \in Tasks |-> "todo"]

Become(t, new) == status' = [status EXCEPT ![t] = new]

Start(t) ==
  /\ status[t] = "todo"
  /\ \A p \in Parents[t] : status[p] \in Succeeded
  /\ Become(t, "active")

Skip(t) ==
  /\ status[t] = "todo"
  /\ Parents[t] # {} /\ \A p \in Parents[t] : status[p] \in Ended
  /\ Become(t, "skipped")

\* Cancelled, or resumed after the user answered.
PutBack(t) == status[t] = "active" /\ Become(t, "todo")

End(t) == status[t] = "active" /\ \E new \in {"done", "failed"} : Become(t, new)

Retract(t) == MayRetract /\ status[t] = "done" /\ Become(t, "failed")

Next == \E t \in Tasks : Start(t) \/ Skip(t) \/ PutBack(t) \/ End(t) \/ Retract(t)

Spec == Init /\ [][Next]_status
=============================================================================
