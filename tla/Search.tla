------------------------------- MODULE Search -------------------------------
(***************************************************************************)
(* What a graph search promises: starting from one node it visits nodes it *)
(* knows of, each of them once, in an order of its own choosing, and when  *)
(* it finishes without an error nothing it knows of is left.  The block    *)
(* worklist of the type checker (CfgReducer) and the call graph of a build *)
(* (Build) implement it.                                                   *)
(***************************************************************************)
CONSTANTS Node, Start

VARIABLES succ,     \* the graph: the successors of a node
          visited,  \* nodes the search has visited
          frontier, \* nodes it knows of and has not visited
          outcome   \* "running", "done", or "failed" after an error

vars == <<succ, visited, frontier, outcome>>

Init ==
  /\ succ \in [Node -> SUBSET Node]
  /\ visited = {}
  /\ frontier = {Start}
  /\ outcome = "running"

Visit(b) ==
  /\ outcome = "running"
  /\ b \in frontier
  /\ visited' = visited \cup {b}
  /\ frontier' = (frontier \cup succ[b]) \ visited'
  /\ UNCHANGED <<succ, outcome>>

Fail ==
  /\ outcome = "running"
  /\ outcome' = "failed"
  /\ UNCHANGED <<succ, visited, frontier>>

Finish ==
  /\ outcome = "running"
  /\ frontier = {}
  /\ outcome' = "done"
  /\ UNCHANGED <<succ, visited, frontier>>

Next == (\E b \in Node : Visit(b)) \/ Fail \/ Finish

Spec == Init /\ [][Next]_vars
=============================================================================
