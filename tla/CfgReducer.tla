----------------------------- MODULE CfgReducer -----------------------------
(***************************************************************************)
(* CFGReducer::visit: the loop that drives the type checker over the basic *)
(* blocks of a function (typeck/cfg_reducer.rs), with visit_block of the   *)
(* TypingMachine as its body.                                              *)
(*                                                                         *)
(* Both the list of blocks already processed and the queue of blocks still *)
(* to analyse are kept sorted and probed with binary_search.  What a block *)
(* contains is left out; visit_block either types it and returns the       *)
(* targets of its outgoing edges, or reports errors, or fails.             *)
(***************************************************************************)
EXTENDS Naturals, SequencesExt

CONSTANTS NBlocks, \* number of blocks of the function
          CFGs     \* the flow graphs considered: targets of the edges of a block

Block == 0 .. (NBlocks - 1)
Entry == 0  \* the first node that new_from_blocks appends

ASSUME BlockAssumption == NBlocks \in Nat \ {0}
ASSUME GraphAssumption == CFGs \subseteq [Block -> Seq(Block)]

VARIABLES cfg,               \* the flow graph, fixed during the visit
          blocks_processed,  \* Vec, sorted
          blocks_to_analyze, \* VecDeque, sorted
          ix,                \* the block popped last
          insert_at,         \* its place in blocks_processed
          output_nodes,      \* edge targets of ix not yet looked at
          typed,             \* blocks whose code the output graph holds
          pc

vars == <<cfg, blocks_processed, blocks_to_analyze, ix, insert_at, output_nodes,
          typed, pc>>

-----------------------------------------------------------------------------
(* slice::binary_search, by what it guarantees: the answer 0 stands for    *)
(* Ok(_) and i > 0 for Err(i - 1), the place where an insertion keeps the  *)
(* order.  On a sequence that is not sorted the search may miss an element *)
(* that is there and may name any place.                                   *)

StrictlySorted(s) == \A i, j \in 1 .. Len(s) : i < j => s[i] < s[j]

Fits(s, i, x) == \A j \in 1 .. Len(s) : (j < i => s[j] < x) /\ (j >= i => x < s[j])

binary_search(s, x) ==
  {0 : i \in {i \in 1 .. Len(s) : s[i] = x}}
    \cup {i \in 1 .. (Len(s) + 1) : StrictlySorted(s) => Fits(s, i, x)}

-----------------------------------------------------------------------------
\* Mutant of Init: the queue is seeded with every block of the graph.
InitAllBlocks ==
  /\ cfg \in CFGs
  /\ blocks_processed = << >>
  /\ blocks_to_analyze = [i \in 1 .. NBlocks |-> i - 1]
  /\ ix = Entry
  /\ insert_at = 1
  /\ output_nodes = << >>
  /\ typed = {}
  /\ pc = "pop"

Init ==
  /\ cfg \in CFGs
  /\ blocks_processed = << >>
  /\ blocks_to_analyze = <<Entry>>
  /\ ix = Entry
  /\ insert_at = 1
  /\ output_nodes = << >>
  /\ typed = {}
  /\ pc = "pop"

\* while let Some(ix) = blocks_to_analyze.pop_front(); a block found among the
\* processed ones is skipped.
PopFront ==
  /\ pc = "pop"
  /\ blocks_to_analyze # << >>
  /\ ix' = Head(blocks_to_analyze)
  /\ blocks_to_analyze' = Tail(blocks_to_analyze)
  /\ \E at \in binary_search(blocks_processed, Head(blocks_to_analyze)) :
       IF at = 0 THEN UNCHANGED <<insert_at, pc>>
                 ELSE insert_at' = at /\ pc' = "visit"
  /\ UNCHANGED <<cfg, blocks_processed, output_nodes, typed>>

\* Mutant of VisitBlock: the block is not recorded as processed.
VisitBlockUnrecorded ==
  /\ pc = "visit"
  /\ typed' = typed \cup {ix}
  /\ output_nodes' = cfg[ix]
  /\ pc' = "push"
  /\ UNCHANGED <<cfg, blocks_processed, blocks_to_analyze, ix, insert_at>>

\* visit_block succeeds without type errors.
VisitBlock ==
  /\ pc = "visit"
  /\ typed' = typed \cup {ix}
  /\ output_nodes' = cfg[ix]
  /\ blocks_processed' = InsertAt(blocks_processed, insert_at, ix)
  /\ pc' = "push"
  /\ UNCHANGED <<cfg, blocks_to_analyze, ix, insert_at>>

\* visit_block returns Err (the ? of line 46), or leaves type errors behind, in
\* which case the output block is already replaced and todo! panics.
VisitError ==
  /\ pc = "visit"
  /\ \/ pc' = "err" /\ UNCHANGED typed
     \/ pc' = "panic" /\ typed' = typed \cup {ix}
  /\ UNCHANGED <<cfg, blocks_processed, blocks_to_analyze, ix, insert_at, output_nodes>>

\* Mutant of PlaceOf: processed blocks are queued again.
PlaceOfUnchecked(node) == binary_search(blocks_to_analyze, node)

\* Where a target of an edge goes: nowhere (0) when it is processed or queued.
PlaceOf(node) ==
  UNION {IF p = 0 THEN {0} ELSE binary_search(blocks_to_analyze, node) :
           p \in binary_search(blocks_processed, node)}

\* Mutant of PushNode: new blocks go to the back of the queue.
PushNodeBack ==
  /\ pc = "push"
  /\ output_nodes # << >>
  /\ output_nodes' = Tail(output_nodes)
  /\ \E at \in PlaceOf(Head(output_nodes)) :
       blocks_to_analyze' = IF at = 0 THEN blocks_to_analyze
                            ELSE Append(blocks_to_analyze, Head(output_nodes))
  /\ UNCHANGED <<cfg, blocks_processed, ix, insert_at, typed, pc>>

\* Mutant of PushNode: a target that is known ends the loop (break, not continue).
PushNodeBreak ==
  /\ pc = "push"
  /\ output_nodes # << >>
  /\ \E at \in PlaceOf(Head(output_nodes)) :
       IF at = 0 THEN output_nodes' = << >> /\ UNCHANGED blocks_to_analyze
       ELSE /\ output_nodes' = Tail(output_nodes)
            /\ blocks_to_analyze' = InsertAt(blocks_to_analyze, at, Head(output_nodes))
  /\ UNCHANGED <<cfg, blocks_processed, ix, insert_at, typed, pc>>

\* One round of `for node in output_nodes`.
PushNode ==
  /\ pc = "push"
  /\ output_nodes # << >>
  /\ output_nodes' = Tail(output_nodes)
  /\ \E at \in PlaceOf(Head(output_nodes)) :
       blocks_to_analyze' = IF at = 0 THEN blocks_to_analyze
                            ELSE InsertAt(blocks_to_analyze, at, Head(output_nodes))
  /\ UNCHANGED <<cfg, blocks_processed, ix, insert_at, typed, pc>>

EndPush ==
  /\ pc = "push"
  /\ output_nodes = << >>
  /\ pc' = "pop"
  /\ UNCHANGED <<cfg, blocks_processed, blocks_to_analyze, ix, insert_at, output_nodes, typed>>

Return ==
  /\ pc = "pop"
  /\ blocks_to_analyze = << >>
  /\ pc' = "done"
  /\ UNCHANGED <<cfg, blocks_processed, blocks_to_analyze, ix, insert_at, output_nodes, typed>>

Next == PopFront \/ VisitBlock \/ VisitError \/ PushNode \/ EndPush \/ Return

Spec == Init /\ [][Next]_vars
FairSpec == Spec /\ WF_vars(Next)

-----------------------------------------------------------------------------
Processed == ToSet(blocks_processed)
Queued == ToSet(blocks_to_analyze)
InHand == IF pc \in {"visit", "err", "panic"} THEN {ix} ELSE {}

\* What the loop knows of: blocks done, queued, in hand, and targets of edges it
\* has not looked at yet.
Known == Processed \cup Queued \cup ToSet(output_nodes) \cup InHand

\* Blocks that a path of the flow graph reaches: they are in every set that
\* holds the entry and the targets of the edges of its members.
Closed(S) == Entry \in S /\ \A b \in S : ToSet(cfg[b]) \subseteq S
Reachable == {b \in Block : \A S \in SUBSET Block : Closed(S) => b \in S}

\* Every path from the entry to b passes through d before it gets to b: without
\* following the edges of d, the blocks found stay inside a set without b.
Cut(S, d) == Entry \in S /\ \A x \in S \ {d} : ToSet(cfg[x]) \subseteq S
Dominates(d, b) == \E S \in SUBSET Block : Cut(S, d) /\ b \notin S

\* The variables keep their types.
TypeOK ==
  /\ cfg \in [Block -> Seq(Block)]
  /\ blocks_processed \in Seq(Block)
  /\ blocks_to_analyze \in Seq(Block)
  /\ ix \in Block
  /\ insert_at \in 1 .. (Len(blocks_processed) + 1)
  /\ output_nodes \in Seq(Block)
  /\ typed \subseteq Block
  /\ pc \in {"pop", "visit", "push", "done", "err", "panic"}

\* Both lists stay strictly sorted, which binary_search needs and which makes
\* them duplicate free: insertions of visit put every index at its place.
Sorted == StrictlySorted(blocks_processed) /\ StrictlySorted(blocks_to_analyze)

\* A block about to be visited was not visited before, and none that is queued
\* was: no block is typed twice, and the `continue` of line 42 is never taken.
VisitedOnce ==
  /\ Processed \cap Queued = {}
  /\ pc = "visit" => ix \notin Processed \cup Queued

\* When visit returns Ok, the blocks it typed are the ones the flow graph
\* reaches from the entry, neither more nor fewer.
TypedReachable == pc = "done" => typed = Reachable /\ Processed = Reachable

\* When a block is analysed, every block that dominates it has been: the types
\* of the values it uses, computed in those blocks, are already there.
DominatorsFirst ==
  pc = "visit" => \A d \in Block : Dominates(d, ix) => d \in Processed

\* The visit of a finite flow graph ends.
Terminates == <>(pc \in {"done", "err", "panic"})

\* The refinement mapping to the abstract search.
Abstract == INSTANCE Search WITH
  Node <- Block, Start <- Entry,
  succ <- [b \in Block |-> ToSet(cfg[b])],
  visited <- Processed,
  frontier <- Known \ Processed,
  outcome <- IF pc = "done" THEN "done"
             ELSE IF pc \in {"err", "panic"} THEN "failed" ELSE "running"

\* Every behaviour of the loop is one of the abstract search: no block is lost
\* from the queue, visited twice, or found without an edge leading to it.
ImplementsSearch == Abstract!Spec
=============================================================================
