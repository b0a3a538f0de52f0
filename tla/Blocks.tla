------------------------------- MODULE Blocks -------------------------------
(***************************************************************************)
(* The basic blocks the type checker cuts flat code into, and the graph    *)
(* they make (typeck).  Blocks are named by their first instruction.       *)
(***************************************************************************)
EXTENDS Naturals

\* flatseq_to_blocks: a block starts at the first instruction, at every jump
\* target and at every phi-recv.
Leader(c, i) == i = 1 \/ c[i].op \in {"JumpTarget", "PhiRecv"}
BlockOf(c, i) == CHOOSE l \in 1 .. i : Leader(c, l) /\ \A k \in (l + 1) .. i : ~Leader(c, k)

\* Mutant of Targets: a branch has one target.
TargetsNoFalsey(inst) ==
  CASE inst.op = "If" -> {inst.truthy} \ {0}
    [] inst.op = "Br" -> {inst.to}
    [] OTHER          -> {}

\* The targets that make edges: those of If and Br.
Targets(inst) ==
  CASE inst.op = "If" -> {inst.truthy, inst.falsey} \ {0}
    [] inst.op = "Br" -> {inst.to}
    [] OTHER          -> {}

\* BlockCFGBuilder::new_from_blocks.
Edges(c) == UNION {{<<BlockOf(c, i), BlockOf(c, t)>> : t \in Targets(c[i])} : i \in DOMAIN c}

\* analyze_block emits no code for these.
Silent(inst) == inst.op \in {"Nop", "JumpTarget", "GetDunder"}
EmptyBlock(c, l) == \A i \in DOMAIN c : BlockOf(c, i) = l => Silent(c[i])
=============================================================================
