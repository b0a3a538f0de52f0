---------------------------- MODULE MCCfgReducer ----------------------------
(***************************************************************************)
(* All flow graphs over NBlocks blocks in which a block has at most two    *)
(* outgoing edges, as an If or a Br gives them; a pair of targets is listed *)
(* with the later block first.                                             *)
(***************************************************************************)
EXTENDS CfgReducer

Targets == {<< >>} \cup {<<a>> : a \in Block}
             \cup {e \in Block \X Block : e[1] >= e[2]}
AllCFGs == [Block -> Targets]
=============================================================================
