-------------------------- MODULE MCCanonicalChain --------------------------
(***************************************************************************)
(* CanonicalChain on the complete block tree of MCBlockTree.               *)
(***************************************************************************)
EXTENDS CanonicalChain, MCBlockTree, TLC

Symmetry == Permutations(Fork)
=============================================================================
