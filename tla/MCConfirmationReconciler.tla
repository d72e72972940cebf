---------------------- MODULE MCConfirmationReconciler ----------------------
(***************************************************************************)
(* ConfirmationReconciler on a tree of one chain and the forks off its     *)
(* blocks.  The transaction is in block 1 of the main chain, and would be  *)
(* mined one block later on the fork that replaces block 1.                *)
(***************************************************************************)
EXTENDS ConfirmationReconciler, MCBlockTree

CONSTANT Other      \* the other member of Fork

MCTxBlocks == {<<Main>>, <<Other, Other>>}
=============================================================================
