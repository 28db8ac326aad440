---------------------------- MODULE MCVerifyBatch ----------------------------
(* Small instance of VerifyBatch: transition at block 1, 2 or 3, a chain  *)
(* head of 0 or 1, batches of one to three headers of either era.         *)
EXTENDS VerifyBatch

MCTransitionBlocks == 1..3
MCHeads == 0..1
=============================================================================
