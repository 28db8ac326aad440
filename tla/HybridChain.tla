---------------------------- MODULE HybridChain ----------------------------
(***************************************************************************)
(* What the hybrid engine promises the chain it helps build (spec sections *)
(* 2 and 4): blocks are added one at a time on top of the head, each one  *)
(* wholly produced by the engine of its era (PoS below the transition      *)
(* block, PoA from it on), the transition block alone carries the initial *)
(* PoA signer set, and a reorg may cut the chain back to any lower block. *)
(* The genesis block is produced by no engine and carries no signers.     *)
(***************************************************************************)
EXTENDS Naturals

CONSTANTS
    Height,           \* the highest block number a chain can reach
    TransitionBlocks  \* the possible transition heights

VARIABLES
    transitionBlock,  \* the transition height, fixed at start
    head,             \* the number of the head block
    blocks            \* block number -> the engine that made it, and
                      \* whether it carries the initial signers

chainVars == <<transitionBlock, head, blocks>>

(* A block of the abstract chain.                                         *)
Block == [engine : {"PoS", "PoA", "None"}, seeded : BOOLEAN]

GenesisBlock == [engine |-> "None", seeded |-> FALSE]

(* The only block that may be added at height n.                          *)
EraBlock(n) ==
    [engine |-> IF n >= transitionBlock THEN "PoA" ELSE "PoS",
     seeded |-> n = transitionBlock]

Init ==
    /\ transitionBlock \in TransitionBlocks
    /\ head = 0
    /\ blocks = [n \in {0} |-> GenesisBlock]

(* A new block of the head's successor's era is put on top of the head.   *)
Extend ==
    /\ head < Height
    /\ head' = head + 1
    /\ blocks' = [n \in 0..(head + 1) |-> IF n = head + 1 THEN EraBlock(n) ELSE blocks[n]]
    /\ UNCHANGED transitionBlock

(* The chain is cut back to block n.                                      *)
Rewind(n) ==
    /\ n < head
    /\ head' = n
    /\ blocks' = [m \in 0..n |-> blocks[m]]
    /\ UNCHANGED transitionBlock

Next == Extend \/ \E n \in 0..Height : Rewind(n)

Spec == Init /\ [][Next]_chainVars
=============================================================================
