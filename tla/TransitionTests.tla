--------------------------- MODULE TransitionTests ---------------------------
(***************************************************************************)
(* The blockchain tests of the PoS-to-PoA transition (logging_demo.go,     *)
(* lines 109-457) as scripts of InsertChain calls driving Hybrid's         *)
(* VerifyHeaders, modelled in VerifyBatch.                                 *)
(*                                                                         *)
(* Each test builds a hybrid engine over two ethash fakers with the        *)
(* transition at block 3, and one or two blockchains from the same         *)
(* genesis. It generates blocks with core.GenerateChain and inserts them   *)
(* with InsertChain, failing at the first error. InsertChain hands the     *)
(* whole batch to VerifyHeaders, reads one result per block, and writes    *)
(* each block before it reads the next result: the importing caller of    *)
(* VerifyBatch. The faker's VerifyHeader accepts a header whose parent is  *)
(* in the chain and returns ErrUnknownAncestor otherwise. VerifyBatch's    *)
(* VerifyHeader checks that and the era, and every generated header is of  *)
(* its number's era.                                                       *)
(***************************************************************************)
EXTENDS Naturals, Sequences

CONSTANT Tests      \* the names of the tests that may run

VARIABLES
    transitionBlock, head, batch, importing, path, quit, results, resClosed,
    gi, gpc, gerr, lateVerifies, lateResults, recvd, cpc,
    test,               \* the test that runs
    call,               \* the index of the InsertChain call in progress
    heads               \* the head of each node's blockchain between calls

callVars == <<transitionBlock, head, batch, importing, path, quit, results,
              resClosed, gi, gpc, gerr, lateVerifies, lateResults, recvd, cpc>>
vars == <<callVars, test, call, heads>>

(* createSimpleHybridEngine: New(ethash.NewFaker(), ethash.NewFaker(), 3). *)
TestTransitionBlock == 3

(* createSimpleTestGenesis: every blockchain of a test starts at genesis.  *)
Nodes == {1, 2}
GenesisHeads == [n \in Nodes |-> 0]

VB == INSTANCE VerifyBatch
          WITH TransitionBlocks <- {TestTransitionBlock}, Heads <- {0},
               MaxBatch <- 6

(* A header made by core.GenerateChain with the hybrid engine: the engine *)
(* of its number produced it.                                              *)
Generated(n) == [num |-> n, tag |-> VB!EngineFor(n)]

(* The blocks from..to, as one InsertChain argument.                       *)
Blocks(c) == [i \in 1..(c.to - c.from + 1) |-> Generated(c.from + i - 1)]

(* TestBlockProcessingAcrossTransition: blocks 1..5 in one call.           *)
BlockProcessing == << [node |-> 1, from |-> 1, to |-> 5] >>

(* TestChainSynchronizationWithTransition: node 1 inserts 1..6 at once;   *)
(* node 2 then inserts them one block per call.                            *)
ChainSync ==
    << [node |-> 1, from |-> 1, to |-> 6] >>
        \o [i \in 1..6 |-> [node |-> 2, from |-> i, to |-> i]]

(* TestMiningBehaviorAcrossTransition: blocks 1..2, then 3..5 on top.      *)
Mining == << [node |-> 1, from |-> 1, to |-> 2], [node |-> 1, from |-> 3, to |-> 5] >>

(* TestForkChoiceAcrossTransition: a main chain 1..4, then a fork of three *)
(* blocks 3..5 from block 2, which is longer and becomes canonical.        *)
ForkChoice == << [node |-> 1, from |-> 1, to |-> 4], [node |-> 1, from |-> 3, to |-> 5] >>

Scripts ==
    [BlockProcessing |-> BlockProcessing, ChainSync |-> ChainSync,
     Mining |-> Mining, ForkChoice |-> ForkChoice]

ASSUME TestsAssumption == Tests \subseteq DOMAIN Scripts

Script == Scripts[test]

(* The state of VerifyHeaders and of InsertChain before any step.        *)
FreshCall ==
    /\ path = "None" /\ quit = FALSE /\ results = <<>> /\ resClosed = FALSE
    /\ gi = 1 /\ gpc = "loop" /\ gerr = TRUE /\ lateVerifies = 0
    /\ lateResults = 0 /\ recvd = <<>> /\ cpc = "call"

Init ==
    /\ transitionBlock = TestTransitionBlock /\ importing = TRUE
    /\ test \in Tests /\ call = 1 /\ heads = GenesisHeads
    /\ head = GenesisHeads[Script[1].node] /\ batch = Blocks(Script[1])
    /\ FreshCall

(* A step of the call in progress: of VerifyHeaders, its goroutine or the *)
(* insertion loop.                                                         *)
CallStep(A) == A /\ UNCHANGED <<test, call, heads>>

(* InsertChain returned nil: the test goes on to its next call, on the    *)
(* node that call names. A verifier goroutine that has sent its last      *)
(* result only returns, so the next call starts after it has.             *)
NextCall ==
    /\ cpc = "done" /\ gpc = "done"
    /\ \A i \in 1..Len(batch) : i <= Len(recvd) /\ recvd[i]
    /\ call < Len(Script)
    /\ call' = call + 1
    /\ heads' = [heads EXCEPT ![Script[call].node] = head]
    /\ head' = heads'[Script[call + 1].node]
    /\ batch' = Blocks(Script[call + 1])
    /\ path' = "None" /\ quit' = FALSE /\ results' = <<>>
    /\ resClosed' = FALSE /\ gi' = 1 /\ gpc' = "loop" /\ gerr' = TRUE
    /\ lateVerifies' = 0 /\ lateResults' = 0 /\ recvd' = <<>>
    /\ cpc' = "call"
    /\ UNCHANGED <<transitionBlock, importing, test>>

Next == CallStep(VB!Next) \/ NextCall

(* The Go scheduler runs every runnable goroutine eventually: the        *)
(* verifier, the caller, and the test function once InsertChain returned. *)
Fairness ==
    /\ WF_vars(CallStep(VB!VerifyHeaders)) /\ WF_vars(CallStep(VB!Receive))
    /\ WF_vars(CallStep(VB!Insert)) /\ WF_vars(CallStep(VB!SplitLoop))
    /\ WF_vars(CallStep(VB!SplitVerify)) /\ WF_vars(CallStep(VB!SplitSend))
    /\ WF_vars(CallStep(VB!BulkStep)) /\ WF_vars(NextCall)

Spec == Init /\ [][Next]_vars /\ Fairness

-----------------------------------------------------------------------------
(* Every state is well typed.                                             *)
TypeOK ==
    /\ VB!TypeOK /\ test \in Tests /\ call \in 1..Len(Script)
    /\ heads \in [Nodes -> Nat]

(* InsertChain returns no error for any block of the test's chains (each  *)
(* test calls t.Fatalf on one). The blocks are valid, so an error can     *)
(* only come from verifying a header before its parent is written.        *)
InsertChainSucceeds == \A i \in 1..Len(recvd) : recvd[i]

(* A batch that straddles the transition: VerifyHeaders splits it.       *)
Straddles(b) == b # <<>> /\ b[1].num < transitionBlock
                         /\ transitionBlock <= b[Len(b)].num

(* An InsertChain call of a test fails only on a batch that straddles the *)
(* transition block: the wrapped engines' own VerifyHeaders accept every  *)
(* generated batch that lies on one side of it, with its in-batch parents. *)
FailuresOnlyAcrossTransition ==
    (\E i \in 1..Len(recvd) : ~recvd[i]) => Straddles(batch)

(* Every test comes to an end: its last InsertChain call returns, or one  *)
(* returns an error and the test stops there. No call waits forever on a  *)
(* result.                                                                 *)
TestEnds ==
    <>(cpc = "done" /\ (call = Len(Script) \/ \E i \in 1..Len(recvd) : ~recvd[i]))
=============================================================================
