----------------------------- MODULE VerifyBatch -----------------------------
(***************************************************************************)
(* Hybrid.VerifyHeaders (consensus/hybrid, part_001 lines 260-308) and the *)
(* import loop that consumes its results.                                  *)
(*                                                                         *)
(* A batch of headers numbered head+1, head+2, ... arrives from a peer.    *)
(* Each header follows the rules of one era (its tag). It is valid when    *)
(* that era is the one its number selects, and its parent is known.       *)
(* VerifyHeaders takes one of two paths:                                   *)
(*  - a batch that lies on one side of the transition goes whole to the    *)
(*    wrapped engine's VerifyHeaders. That engine sees the in-batch        *)
(*    parents.                                                             *)
(*  - a batch that spans the transition is verified by a goroutine, one    *)
(*    header at a time, through Hybrid.VerifyHeader. That call finds a    *)
(*    parent only in the chain.                                            *)
(* The caller reads one result per header, in order. It may write each    *)
(* verified block before reading the next (block import) or only after    *)
(* the whole batch (header-chain validation). It closes abort at the      *)
(* first error, and at the end.                                           *)
(***************************************************************************)
EXTENDS Naturals, Sequences

CONSTANTS
    TransitionBlocks,   \* transition blocks to try
    Heads,              \* chain heads the batch may start above
    MaxBatch            \* longest batch

ASSUME BatchAssumption ==
    /\ TransitionBlocks \subseteq Nat /\ Heads \subseteq Nat
    /\ MaxBatch \in Nat \ {0}

PoS == "PoS"
PoA == "PoA"
Engines == {PoS, PoA}

(* A header: its number and the era whose rules it was built by.          *)
Hdr == [num : Nat, tag : Engines]

VARIABLES
    transitionBlock,    \* Hybrid.transitionBlock
    head,               \* the number of the last block in the chain
    batch,              \* the headers passed to VerifyHeaders
    importing,          \* the caller writes each block as soon as it is verified
    path,               \* "None" before the call, "Bulk" or "Split" after it
    quit,               \* the abort channel is closed
    results,            \* the buffered results channel: TRUE for a nil error
    resClosed,          \* close(results) has run
    gi,                 \* index of the header the verifying goroutine is at
    gpc,                \* the verifying goroutine's place: "loop", "verify", "send", "done"
    gerr,               \* the verdict it is about to send
    lateVerifies,       \* VerifyHeader calls the goroutine made after abort was closed
    lateResults,        \* results the goroutine sent after abort was closed
    recvd,              \* the results the caller has read, in order
    cpc                 \* the caller's place: "call", "recv", "insert", "done"

vars == <<transitionBlock, head, batch, importing, path, quit, results,
          resClosed, gi, gpc, gerr, lateVerifies, lateResults, recvd, cpc>>

-----------------------------------------------------------------------------
ShouldUsePoA(n) == n >= transitionBlock
EngineFor(n) == IF ShouldUsePoA(n) THEN PoA ELSE PoS

(* The headers a batch of k headers above h can hold.                     *)
HeadersAbove(h, k) == {[num |-> h + i, tag |-> e] : i \in 1..k, e \in Engines}

(* The contiguous batches above head, with every choice of eras.          *)
Batches(h) == UNION {[1..k -> HeadersAbove(h, k)] : k \in 0..MaxBatch}
Contiguous(b, h) == \A i \in DOMAIN b : b[i].num = h + i

(* A header is valid when it follows the rules of its number's era.       *)
ValidHdr(hdr) == hdr.tag = EngineFor(hdr.num)

(* Mutant: VerifyHeader sends the transition block itself to PoS.        *)
VerifyHeaderAtOrBefore(hdr) ==
    /\ hdr.tag = (IF hdr.num <= transitionBlock THEN PoS ELSE PoA)
    /\ hdr.num - 1 <= head

(* The verdict of Hybrid.VerifyHeader. The wrapped engine is chosen by a  *)
(* direct comparison with transitionBlock. It checks the era, and it      *)
(* finds the parent only among the blocks already in the chain.           *)
VerifyHeader(hdr) ==
    /\ hdr.tag = (IF hdr.num < transitionBlock THEN PoS ELSE PoA)
    /\ hdr.num - 1 <= head

(* The verdict of the wrapped engine's own VerifyHeaders for the i-th      *)
(* header. Its parent is the header before it in the batch, or the chain   *)
(* head for the first one.                                                 *)
EngineVerify(eng, i) ==
    /\ batch[i].tag = eng
    /\ (i > 1 \/ batch[i].num - 1 <= head)

(* The engine the whole batch is forwarded to, from its first and last    *)
(* numbers (lines 271-282).                                                *)
BulkEngine ==
    IF batch[Len(batch)].num < transitionBlock THEN PoS ELSE PoA

Init ==
    /\ transitionBlock \in TransitionBlocks
    /\ head \in Heads
    /\ batch \in {b \in Batches(head) : Contiguous(b, head)}
    /\ importing \in BOOLEAN
    /\ path = "None"
    /\ quit = FALSE
    /\ results = <<>>
    /\ resClosed = FALSE
    /\ gi = 1
    /\ gpc = "loop"
    /\ gerr = TRUE
    /\ lateVerifies = 0
    /\ lateResults = 0
    /\ recvd = <<>>
    /\ cpc = "call"

-----------------------------------------------------------------------------
(* Mutant: a batch that starts at the transition block is split.         *)
VerifyHeadersFirstAfter ==
    /\ cpc = "call"
    /\ IF batch = <<>>
       THEN /\ path' = "Empty" /\ quit' = TRUE /\ resClosed' = TRUE
            /\ gpc' = "done" /\ cpc' = "done"
       ELSE /\ path' = IF \/ batch[Len(batch)].num < transitionBlock
                          \/ batch[1].num > transitionBlock
                       THEN "Bulk" ELSE "Split"
            /\ cpc' = "recv"
            /\ UNCHANGED <<quit, resClosed, gpc>>
    /\ UNCHANGED <<transitionBlock, head, batch, importing, results,
                   gi, gerr, lateVerifies, lateResults, recvd>>

(* VerifyHeaders. An empty batch gets back a closed quit channel and a     *)
(* closed results channel. A batch on one side of the transition is        *)
(* forwarded whole. Any other batch gets a fresh quit channel, a results   *)
(* channel of capacity len(headers), and the goroutine.                    *)
VerifyHeaders ==
    /\ cpc = "call"
    /\ IF batch = <<>>
       THEN /\ path' = "Empty" /\ quit' = TRUE /\ resClosed' = TRUE
            /\ gpc' = "done" /\ cpc' = "done"
       ELSE /\ path' = IF \/ batch[Len(batch)].num < transitionBlock
                          \/ batch[1].num >= transitionBlock
                       THEN "Bulk" ELSE "Split"
            /\ cpc' = "recv"
            /\ UNCHANGED <<quit, resClosed, gpc>>
    /\ UNCHANGED <<transitionBlock, head, batch, importing, results,
                   gi, gerr, lateVerifies, lateResults, recvd>>

(* Mutant: the goroutine's first select without its quit case.         *)
SplitLoopNoQuit ==
    /\ path = "Split" /\ gpc = "loop"
    /\ IF gi > Len(batch)
       THEN gpc' = "done" /\ resClosed' = TRUE
       ELSE gpc' = "verify" /\ UNCHANGED resClosed
    /\ UNCHANGED <<transitionBlock, head, batch, importing, path, quit, results,
                   gi, gerr, lateVerifies, lateResults, recvd, cpc>>

(* The goroutine's first select: return on a closed quit. Otherwise go on *)
(* to the next header. The deferred close(results) runs on either return. *)
SplitLoop ==
    /\ path = "Split" /\ gpc = "loop"
    /\ IF gi > Len(batch) \/ quit
       THEN gpc' = "done" /\ resClosed' = TRUE
       ELSE gpc' = "verify" /\ UNCHANGED resClosed
    /\ UNCHANGED <<transitionBlock, head, batch, importing, path, quit, results,
                   gi, gerr, lateVerifies, lateResults, recvd, cpc>>

(* err := h.VerifyHeader(chain, header), read against the chain as it is *)
(* at this moment.                                                         *)
SplitVerify ==
    /\ path = "Split" /\ gpc = "verify"
    /\ gerr' = VerifyHeader(batch[gi])
    /\ lateVerifies' = IF quit THEN lateVerifies + 1 ELSE lateVerifies
    /\ gpc' = "send"
    /\ UNCHANGED <<transitionBlock, head, batch, importing, path, quit, results,
                   resClosed, gi, lateResults, recvd, cpc>>

(* Sending the verdict into the buffer: counted as late when abort is     *)
(* already closed.                                                         *)
SendResult ==
    /\ Len(results) < Len(batch)
    /\ results' = Append(results, gerr)
    /\ lateResults' = IF quit THEN lateResults + 1 ELSE lateResults
    /\ gi' = gi + 1
    /\ gpc' = "loop"
    /\ UNCHANGED resClosed

(* Returning from the goroutine on a closed quit; the deferred close.     *)
ReturnOnQuit ==
    /\ gpc' = "done" /\ resClosed' = TRUE
    /\ UNCHANGED <<results, gi, lateResults>>

(* The inner select. It sends the verdict while the buffer has room, or  *)
(* returns on a closed quit. When both are ready, Go picks either one.    *)
SplitSend ==
    /\ path = "Split" /\ gpc = "send"
    /\ \/ SendResult
       \/ quit /\ ReturnOnQuit
    /\ UNCHANGED <<transitionBlock, head, batch, importing, path, quit,
                   gerr, lateVerifies, recvd, cpc>>

(* The wrapped engine's VerifyHeaders for a forwarded batch. For each     *)
(* header it verifies against the earlier headers, then either sends the  *)
(* verdict or returns on abort.                                           *)
BulkStep ==
    /\ path = "Bulk" /\ gpc = "loop"
    /\ \/ /\ gi > Len(batch)
          /\ gpc' = "done"
          /\ UNCHANGED <<results, gi>>
       \/ /\ gi <= Len(batch)
          /\ results' = Append(results, EngineVerify(BulkEngine, gi))
          /\ gi' = gi + 1
          /\ UNCHANGED gpc
       \/ /\ gi <= Len(batch) /\ quit
          /\ gpc' = "done"
          /\ UNCHANGED <<results, gi>>
    /\ UNCHANGED <<transitionBlock, head, batch, importing, path, quit,
                   resClosed, gerr, lateVerifies, lateResults, recvd, cpc>>

-----------------------------------------------------------------------------
(* What the caller's receive <-results yields: the oldest buffered error, *)
(* or, once results is closed and drained, nil at once.                   *)
ResultRead == IF results # <<>> THEN Head(results) ELSE TRUE

(* Mutant: the import loop goes on to write the block without checking    *)
(* the error it read.                                                      *)
ReceiveIgnoreError ==
    /\ cpc = "recv" /\ Len(recvd) < Len(batch)
    /\ results # <<>> \/ resClosed
    /\ recvd' = Append(recvd, ResultRead)
    /\ results' = IF results # <<>> THEN Tail(results) ELSE results
    /\ IF ~ResultRead /\ ~importing
       THEN quit' = TRUE /\ cpc' = "done"
       ELSE IF importing
       THEN cpc' = "insert" /\ UNCHANGED quit
       ELSE IF Len(recvd') = Len(batch)
       THEN quit' = TRUE /\ cpc' = "done"
       ELSE UNCHANGED <<quit, cpc>>
    /\ UNCHANGED <<transitionBlock, head, batch, importing, path, resClosed,
                   gi, gpc, gerr, lateVerifies, lateResults>>

(* The caller reads the next result, one per header of the batch. The     *)
(* receive waits until a result is buffered or results is closed. It      *)
(* closes abort at the first error, and at the end once every header has *)
(* been verified.                                                          *)
Receive ==
    /\ cpc = "recv" /\ Len(recvd) < Len(batch)
    /\ results # <<>> \/ resClosed
    /\ recvd' = Append(recvd, ResultRead)
    /\ results' = IF results # <<>> THEN Tail(results) ELSE results
    /\ IF ~ResultRead
       THEN quit' = TRUE /\ cpc' = "done"
       ELSE IF importing
       THEN cpc' = "insert" /\ UNCHANGED quit
       ELSE IF Len(recvd') = Len(batch)
       THEN quit' = TRUE /\ cpc' = "done"
       ELSE UNCHANGED <<quit, cpc>>
    /\ UNCHANGED <<transitionBlock, head, batch, importing, path, resClosed,
                   gi, gpc, gerr, lateVerifies, lateResults>>

(* Mutant: after writing the last block the loop waits for another result. *)
InsertNoFinish ==
    /\ cpc = "insert"
    /\ head' = batch[Len(recvd)].num
    /\ cpc' = "recv"
    /\ UNCHANGED <<transitionBlock, batch, importing, path, quit, results,
                   resClosed, gi, gpc, gerr, lateVerifies, lateResults, recvd>>

(* Block import writes the verified block before it reads the next result. *)
Insert ==
    /\ cpc = "insert"
    /\ head' = batch[Len(recvd)].num
    /\ IF Len(recvd) = Len(batch)
       THEN quit' = TRUE /\ cpc' = "done"
       ELSE cpc' = "recv" /\ UNCHANGED quit
    /\ UNCHANGED <<transitionBlock, batch, importing, path, results, resClosed,
                   gi, gpc, gerr, lateVerifies, lateResults, recvd>>

Next ==
    \/ VerifyHeaders \/ SplitLoop \/ SplitVerify \/ SplitSend \/ BulkStep
    \/ Receive \/ Insert

Spec == Init /\ [][Next]_vars

-----------------------------------------------------------------------------
(* Every variable keeps its shape.                                        *)
TypeOK ==
    /\ transitionBlock \in Nat /\ head \in Nat
    /\ batch \in Seq(Hdr) /\ importing \in BOOLEAN
    /\ path \in {"None", "Empty", "Bulk", "Split"}
    /\ quit \in BOOLEAN /\ resClosed \in BOOLEAN
    /\ results \in Seq(BOOLEAN) /\ recvd \in Seq(BOOLEAN)
    /\ gi \in 1..(Len(batch) + 1) /\ gerr \in BOOLEAN /\ lateVerifies \in Nat
    /\ lateResults \in Nat
    /\ gpc \in {"loop", "verify", "send", "done"}
    /\ cpc \in {"call", "recv", "insert", "done"}

(* No header the caller accepts breaks its era's rules. Both paths must   *)
(* route each header to the engine of its own number: the endpoint test   *)
(* of the bulk path and the comparison inside VerifyHeader.               *)
SoundAcceptance ==
    \A i \in 1..Len(recvd) : recvd[i] => ValidHdr(batch[i])

(* Once the caller has closed abort, the split goroutine starts at most   *)
(* one more VerifyHeader call: the one it had already passed the quit     *)
(* check for.                                                             *)
AbortStopsVerification == lateVerifies <= 1

(* Once the caller has cancelled, the split goroutine produces no more    *)
(* results (concurrency model: it must stop producing results once        *)
(* cancelled).                                                             *)
ResultsStopAtCancel == lateResults = 0

(* The import loop writes a block only once it has read a nil result for *)
(* it, and every block it writes follows its era's rules: no block the    *)
(* split goroutine or the wrapped engine rejected, and no result that     *)
(* arrives after abort, reaches the chain.                                *)
WritesOnlyAccepted ==
    [][head' # head =>
          /\ Len(recvd) \in 1..Len(batch) /\ recvd[Len(recvd)]
          /\ head' = batch[Len(recvd)].num
          /\ ValidHdr(batch[Len(recvd)])]_vars

(* A valid batch whose parent is the chain head is accepted whole, as the *)
(* wrapped engines accept it, whichever way the caller writes blocks.     *)
ValidBatchAccepted ==
    (cpc = "done" /\ \A i \in 1..Len(batch) : ValidHdr(batch[i]))
        => \A i \in 1..Len(recvd) : recvd[i]

=============================================================================
