-------------------------- MODULE VerifyBatchProofs --------------------------
(***************************************************************************)
(* Proofs about VerifyBatch: type correctness, that the caller accepts no  *)
(* header that breaks its era's rules, and that the split goroutine makes *)
(* at most one VerifyHeader call after abort, for every transition block, *)
(* chain head and batch length.                                            *)
(***************************************************************************)
EXTENDS VerifyBatch, TLAPS

(* The numbers of the batch are consecutive.                              *)
Numbered == \A i \in 1..Len(batch) : batch[i].num = batch[1].num + i - 1

(* The goroutine is inside the loop body only on the split path, and only *)
(* at a header of the batch.                                               *)
InFlight == gpc \in {"verify", "send"} => path = "Split" /\ gi <= Len(batch)

(* Every header the goroutine has passed has its result either read by    *)
(* the caller or waiting in the buffer.                                    *)
Counted == path # "None" => Len(recvd) + Len(results) = gi - 1

(* The caller is at the call exactly when nothing has happened yet.       *)
Untouched ==
    /\ path = "None" <=> cpc = "call"
    /\ path = "None" =>
           recvd = <<>> /\ results = <<>> /\ gi = 1 /\ gpc = "loop" /\ ~quit

(* A nil error waiting in the buffer is for a valid header.               *)
Pending == \A j \in 1..Len(results) : results[j] => ValidHdr(batch[Len(recvd) + j])

(* A nil error the goroutine is about to send is for a valid header.      *)
Verdict == path = "Split" /\ gpc = "send" /\ gerr => ValidHdr(batch[gi])

(* A forwarded batch goes to the engine of each of its headers.           *)
BulkRouted ==
    path = "Bulk" => \A i \in 1..Len(batch) : EngineFor(batch[i].num) = BulkEngine

(* The caller writes a block it has read a result for.                    *)
Inserting == cpc = "insert" => Len(recvd) \in 1..Len(batch)

(* A late VerifyHeader call happens with quit closed, and the goroutine   *)
(* does not enter the loop body again after it.                           *)
LateOnce == lateVerifies <= 1 /\ (lateVerifies = 1 => quit /\ gpc # "verify")

(* Abort is closed only by a caller that is done, and results only by a  *)
(* goroutine that has returned, on abort or past the last header: a       *)
(* caller that still waits never finds results closed and drained.        *)
Drained ==
    /\ quit => cpc = "done"
    /\ resClosed => gpc = "done" /\ (quit \/ (path = "Split" /\ gi > Len(batch)))

IInv ==
    /\ TypeOK /\ Numbered /\ InFlight /\ Counted /\ Untouched /\ Pending
    /\ Verdict /\ BulkRouted /\ Inserting /\ LateOnce /\ SoundAcceptance

-----------------------------------------------------------------------------
(* A function into a set is a function into every superset of it.         *)
LEMMA FunInto ==
    ASSUME NEW A, NEW B, A \subseteq B, NEW k \in Nat, NEW f \in [1..k -> A]
    PROVE  f \in [1..k -> B]
  OBVIOUS

(* A batch that Init can choose is a sequence of headers with consecutive *)
(* numbers.                                                                *)
LEMMA BatchInit ==
    ASSUME NEW h \in Nat, NEW b \in Batches(h), Contiguous(b, h)
    PROVE  /\ b \in Seq(Hdr)
           /\ \A i \in 1..Len(b) : b[i].num = b[1].num + i - 1
<1>1. PICK k \in 0..MaxBatch : b \in [1..k -> HeadersAbove(h, k)]
  BY Zenon DEF Batches
<1>2. HeadersAbove(h, k) \subseteq Hdr
  BY BatchAssumption DEF Hdr, HeadersAbove
<1>3. b \in [1..k -> Hdr]
  BY <1>1, <1>2, FunInto
<1>4. k \in Nat
  BY BatchAssumption
<1>5. b \in Seq(Hdr)
  BY <1>3, <1>4
<1>6. Len(b) = k
  BY <1>3, <1>4, <1>5
<1>7. \A i \in 1..k : b[i].num = h + i
  BY <1>3, <1>6 DEF Contiguous
<1>. QED
  BY <1>5, <1>6, <1>7

(* Init establishes the inductive invariant.                              *)
LEMMA IInvInit == Init => IInv
<1> SUFFICES ASSUME Init PROVE IInv
  OBVIOUS
<1>1. batch \in Seq(Hdr) /\ Numbered
  BY BatchInit, BatchAssumption DEF Init, Numbered
<1>2. Len(batch) \in Nat
  BY <1>1
<1>3. transitionBlock \in Nat /\ head \in Nat
  BY BatchAssumption DEF Init
<1>4. results \in Seq(BOOLEAN) /\ recvd \in Seq(BOOLEAN) /\ gi \in 1..(Len(batch) + 1)
  BY <1>2 DEF Init
<1>5. TypeOK
  BY <1>1, <1>3, <1>4 DEF Init, TypeOK
<1>. QED
  BY <1>1, <1>5 DEF Init, IInv, InFlight, Counted, Untouched, Pending, Verdict,
     BulkRouted, Inserting, LateOnce, SoundAcceptance

-----------------------------------------------------------------------------
(* The parts of the invariant that only the batch and the shape of the    *)
(* state decide, for a step that changes neither the batch nor the path.   *)
Frame ==
    /\ batch' = batch /\ path' = path /\ transitionBlock' = transitionBlock

(* The loop head of the split goroutine preserves the invariant.          *)
LEMMA IInvSplitLoop == ASSUME IInv, SplitLoop PROVE IInv'
<1>1. Frame /\ UNCHANGED <<head, importing, quit, results, gi, gerr,
                           lateVerifies, lateResults, recvd, cpc>>
  BY DEF SplitLoop, Frame
<1>2. TypeOK'
  BY <1>1 DEF IInv, TypeOK, SplitLoop, Frame
<1>3. (InFlight /\ LateOnce)'
  <2>1. CASE gi > Len(batch) \/ quit
    BY <1>1, <2>1 DEF IInv, InFlight, LateOnce, SplitLoop, Frame
  <2>2. CASE ~(gi > Len(batch) \/ quit)
    <3>1. gpc' = "verify" /\ gi <= Len(batch) /\ path = "Split"
      BY <2>2 DEF IInv, TypeOK, SplitLoop
    <3>2. lateVerifies # 1
      BY <2>2 DEF IInv, LateOnce
    <3>. QED
      BY <1>1, <3>1, <3>2 DEF IInv, InFlight, LateOnce, Frame
  <2>. QED
    BY <2>1, <2>2
<1>4. (Numbered /\ Counted /\ Untouched /\ Pending /\ Verdict /\ BulkRouted
       /\ Inserting /\ SoundAcceptance)'
  BY <1>1 DEF IInv, Numbered, Counted, Untouched, Pending, Verdict, BulkRouted,
     Inserting, SoundAcceptance, SplitLoop, Frame, ValidHdr, EngineFor,
     ShouldUsePoA, BulkEngine
<1>. QED
  BY <1>2, <1>3, <1>4 DEF IInv

(* The verifying call of the split goroutine preserves the invariant.     *)
LEMMA IInvSplitVerify == ASSUME IInv, SplitVerify PROVE IInv'
<1>1. Frame /\ UNCHANGED <<head, importing, quit, results, resClosed, gi,
                           lateResults, recvd, cpc>>
  BY DEF SplitVerify, Frame
<1>2. TypeOK'
  BY <1>1 DEF IInv, TypeOK, SplitVerify, Frame, VerifyHeader
<1>3. LateOnce'
  BY <1>1 DEF IInv, TypeOK, LateOnce, SplitVerify, Frame
<1>4. Verdict'
  <2>1. batch[gi] \in Hdr /\ transitionBlock \in Nat
    BY DEF IInv, TypeOK, InFlight, SplitVerify
  <2>2. VerifyHeader(batch[gi]) => ValidHdr(batch[gi])
    BY <2>1 DEF VerifyHeader, ValidHdr, EngineFor, ShouldUsePoA, Hdr
  <2>3. gerr' = VerifyHeader(batch[gi]) /\ gi' = gi /\ batch' = batch
        /\ transitionBlock' = transitionBlock
    BY <1>1 DEF SplitVerify, Frame
  <2>. QED
    BY <2>2, <2>3, Zenon DEF Verdict, ValidHdr, EngineFor, ShouldUsePoA
<1>5. (Numbered /\ InFlight /\ Counted /\ Untouched /\ Pending /\ BulkRouted
       /\ Inserting /\ SoundAcceptance)'
  BY <1>1 DEF IInv, Numbered, InFlight, Counted, Untouched, Pending, BulkRouted,
     Inserting, SoundAcceptance, SplitVerify, Frame, ValidHdr, EngineFor,
     ShouldUsePoA, BulkEngine
<1>. QED
  BY <1>2, <1>3, <1>4, <1>5 DEF IInv

(* Writing a verified block preserves the invariant.                      *)
LEMMA IInvInsert == ASSUME IInv, Insert PROVE IInv'
<1>1. Frame /\ UNCHANGED <<importing, results, resClosed, gi, gpc, gerr,
                           lateVerifies, lateResults, recvd>>
  BY DEF Insert, Frame
<1>2. batch[Len(recvd)] \in Hdr
  BY DEF IInv, TypeOK, Inserting, Insert
<1>3. TypeOK'
  BY <1>1, <1>2 DEF IInv, TypeOK, Insert, Frame, Hdr
<1>4. (Numbered /\ InFlight /\ Counted /\ Untouched /\ Pending /\ Verdict
       /\ BulkRouted /\ Inserting /\ LateOnce /\ SoundAcceptance)'
  BY <1>1 DEF IInv, Numbered, InFlight, Counted, Untouched, Pending, Verdict,
     BulkRouted, Inserting, LateOnce, SoundAcceptance, Insert, Frame, ValidHdr,
     EngineFor, ShouldUsePoA, BulkEngine
<1>. QED
  BY <1>3, <1>4 DEF IInv


(* Every step that puts a result into the buffer for header gi keeps the   *)
(* shape of the state, given that the result is sound and gi is a header.  *)
LEMMA AppendResult ==
    ASSUME IInv, NEW r \in BOOLEAN,
           gi \in 1..Len(batch), path \in {"Bulk", "Split"},
           r => ValidHdr(batch[gi]),
           results' = Append(results, r), gi' = gi + 1, gpc' = "loop",
           lateResults' \in Nat,
           Frame, UNCHANGED <<head, importing, quit, resClosed, gerr,
                              lateVerifies, recvd, cpc>>
    PROVE  IInv'
<1>1. TypeOK'
  BY DEF IInv, TypeOK, Frame
<1>2. Counted'
  BY DEF IInv, TypeOK, Counted, Frame
<1>3. Pending'
  <2> SUFFICES ASSUME NEW j \in 1..Len(results')
               PROVE  results'[j] => ValidHdr(batch[Len(recvd) + j])'
    BY DEF Pending
  <2>1. CASE j <= Len(results)
    BY <2>1 DEF IInv, TypeOK, Pending, Frame, ValidHdr, EngineFor, ShouldUsePoA
  <2>2. CASE j = Len(results) + 1
    <3>1. results'[j] = r
      BY <2>2 DEF IInv, TypeOK
    <3>2. Len(recvd) + j = gi
      BY <2>2 DEF IInv, TypeOK, Counted
    <3>. QED
      BY <3>1, <3>2 DEF Frame, ValidHdr, EngineFor, ShouldUsePoA
  <2>. QED
    BY <2>1, <2>2 DEF IInv, TypeOK
<1>4. (Numbered /\ InFlight /\ Untouched /\ Verdict /\ BulkRouted /\ Inserting
       /\ LateOnce /\ SoundAcceptance)'
  BY DEF IInv, Numbered, InFlight, Untouched, Verdict, BulkRouted, Inserting,
     LateOnce, SoundAcceptance, Frame, ValidHdr, EngineFor, ShouldUsePoA,
     BulkEngine
<1>. QED
  BY <1>1, <1>2, <1>3, <1>4 DEF IInv

(* The inner select of the split goroutine preserves the invariant.       *)
LEMMA IInvSplitSend == ASSUME IInv, SplitSend PROVE IInv'
<1>1. Frame /\ UNCHANGED <<head, importing, quit, gerr, lateVerifies, recvd, cpc>>
  BY DEF SplitSend, Frame
<1>2. CASE SendResult
  <2>1. gi \in 1..Len(batch) /\ path = "Split" /\ gerr \in BOOLEAN
    BY DEF IInv, TypeOK, InFlight, SplitSend
  <2>2. gerr => ValidHdr(batch[gi])
    BY <2>1 DEF IInv, Verdict, SplitSend
  <2>3. lateResults' \in Nat
    BY <1>2 DEF IInv, TypeOK, SendResult
  <2>. QED
    BY <1>1, <1>2, <2>1, <2>2, <2>3, AppendResult DEF SendResult
<1>3. CASE quit /\ ReturnOnQuit
  BY <1>1, <1>3 DEF IInv, ReturnOnQuit, TypeOK, Numbered, InFlight, Counted,
     Untouched, Pending, Verdict, BulkRouted, Inserting, LateOnce,
     SoundAcceptance, Frame, ValidHdr, EngineFor, ShouldUsePoA, BulkEngine
<1>. QED
  BY <1>2, <1>3 DEF SplitSend

(* A step of the wrapped engine's goroutine preserves the invariant.      *)
LEMMA IInvBulkStep == ASSUME IInv, BulkStep PROVE IInv'
<1>1. Frame /\ UNCHANGED <<head, importing, quit, resClosed, gerr, lateVerifies,
                           lateResults, recvd, cpc>>
  BY DEF BulkStep, Frame
<1>2. CASE gi <= Len(batch) /\ results' = Append(results, EngineVerify(BulkEngine, gi))
           /\ gi' = gi + 1 /\ UNCHANGED gpc
  <2>1. gi \in 1..Len(batch) /\ path = "Bulk" /\ gpc = "loop"
    BY <1>2 DEF IInv, TypeOK, BulkStep
  <2>2. EngineVerify(BulkEngine, gi) => ValidHdr(batch[gi])
    BY <2>1 DEF IInv, BulkRouted, EngineVerify, ValidHdr
  <2>3. EngineVerify(BulkEngine, gi) \in BOOLEAN /\ lateResults' \in Nat
    BY <1>1 DEF EngineVerify, IInv, TypeOK
  <2>. QED
    BY <1>1, <1>2, <2>1, <2>2, <2>3, AppendResult
<1>3. CASE gpc' = "done" /\ UNCHANGED <<results, gi>>
  <2>1. TypeOK'
    BY <1>1, <1>3 DEF IInv, TypeOK, Frame
  <2>2. path = "Bulk"
    BY DEF BulkStep
  <2>. QED
    BY <1>1, <1>3, <2>1, <2>2 DEF IInv, Numbered, InFlight, Counted,
     Untouched, Pending, Verdict, BulkRouted, Inserting, LateOnce,
     SoundAcceptance, Frame, ValidHdr, EngineFor, ShouldUsePoA, BulkEngine
<1>. QED
  BY <1>2, <1>3 DEF BulkStep


(* The caller reading a result preserves the invariant. The result read  *)
(* is the first one pending, so it is sound; the caller writes a block    *)
(* only for a header of the batch.                                        *)
LEMMA IInvReceive == ASSUME IInv, Drained, Receive PROVE IInv'
<1>0. results # <<>>
  <2>1. cpc = "recv" /\ Len(recvd) < Len(batch) /\ (results # <<>> \/ resClosed)
    BY DEF Receive
  <2>2. ~quit
    BY <2>1 DEF Drained
  <2>3. resClosed => Len(recvd) + Len(results) = Len(batch)
    BY <2>1, <2>2 DEF Drained, IInv, Counted, TypeOK
  <2>. QED  BY <2>1, <2>3 DEF IInv, TypeOK
<1>1. Frame /\ UNCHANGED <<head, importing, resClosed, gi, gpc, gerr,
                           lateVerifies, lateResults>>
  BY DEF Receive, Frame
<1>2. /\ recvd' = Append(recvd, Head(results)) /\ results' = Tail(results)
      /\ results # <<>> /\ cpc = "recv"
      /\ quit' \in {quit, TRUE} /\ cpc' \in {"recv", "insert", "done"}
  BY <1>0 DEF Receive, ResultRead
<1>3. path # "None" /\ Len(results) \in Nat \ {0} /\ Head(results) \in BOOLEAN
  BY <1>2 DEF IInv, Untouched, TypeOK
<1>4. Len(recvd') = Len(recvd) + 1 /\ Len(results') = Len(results) - 1
      /\ Len(recvd) + 1 <= Len(batch)
  BY <1>2, <1>3 DEF IInv, TypeOK, Counted
<1>5. TypeOK'
  <2>1. recvd' \in Seq(BOOLEAN) /\ results' \in Seq(BOOLEAN)
    BY <1>2, <1>3 DEF IInv, TypeOK
  <2>2. quit' \in BOOLEAN /\ cpc' \in {"call", "recv", "insert", "done"}
    BY <1>2 DEF IInv, TypeOK
  <2>. QED
    BY <1>1, <2>1, <2>2 DEF IInv, TypeOK, Frame
<1>6. (Counted /\ Untouched /\ Inserting /\ LateOnce)'
  <2>1. Counted'
    BY <1>1, <1>3, <1>4 DEF IInv, TypeOK, Counted, Frame
  <2>2. Untouched'
    BY <1>1, <1>2, <1>3 DEF Untouched, Frame
  <2>3. Inserting'
    BY <1>1, <1>4 DEF IInv, TypeOK, Inserting, Frame
  <2>4. LateOnce'
    <3>1. lateVerifies' = lateVerifies /\ gpc' = gpc
      BY <1>1
    <3>2. quit => quit'
      BY <1>2, Zenon
    <3>. QED
      BY <3>1, <3>2 DEF IInv, LateOnce
  <2>. QED
    BY <2>1, <2>2, <2>3, <2>4
<1>7. Pending'
  <2> SUFFICES ASSUME NEW j \in 1..Len(results')
               PROVE  results'[j] => ValidHdr(batch[Len(recvd') + j])
    BY <1>1 DEF Pending, Frame, ValidHdr, EngineFor, ShouldUsePoA
  <2>1. results'[j] = results[j + 1]
    BY <1>2, <1>3, <1>4 DEF IInv, TypeOK
  <2>2. Len(recvd') + j = Len(recvd) + (j + 1) /\ j + 1 \in 1..Len(results)
    BY <1>3, <1>4 DEF IInv, TypeOK
  <2>. QED
    BY <2>1, <2>2 DEF IInv, Pending
<1>8. SoundAcceptance'
  <2> SUFFICES ASSUME NEW i \in 1..Len(recvd')
               PROVE  recvd'[i] => ValidHdr(batch[i])
    BY <1>1 DEF SoundAcceptance, Frame, ValidHdr, EngineFor, ShouldUsePoA
  <2>1. CASE i <= Len(recvd)
    <3>0. i \in 1..Len(recvd)
      BY <1>4, <2>1 DEF IInv, TypeOK
    <3>1. recvd'[i] = recvd[i]
      BY <1>2, <3>0 DEF IInv, TypeOK
    <3>. QED
      BY <3>0, <3>1, Zenon DEF IInv, SoundAcceptance
  <2>2. CASE i = Len(recvd) + 1
    <3>1. recvd'[i] = results[1] /\ 1 \in 1..Len(results)
      BY <1>2, <1>3, <2>2 DEF IInv, TypeOK
    <3>. QED
      BY <2>2, <3>1 DEF IInv, Pending
  <2>. QED
    BY <1>4, <2>1, <2>2 DEF IInv, TypeOK
<1>9. (Numbered /\ InFlight /\ Verdict /\ BulkRouted)'
  BY <1>1 DEF IInv, Numbered, InFlight, Verdict, BulkRouted, Frame, ValidHdr,
     EngineFor, ShouldUsePoA, BulkEngine
<1>. QED
  BY <1>5, <1>6, <1>7, <1>8, <1>9 DEF IInv


(* A batch forwarded whole lies on one side of the transition, so the     *)
(* engine chosen from its last header is the engine of every header.      *)
LEMMA BulkSide ==
    ASSUME TypeOK, Numbered, batch # <<>>,
           \/ batch[Len(batch)].num < transitionBlock
           \/ batch[1].num >= transitionBlock
    PROVE  \A i \in 1..Len(batch) : EngineFor(batch[i].num) = BulkEngine
<1> SUFFICES ASSUME NEW i \in 1..Len(batch)
             PROVE  EngineFor(batch[i].num) = BulkEngine
  OBVIOUS
<1>0. Len(batch) \in Nat \ {0} /\ \A k \in 1..Len(batch) : batch[k] \in Hdr
  BY DEF TypeOK
<1>1. Len(batch) \in Nat \ {0} /\ batch[i].num \in Nat /\ batch[1].num \in Nat
      /\ batch[Len(batch)].num \in Nat
  BY <1>0 DEF Hdr
<1>2. batch[1].num <= batch[i].num /\ batch[i].num <= batch[Len(batch)].num
  BY <1>1 DEF Numbered
<1>3. transitionBlock \in Nat
  BY DEF TypeOK
<1>4. CASE batch[Len(batch)].num < transitionBlock
  <2>1. ~ShouldUsePoA(batch[i].num)
    BY <1>1, <1>2, <1>3, <1>4 DEF ShouldUsePoA
  <2>. QED
    BY <1>4, <2>1 DEF EngineFor, BulkEngine
<1>5. CASE batch[1].num >= transitionBlock
  <2>1. ShouldUsePoA(batch[i].num) /\ ~(batch[Len(batch)].num < transitionBlock)
    BY <1>1, <1>2, <1>3, <1>5 DEF ShouldUsePoA
  <2>. QED
    BY <2>1 DEF EngineFor, BulkEngine
<1>. QED
  BY <1>4, <1>5

(* The call preserves the invariant: it starts from the untouched state,  *)
(* and it forwards a batch whole only when the batch is on one side.      *)
LEMMA IInvVerifyHeaders == ASSUME IInv, VerifyHeaders PROVE IInv'
<1>1. UNCHANGED <<transitionBlock, head, batch, importing, results, gi, gerr,
                 lateVerifies, lateResults, recvd>>
  BY DEF VerifyHeaders
<1>2. path = "None" /\ recvd = <<>> /\ results = <<>> /\ gi = 1 /\ gpc = "loop"
  BY DEF IInv, Untouched, VerifyHeaders
<1>3. CASE batch = <<>>
  <2>1. path' = "Empty" /\ quit' = TRUE /\ resClosed' = TRUE /\ gpc' = "done"
        /\ cpc' = "done"
    BY <1>3 DEF VerifyHeaders
  <2>2. TypeOK'
    BY <1>1, <1>2, <2>1 DEF IInv, TypeOK
  <2>. QED
    BY <1>1, <1>2, <1>3, <2>1, <2>2 DEF IInv, Numbered, InFlight, Counted,
       Untouched, Pending, Verdict, BulkRouted, Inserting, LateOnce,
       SoundAcceptance
<1>4. CASE batch # <<>>
  <2>1. /\ path' = IF \/ batch[Len(batch)].num < transitionBlock
                      \/ batch[1].num >= transitionBlock
                   THEN "Bulk" ELSE "Split"
        /\ cpc' = "recv" /\ UNCHANGED <<quit, resClosed, gpc>>
    BY <1>4 DEF VerifyHeaders
  <2>2. TypeOK'
    BY <1>1, <1>2, <2>1 DEF IInv, TypeOK
  <2>3. BulkRouted'
    BY <1>1, <1>4, <2>1, BulkSide DEF IInv, BulkRouted, EngineFor,
       ShouldUsePoA, BulkEngine
  <2>4. (Numbered /\ InFlight /\ Counted /\ Untouched /\ Pending /\ Verdict
         /\ Inserting /\ LateOnce /\ SoundAcceptance)'
    BY <1>1, <1>2, <2>1 DEF IInv, Numbered, InFlight, Counted, Untouched,
       Pending, Verdict, Inserting, LateOnce, SoundAcceptance
  <2>. QED
    BY <2>2, <2>3, <2>4 DEF IInv
<1>. QED
  BY <1>3, <1>4


(* Every step of Next, and every stuttering step, preserves the invariant. *)
LEMMA IInvStep == IInv /\ Drained /\ [Next]_vars => IInv'
<1> SUFFICES ASSUME IInv, Drained, [Next]_vars PROVE IInv'
  OBVIOUS
<1>1. CASE VerifyHeaders
  BY <1>1, IInvVerifyHeaders
<1>2. CASE SplitLoop
  BY <1>2, IInvSplitLoop
<1>3. CASE SplitVerify
  BY <1>3, IInvSplitVerify
<1>4. CASE SplitSend
  BY <1>4, IInvSplitSend
<1>5. CASE BulkStep
  BY <1>5, IInvBulkStep
<1>6. CASE Receive
  BY <1>6, IInvReceive
<1>7. CASE Insert
  BY <1>7, IInvInsert
<1>8. CASE UNCHANGED vars
  BY <1>8 DEF vars, IInv, TypeOK, Numbered, InFlight, Counted, Untouched,
     Pending, Verdict, BulkRouted, Inserting, LateOnce, SoundAcceptance,
     ValidHdr, EngineFor, ShouldUsePoA, BulkEngine
<1>. QED
  BY <1>1, <1>2, <1>3, <1>4, <1>5, <1>6, <1>7, <1>8 DEF Next

(* Init closes neither channel.                                           *)
LEMMA DrainedInit == Init => Drained
  BY DEF Init, Drained

(* Only the caller closes abort, as it finishes; only the goroutine's     *)
(* deferred close closes results, as it returns on abort or past the last *)
(* header; and a goroutine that has returned never moves again.           *)
LEMMA DrainedStep == IInv /\ Drained /\ [Next]_vars => Drained'
<1> SUFFICES ASSUME IInv, Drained, [Next]_vars PROVE Drained'
  OBVIOUS
<1>1. CASE VerifyHeaders
  BY <1>1 DEF VerifyHeaders, Drained, IInv, Untouched
<1>2. CASE SplitLoop
  <2>1. path = "Split" /\ gpc = "loop" /\ ~resClosed
        /\ UNCHANGED <<quit, cpc, gi, batch, path>>
    BY <1>2 DEF SplitLoop, Drained
  <2>2. CASE gi > Len(batch) \/ quit
    <3>1. gpc' = "done" /\ resClosed' = TRUE
      BY <1>2, <2>2 DEF SplitLoop
    <3>. QED  BY <2>1, <2>2, <3>1 DEF Drained
  <2>3. CASE ~(gi > Len(batch) \/ quit)
    <3>1. gpc' = "verify" /\ resClosed' = resClosed
      BY <1>2, <2>3 DEF SplitLoop
    <3>. QED  BY <2>1, <3>1 DEF Drained
  <2>. QED  BY <2>2, <2>3
<1>3. CASE SplitVerify
  BY <1>3 DEF SplitVerify, Drained
<1>4. CASE SplitSend
  <2>1. gpc = "send" /\ ~resClosed /\ UNCHANGED <<quit, cpc, batch, path>>
    BY <1>4 DEF SplitSend, Drained
  <2>2. CASE SendResult
    <3>1. gpc' = "loop" /\ resClosed' = resClosed
      BY <2>2 DEF SendResult
    <3>. QED  BY <2>1, <3>1 DEF Drained
  <2>3. CASE quit /\ ReturnOnQuit
    <3>1. gpc' = "done" /\ quit'
      BY <2>1, <2>3 DEF ReturnOnQuit
    <3>. QED  BY <2>1, <2>3, <3>1 DEF Drained
  <2>. QED  BY <1>4, <2>2, <2>3 DEF SplitSend
<1>5. CASE BulkStep
  BY <1>5 DEF BulkStep, Drained
<1>6. CASE Receive
  BY <1>6 DEF Receive, Drained
<1>7. CASE Insert
  BY <1>7 DEF Insert, Drained
<1>8. CASE UNCHANGED vars
  BY <1>8 DEF vars, Drained
<1>. QED
  BY <1>1, <1>2, <1>3, <1>4, <1>5, <1>6, <1>7, <1>8 DEF Next

-----------------------------------------------------------------------------
(* Every state of VerifyHeaders and its caller is well typed: the results  *)
(* channel and the caller's record hold booleans, and the goroutine's      *)
(* index stays within one past the batch.                                  *)
THEOREM BatchTypeCorrect == Spec => []TypeOK
<1>1. IInv => TypeOK
  BY DEF IInv
<1>. QED
  BY <1>1, IInvInit, DrainedInit, IInvStep, DrainedStep, PTL DEF Spec

(* The caller of Hybrid.VerifyHeaders never accepts a header that breaks  *)
(* the rules of its number's era, on the bulk path (endpoint routing) and *)
(* on the split path (VerifyHeader's own comparison), however the caller  *)
(* interleaves with the goroutine, for every transition block, head and    *)
(* batch length.                                                           *)
THEOREM BatchSound == Spec => []SoundAcceptance
<1>1. IInv => SoundAcceptance
  BY DEF IInv
<1>. QED
  BY <1>1, IInvInit, DrainedInit, IInvStep, DrainedStep, PTL DEF Spec

(* After the caller closes abort, the split goroutine of VerifyHeaders     *)
(* makes at most one more VerifyHeader call, whatever the batch length.   *)
THEOREM AbortBounded == Spec => []AbortStopsVerification
<1>1. IInv => AbortStopsVerification
  BY DEF IInv, LateOnce, AbortStopsVerification
<1>. QED
  BY <1>1, IInvInit, DrainedInit, IInvStep, DrainedStep, PTL DEF Spec

-----------------------------------------------------------------------------
(* The caller is about to write a block only after reading a nil result   *)
(* for it.                                                                 *)
InsertAccepted == cpc = "insert" => recvd[Len(recvd)]

LEMMA InsertAcceptedInit == Init => InsertAccepted
BY DEF Init, InsertAccepted

(* Only Receive moves the caller to "insert", and only on a nil result.   *)
LEMMA InsertAcceptedStep ==
    IInv /\ InsertAccepted /\ [Next]_vars => InsertAccepted'
<1> SUFFICES ASSUME IInv, InsertAccepted, [Next]_vars PROVE InsertAccepted'
  OBVIOUS
<1>1. CASE Receive
  <2>1. recvd \in Seq(BOOLEAN) /\ ResultRead \in BOOLEAN
    <3>1. recvd \in Seq(BOOLEAN) /\ results \in Seq(BOOLEAN)
      BY DEF IInv, TypeOK
    <3>2. results # <<>> => Head(results) \in BOOLEAN
      BY <3>1
    <3>. QED  BY <3>1, <3>2 DEF ResultRead
  <2>2. recvd' = Append(recvd, ResultRead)
    BY <1>1 DEF Receive
  <2>3. recvd'[Len(recvd')] = ResultRead
    BY <2>1, <2>2
  <2>4. cpc' = "insert" => ResultRead
    BY <1>1 DEF Receive
  <2>. QED  BY <2>3, <2>4 DEF InsertAccepted
<1>2. CASE VerifyHeaders \/ Insert
  BY <1>2 DEF VerifyHeaders, Insert, InsertAccepted
<1>3. CASE SplitLoop \/ SplitVerify \/ SplitSend \/ BulkStep \/ UNCHANGED vars
  BY <1>3 DEF SplitLoop, SplitVerify, SplitSend, BulkStep, vars, InsertAccepted
<1>. QED  BY <1>1, <1>2, <1>3 DEF Next

(* The caller of Hybrid.VerifyHeaders writes a block only after reading a *)
(* nil result for it, and every block it writes follows the rules of its  *)
(* number's era, for every transition block, head and batch length and    *)
(* however the goroutine's late results interleave with the writes.        *)
THEOREM WritesAccepted == Spec => WritesOnlyAccepted
<1> DEFINE Wrote == head' # head =>
                       /\ Len(recvd) \in 1..Len(batch) /\ recvd[Len(recvd)]
                       /\ head' = batch[Len(recvd)].num
                       /\ ValidHdr(batch[Len(recvd)])
<1>1. IInv /\ InsertAccepted /\ [Next]_vars => [Wrote]_vars
  <2> SUFFICES ASSUME IInv, InsertAccepted, [Next]_vars PROVE [Wrote]_vars
    OBVIOUS
  <2>1. CASE Insert
    <3>1. Len(recvd) \in 1..Len(batch) /\ recvd[Len(recvd)]
      BY <2>1 DEF Insert, IInv, Inserting, InsertAccepted
    <3>2. ValidHdr(batch[Len(recvd)])
      BY <3>1 DEF IInv, SoundAcceptance
    <3>. QED  BY <2>1, <3>1, <3>2 DEF Insert
  <2>2. CASE ~Insert
    <3>1. head' = head
      BY <2>2 DEF Next, VerifyHeaders, SplitLoop, SplitVerify, SplitSend, BulkStep,
                  Receive, vars
    <3>. QED  BY <3>1
  <2>. QED  BY <2>1, <2>2
<1>2. QED
  BY <1>1, IInvInit, DrainedInit, IInvStep, DrainedStep, InsertAcceptedInit,
     InsertAcceptedStep, PTL
  DEF Spec, WritesOnlyAccepted

=============================================================================
