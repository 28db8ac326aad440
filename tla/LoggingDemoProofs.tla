-------------------------- MODULE LoggingDemoProofs --------------------------
(***************************************************************************)
(* Proofs about the logging demonstration: its log records stay well      *)
(* formed and the deferred Close is the last thing main does to the       *)
(* engine.                                                                 *)
(***************************************************************************)
EXTENDS LoggingDemo, SequenceTheorems, TLAPS

(* No record of the log is the Closing record.                            *)
NotClosed == \A i \in 1..Len(logs) : logs[i].msg # "Closing"

(* Where main is, what it holds: the engine is open throughout the loop,  *)
(* nothing is logged before creation, the loop variable stays in range    *)
(* while Author runs, and a closed engine means main has returned.        *)
Phase ==
    /\ pc = "create" => engine = "none" /\ logs = <<>>
    /\ pc \in {"loop", "author", "close"} => engine = "open" /\ NotClosed
    /\ pc = "author" => blockNum <= LastBlock
    /\ engine = "none" => pc \in {"create", "end"}
    /\ engine = "closed" => pc = "end" /\ ~NotClosed

(* The inductive invariant.                                               *)
IInv == TypeOK /\ Phase /\ ClosedAfterUse

-----------------------------------------------------------------------------
(* The records Close appends are well formed: the Closing record first,   *)
(* then only CloseError records.                                           *)
LEMMA CloseLogsShape ==
    ASSUME NEW a \in BOOLEAN, NEW b \in BOOLEAN
    PROVE  /\ CloseLogs(a, b) \in Seq(LogRecord)
           /\ Len(CloseLogs(a, b)) \in 1..3
           /\ CloseLogs(a, b)[1].msg = "Closing"
           /\ \A k \in 2..Len(CloseLogs(a, b)) : CloseLogs(a, b)[k].msg = "CloseError"
<1>1. /\ Log("Closing", 0, NoEngine) \in LogRecord
      /\ Log("CloseError", 0, PoS) \in LogRecord
      /\ Log("CloseError", 0, PoA) \in LogRecord
  BY DEF Log, LogRecord, Msgs, PoS, PoA, NoEngine
<1>2. CASE a /\ b
  BY <1>1, <1>2 DEF CloseLogs, Log
<1>3. CASE a /\ ~b
  BY <1>1, <1>3 DEF CloseLogs, Log
<1>4. CASE ~a /\ b
  BY <1>1, <1>4 DEF CloseLogs, Log
<1>5. CASE ~a /\ ~b
  BY <1>1, <1>5 DEF CloseLogs, Log
<1>. QED  BY <1>2, <1>3, <1>4, <1>5

(* main starts in a state of the invariant.                               *)
LEMMA IInvInit == Init => IInv
BY DemoAssumption DEF Init, IInv, TypeOK, Phase,
                      ClosedAfterUse, NotClosed

-----------------------------------------------------------------------------
(* Creating the engine: on failure main returns with nothing to close; on *)
(* success the log holds only New's two records.                           *)
LEMMA IInvCreateEngine == IInv /\ CreateEngine => IInv'
<1> SUFFICES ASSUME IInv, CreateEngine PROVE IInv'  OBVIOUS
<1>1. /\ Log("CreateFailed", 0, NoEngine) \in LogRecord
      /\ Log("Created", 0, NoEngine) \in LogRecord
      /\ Log("Configuration", 0, NoEngine) \in LogRecord
  BY DEF Log, LogRecord, Msgs, NoEngine
<1>2. logs = <<>> /\ engine = "none" /\ blockNum \in FirstBlock..(LastBlock + 1)
  BY DEF IInv, Phase, CreateEngine, TypeOK
<1>3. CASE pc' = "end"
  <2>1. logs' = << Log("CreateFailed", 0, NoEngine) >> /\ engine' = "none"
    BY <1>2, <1>3 DEF CreateEngine
  <2>. QED  BY <1>1, <1>2, <1>3, <2>1 DEF CreateEngine, IInv, TypeOK, Phase,
                ClosedAfterUse, NotClosed, Log
<1>4. CASE pc' = "loop"
  <2>1. logs' = << Log("Created", 0, NoEngine), Log("Configuration", 0, NoEngine) >>
        /\ engine' = "open"
    BY <1>2, <1>4 DEF CreateEngine
  <2>. QED  BY <1>1, <1>2, <1>4, <2>1 DEF CreateEngine, IInv, TypeOK, Phase,
                ClosedAfterUse, NotClosed, Log
<1>. QED  BY <1>3, <1>4 DEF CreateEngine

(* The loop test changes only where main is.                              *)
LEMMA IInvLoop == IInv /\ Loop => IInv'
BY DEF Loop, IInv, TypeOK, Phase, ClosedAfterUse, NotClosed

(* An Author call logs at most one error, naming the engine it used.      *)
LEMMA IInvAuthor == IInv /\ Author => IInv'
<1> SUFFICES ASSUME IInv, Author PROVE IInv'  OBVIOUS
<1> DEFINE eng == IF blockNum < TransitionBlock THEN PoS ELSE PoA
           rec == Log("AuthorError", blockNum, eng)
<1>1. /\ pc = "author" /\ engine = "open" /\ NotClosed
      /\ blockNum \in FirstBlock..LastBlock /\ logs \in Seq(LogRecord)
  BY DEF Author, IInv, Phase, TypeOK
<1>2. /\ pc' = "loop" /\ engine' = "open" /\ blockNum' = blockNum + 1
      /\ blockNum' \in FirstBlock..(LastBlock + 1)
  <2>1. pc' = "loop" /\ engine' = engine /\ blockNum' = blockNum + 1
    BY DEF Author
  <2>. QED  BY <1>1, <2>1, DemoAssumption
<1>3. rec \in LogRecord
  BY <1>1, DemoAssumption DEF Log, LogRecord, Msgs, PoS, PoA
<1>4. CASE logs' = logs
  BY <1>1, <1>2, <1>4 DEF IInv, TypeOK, Phase,
                          ClosedAfterUse, NotClosed
<1>5. CASE logs' = Append(logs, rec)
  <2>1. /\ logs' \in Seq(LogRecord) /\ Len(logs') = Len(logs) + 1
        /\ \A i \in 1..Len(logs) : logs'[i] = logs[i]
        /\ logs'[Len(logs) + 1] = rec
    BY <1>1, <1>3, <1>5, AppendProperties
  <2>2. TypeOK'
    BY <1>2, <2>1 DEF TypeOK
  <2>3. Phase'
    BY <1>1, <1>2, <2>1 DEF Phase, NotClosed, Log
  <2>5. ClosedAfterUse'
    BY <1>1, <1>2, <2>1 DEF ClosedAfterUse, NotClosed
  <2>. QED  BY <2>2, <2>3, <2>5 DEF IInv
<1>. QED  BY <1>4, <1>5 DEF Author

(* Close appends its records after every Author record, and leaves the    *)
(* engine closed with main returned.                                       *)
LEMMA IInvClose == IInv /\ Close => IInv'
<1> SUFFICES ASSUME IInv, Close PROVE IInv'  OBVIOUS
<1>1. PICK a \in BOOLEAN, b \in BOOLEAN : logs' = logs \o CloseLogs(a, b)
  BY DEF Close
<1> DEFINE cl == CloseLogs(a, b)
<1>2. /\ pc = "close" /\ NotClosed /\ logs \in Seq(LogRecord)
      /\ blockNum \in FirstBlock..(LastBlock + 1)
  BY DEF Close, IInv, Phase, TypeOK
<1>11. Len(logs) \in Nat
  BY <1>2, LenProperties
<1>3. /\ cl \in Seq(LogRecord) /\ Len(cl) \in 1..3 /\ cl[1].msg = "Closing"
      /\ \A k \in 2..Len(cl) : cl[k].msg = "CloseError"
  BY CloseLogsShape
<1>4. /\ logs' \in Seq(LogRecord) /\ Len(logs') = Len(logs) + Len(cl)
      /\ \A i \in 1..Len(logs') :
            logs'[i] = IF i <= Len(logs) THEN logs[i] ELSE cl[i - Len(logs)]
  BY <1>1, <1>2, <1>3, ConcatProperties
<1>5. pc' = "end" /\ engine' = "closed" /\ blockNum' = blockNum
  BY DEF Close
<1>6. TypeOK'
  BY <1>2, <1>4, <1>5 DEF TypeOK
<1>7. logs'[Len(logs) + 1].msg = "Closing"
  BY <1>3, <1>4, <1>11
<1>8. Phase'
  BY <1>3, <1>4, <1>5, <1>7 DEF Phase, NotClosed
<1>10. ClosedAfterUse'
  <2>1. ASSUME NEW i \in 1..Len(logs'), NEW j \in 1..Len(logs'),
               i < j, logs'[i].msg = "Closing"
        PROVE  logs'[j].msg = "CloseError"
    <3>1. i > Len(logs)
      BY <1>2, <1>4, <2>1 DEF NotClosed
    <3>2. j - Len(logs) \in 2..Len(cl) /\ logs'[j] = cl[j - Len(logs)]
      BY <1>3, <1>4, <1>11, <2>1, <3>1
    <3>. QED  BY <1>3, <3>2
  <2>2. \E i \in 1..Len(logs') : logs'[i].msg = "Closing"
    <3>1. Len(logs) + 1 \in 1..Len(logs')
      BY <1>3, <1>4, <1>11
    <3>. QED  BY <1>7, <3>1
  <2>. QED  BY <1>5, <2>1, <2>2 DEF ClosedAfterUse
<1>. QED  BY <1>6, <1>8, <1>10 DEF IInv

(* A stuttering step keeps the invariant.                                 *)
LEMMA IInvStutter == IInv /\ UNCHANGED vars => IInv'
BY DEF vars, IInv, TypeOK, Phase, ClosedAfterUse, NotClosed

(* The invariant is inductive.                                            *)
LEMMA IInvStep == IInv /\ [Next]_vars => IInv'
BY IInvCreateEngine, IInvLoop, IInvAuthor, IInvClose, IInvStutter DEF Next

-----------------------------------------------------------------------------
(* Every run of main keeps the inductive invariant.                       *)
THEOREM DemoInvariant == Spec => []IInv
<1>1. Init => IInv  BY IInvInit
<1>2. IInv /\ [Next]_vars => IInv'  BY IInvStep
<1>. QED  BY <1>1, <1>2, PTL DEF Spec

(* The deferred Close follows every Author call and runs before main      *)
(* returns, for every transition block and loop range.                     *)
THEOREM ClosedAfterUseHolds == Spec => []ClosedAfterUse
<1>1. IInv => ClosedAfterUse  BY DEF IInv
<1>. QED  BY <1>1, DemoInvariant, PTL
=============================================================================
