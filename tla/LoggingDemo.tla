----------------------------- MODULE LoggingDemo -----------------------------
(***************************************************************************)
(* The logging demonstration program (logging_demo.go, lines 22-74) and    *)
(* the parts of Hybrid it calls: New's startup logs, Author and Close.      *)
(*                                                                         *)
(* main builds a chain config with the transition at block 10, creates     *)
(* the engine through ethconfig.CreateConsensusEngine (returning on an     *)
(* error), defers engine.Close(), and calls engine.Author on a header for  *)
(* each of the blocks 8..12. The log is a sequence of records: the message *)
(* and, where the message has them, the block and the wrapped engine it    *)
(* names. Field values and wording are left out.                           *)
(***************************************************************************)
EXTENDS Naturals, Sequences

CONSTANTS
    TransitionBlock,    \* config.PoSToPoATransitionBlock
    FirstBlock,         \* the first block number of the loop
    LastBlock           \* the last one

ASSUME DemoAssumption ==
    /\ TransitionBlock \in Nat /\ FirstBlock \in Nat /\ LastBlock \in Nat
    /\ FirstBlock <= LastBlock

PoS == "PoS"    \* the beacon-wrapped clique engine
PoA == "PoA"    \* the plain clique engine
NoEngine == "none"

Msgs == {"CreateFailed", "Created", "Configuration", "Transition",
         "AuthorError", "Closing", "CloseError"}

LogRecord == [msg : Msgs, block : Nat, eng : {PoS, PoA, NoEngine}]
Log(m, b, e) == [msg |-> m, block |-> b, eng |-> e]

VARIABLES
    pc,         \* main's place: "create", "loop", "author", "close", "end"
    blockNum,   \* the loop variable
    engine,     \* "none" before creation, "open", "closed" after Close
    logs        \* the log records emitted, in order

vars == <<pc, blockNum, engine, logs>>

Init ==
    /\ pc = "create" /\ blockNum = FirstBlock /\ engine = "none" /\ logs = <<>>

(* Mutant: main also closes the engine as soon as it has it.           *)
CreateEngineCloseNow ==
    /\ pc = "create"
    /\ \/ /\ logs' = Append(logs, Log("CreateFailed", 0, NoEngine))
          /\ pc' = "end"
          /\ UNCHANGED engine
       \/ /\ logs' = logs \o << Log("Created", 0, NoEngine),
                              Log("Configuration", 0, NoEngine),
                              Log("Closing", 0, NoEngine) >>
          /\ engine' = "closed"
          /\ pc' = "loop"
    /\ UNCHANGED blockNum

(* CreateConsensusEngine with a transition block: a Hybrid over           *)
(* beacon(clique) and clique, made by New, which logs the configuration    *)
(* twice (Requirement 4.4). On an error main logs it and returns before    *)
(* the defer is registered.                                                *)
CreateEngine ==
    /\ pc = "create"
    /\ \/ /\ logs' = Append(logs, Log("CreateFailed", 0, NoEngine))
          /\ pc' = "end"
          /\ UNCHANGED engine
       \/ /\ logs' = logs \o << Log("Created", 0, NoEngine),
                              Log("Configuration", 0, NoEngine) >>
          /\ engine' = "open"
          /\ pc' = "loop"
    /\ UNCHANGED blockNum

(* The loop test: the next block, or the end of main, where the deferred *)
(* Close runs.                                                             *)
Loop ==
    /\ pc = "loop"
    /\ pc' = IF blockNum <= LastBlock THEN "author" ELSE "close"
    /\ UNCHANGED <<blockNum, engine, logs>>

(* engine.Author(header) and the sleep. Hybrid.Author picks the wrapped   *)
(* engine by comparing the number with transitionBlock itself: it calls   *)
(* neither selectEngine nor shouldUsePoA, and logs only when the wrapped  *)
(* engine fails (Requirement 4.3), naming that engine. Whether the        *)
(* wrapped Author fails is open: those engines are outside the            *)
(* repository. main logs the error at Debug and goes on.                  *)
Author ==
    /\ pc = "author"
    /\ LET eng == IF blockNum < TransitionBlock THEN PoS ELSE PoA
       IN \/ UNCHANGED logs
          \/ logs' = Append(logs, Log("AuthorError", blockNum, eng))
    /\ blockNum' = blockNum + 1
    /\ pc' = "loop"
    /\ UNCHANGED engine

(* The records Hybrid.Close logs: its own, then one for each wrapped      *)
(* engine that fails to close, PoS first.                                  *)
CloseLogs(errPoS, errPoA) ==
    << Log("Closing", 0, NoEngine) >>
        \o (IF errPoS THEN << Log("CloseError", 0, PoS) >> ELSE <<>>)
        \o (IF errPoA THEN << Log("CloseError", 0, PoA) >> ELSE <<>>)

(* The deferred engine.Close(): both wrapped engines are closed whatever  *)
(* the first returns. main then returns.                                  *)
Close ==
    /\ pc = "close"
    /\ \E errPoS, errPoA \in BOOLEAN : logs' = logs \o CloseLogs(errPoS, errPoA)
    /\ engine' = "closed"
    /\ pc' = "end"
    /\ UNCHANGED blockNum

Next == CreateEngine \/ Loop \/ Author \/ Close

(* main runs to completion on its own goroutine.                          *)
Spec == Init /\ [][Next]_vars /\ WF_vars(Next)

-----------------------------------------------------------------------------
(* Every variable keeps its shape.                                        *)
TypeOK ==
    /\ pc \in {"create", "loop", "author", "close", "end"}
    /\ blockNum \in FirstBlock..(LastBlock + 1)
    /\ engine \in {"none", "open", "closed"}
    /\ logs \in Seq(LogRecord)

(* The deferred Close runs once, after every Author call: no record of    *)
(* an Author call follows the Closing record, and a main that created the  *)
(* engine ends with it closed and the Closing record logged.              *)
ClosedAfterUse ==
    /\ \A i, j \in 1..Len(logs) :
          (i < j /\ logs[i].msg = "Closing") => logs[j].msg = "CloseError"
    /\ (pc = "end" /\ engine # "none") =>
          /\ engine = "closed"
          /\ \E i \in 1..Len(logs) : logs[i].msg = "Closing"

(* The demonstration shows the consensus transition being logged: the     *)
(* loop runs across the transition block "to trigger logging", and        *)
(* LOGGING_VERIFICATION.md places the Requirement 4.1 log in selectEngine. *)
DemoLogsTransition ==
    (pc = "end" /\ engine # "none") =>
        \E i \in 1..Len(logs) : logs[i].msg = "Transition"
=============================================================================
