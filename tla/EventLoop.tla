----------------------------- MODULE EventLoop -----------------------------
(***************************************************************************)
(* The loop the three services share, and services/internal/bridgesafe's   *)
(* Send: scan the events from a cursor to the head, handle each in order,  *)
(* move the cursor.  A failed head or log query changes nothing and is no  *)
(* step.                                                                   *)
(*                                                                         *)
(* A service handles the event of block `at` in steps of its own while     *)
(* pc = "handle"; "wait" is waitForReceipt.  The process may die between   *)
(* any two steps; what it had sent is still pending then.                  *)
(***************************************************************************)
EXTENDS ServiceChain, FiniteSetsExt

CONSTANTS
    Lookback,      \* blocks scanned behind the head at start-up
    Fault,         \* the kinds of failure that may be met
    MaxMishaps,    \* bound: failures met and times the process dies
    MaxDowntime    \* bound: blocks made without a watched event before a process restarts

ASSUME LoopAssumption == Lookback \in Nat /\ MaxMishaps \in Nat /\ MaxDowntime \in Nat

VARIABLES
    pc,          \* "poll", "handle", "wait" or a step of the service's own
    next,        \* first block not scanned yet
    head,        \* last block of the range being handled
    at,          \* the block being handled, or head + 1
    done,        \* what this process need not handle again
    mempool,     \* external: calls sent but not included yet, in nonce order
    receipt,     \* of the transaction waited for
    headAtStart, \* history: the head when this process started
    faults, restarts

rangeVars == <<next, head>>
limitVars == <<headAtStart, faults, restarts>>
loopVars == <<pc, rangeVars, at, done, mempool, receipt, limitVars>>

LoopInit ==
    /\ pc = "poll"
    /\ next = 0
    /\ head = 0
    /\ at = 0
    /\ done = {}
    /\ mempool = <<>>
    /\ receipt = "none"
    /\ headAtStart = 0
    /\ faults = 0
    /\ restarts = 0

\* The first open block in b..last is handled; the others are passed over.
goOnFrom(b, last, open) ==
    /\ pc' = "handle"
    /\ at' = Min({last + 1} \cup ((b..last) \cap open))

\* The handler returns; the loop goes on with the next log.
nextLog(open) == goOnFrom(at + 1, head, open)

\* A tick: read the head and the logs up to it.
poll(open) ==
    /\ pc = "poll"
    /\ BlockNumber >= next
    /\ head' = BlockNumber
    /\ goOnFrom(next, BlockNumber, open)
    /\ UNCHANGED <<next, done, mempool, receipt, limitVars>>

handling == pc = "handle" /\ at <= head

endOfRange_SkipsBlock(again) ==
    /\ pc = "handle"
    /\ at > head
    /\ pc' = "poll"
    /\ next' = IF again THEN next ELSE head + 2
    /\ head' = 0
    /\ at' = 0
    /\ UNCHANGED <<done, mempool, receipt, limitVars>>
\* The cursor passes the range unless it is to be scanned again.
endOfRange(again) ==
    /\ pc = "handle"
    /\ at > head
    /\ pc' = "poll"
    /\ next' = IF again THEN next ELSE head + 1
    /\ head' = 0
    /\ at' = 0
    /\ UNCHANGED <<done, mempool, receipt, limitVars>>

\* A failure that the loop only logs.
meet(kind) ==
    /\ kind \in Fault
    /\ faults + restarts < MaxMishaps
    /\ faults' = faults + 1
    /\ UNCHANGED <<headAtStart, restarts>>

-----------------------------------------------------------------------------
(* Send *)

\* The transaction is signed with the next pending nonce and sent.
sendTransaction(call) ==
    /\ mempool' = Append(mempool, call)
    /\ pc' = "wait"
    /\ UNCHANGED <<rangeVars, at, receipt, limitVars>>

\* The process waits for its own transaction, the last one it sent.
included(status) ==
    /\ mempool' = Tail(mempool)
    /\ receipt' = IF pc = "wait" /\ Len(mempool) = 1 THEN status ELSE receipt
    /\ UNCHANGED <<pc, rangeVars, at, done, limitVars>>

\* waitForReceipt: a reverted transaction is an error, and the key is not done.
awaitReceipt_Ignored(key) ==
    /\ pc = "wait"
    /\ receipt # "none"
    /\ receipt' = "none"
    /\ done' = done \cup {key}
awaitReceipt(key) ==
    /\ pc = "wait"
    /\ receipt # "none"
    /\ receipt' = "none"
    /\ done' = IF receipt = "success" THEN done \cup {key} ELSE done

-----------------------------------------------------------------------------
(* Restart *)

StartBlock_AfterHead == BlockNumber + 1
\* Where a new process starts to scan when -from is left at 0.
StartBlock == IF BlockNumber > Lookback THEN BlockNumber - Lookback ELSE 0

\* External: blocks without an event that is watched, which a running process passes over.
quietBlocks(n) == [b \in 1..n |-> [event |-> "none", id |-> 0, instruction |-> 0]]

\* The block is one that this process may scan: its look-back reached it at the start.
InReach(b) == b + Lookback >= headAtStart

\* The process dies, and another starts when the head has moved.
restart ==
    /\ \E n \in 0..MaxDowntime : events' = events \o quietBlocks(n)
    /\ UNCHANGED controllerVars
    /\ faults + restarts < MaxMishaps
    /\ restarts' = restarts + 1
    /\ pc' = "poll"
    /\ next' = StartBlock'
    /\ head' = 0
    /\ at' = 0
    /\ done' = {}
    /\ receipt' = "none"
    /\ headAtStart' = BlockNumber'
    /\ UNCHANGED <<mempool, faults>>

LoopTypeOK ==
    /\ next \in 0..(BlockNumber + 1) /\ head \in 0..BlockNumber /\ at \in 0..(head + 1)
    /\ headAtStart \in 0..BlockNumber
    /\ receipt \in {"none", "success", "reverted"}
=============================================================================
