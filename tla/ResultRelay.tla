---------------------------- MODULE ResultRelay ----------------------------
(***************************************************************************)
(* services/cmd/result-relay: scans the controller's dispatching events,   *)
(* collects the enclave's signed answer to each from the extension proxy   *)
(* and calls the controller with it.                                       *)
(*                                                                         *)
(* A step ends where the chain, the proxy or the clock may move: at an RPC *)
(* answer, at an HTTP answer and while waiting for a receipt.  A failed    *)
(* head or log query leaves everything as it was and is no step.           *)
(***************************************************************************)
EXTENDS EventLoop

CONSTANTS
    NoAnswer,
    FromTreasury   \* start with a treasury bound, or with none

VARIABLES
    answers,     \* external: the proxy's result of each instruction, or NoAnswer
    pending,     \* an answer in this range was not ready
    age          \* of firstSeen: "unseen", "fresh", or "overdue" after patience

relayVars == <<chainVars, loopVars, answers, pending, age>>

InstructionId == 1..MaxInstructions

-----------------------------------------------------------------------------
(* The enclave, as the services depend on it *)

NoData == [kind |-> "none"]

\* What a successful handler returns for the instruction.
SuccessData(i) ==
    LET h == i.header IN
    CASE i.command = "CREATE_TREASURY_KEY" ->
           {d \in BindData : /\ d.deployment = h.deployment
                             /\ d.treasuryId = h.treasuryId
                             /\ d.xrplAddress # Empty
                             /\ d.policyCommitment = h.policyCommitment}
      [] i.command = "REGISTER_POLICY" ->
           {[kind |-> "confirm", deployment |-> h.deployment, treasuryId |-> h.treasuryId,
             policy |-> i.body, commitment |-> h.policyCommitment]}
      [] i.command = "AUTHORIZE_PAYMENT" ->
           {d \in AuthorizationData : /\ d.deployment = h.deployment
                                      /\ d.requestId = h.requestId
                                      /\ d.memoRef = h.memoRef
                                      /\ d.destinationHash # NoHash
                                      /\ d.payloadHash = Keccak(i.body)}
      [] i.command = "SIGN_XRPL_PAYMENT" ->
           {d \in SignedData : /\ d.deployment = h.deployment
                               /\ d.requestId = h.requestId
                               /\ d.memoRef = h.memoRef
                               /\ d.expectedTxId # NoHash
                               /\ d.signedTxBlob # Empty}

\* A refusal carries no data (buildResult).
RefusalData == {NoData}

\* The enclave finishes an instruction and the proxy serves what it signed.
EnclaveAnswers(i) ==
    /\ answers[i] = NoAnswer
    /\ \/ \E d \in SuccessData(instructions[i]) :
             answers' = [answers EXCEPT ![i] = [signer |-> teeAddress, status |-> 1, data |-> d]]
       \/ \E d \in RefusalData :
             answers' = [answers EXCEPT ![i] = [signer |-> teeAddress, status |-> 0, data |-> d]]
    /\ UNCHANGED <<chainVars, loopVars, pending, age>>

-----------------------------------------------------------------------------
(* Routing *)

\* handlers: the dispatching events and the method that consumes each result.
handlers ==
    [TreasuryCreated       |-> "bindTreasuryAddress",
     PolicyUpdateRequested |-> "confirmPolicy",
     PaymentRequested      |-> "submitAuthorization",
     SignatureRequested    |-> "submitSignedPayment"]

Dispatches(b) == events[b].event \in DOMAIN handlers
InstructionOf(b) == events[b].instruction

Answered(i) == answers[i] # NoAnswer
Succeeded(i) == answers[i].status = 1

\* The method called for the event: a refusal always goes to submitFailure.
MethodFor(b) ==
    IF Succeeded(InstructionOf(b)) THEN handlers[events[b].event] ELSE "submitFailure"

Call(b) == Deliver(MethodFor(b), answers[InstructionOf(b)])

\* The call would not revert in this state.
Acceptable(b) == Answered(InstructionOf(b)) /\ ENABLED Call(b)

-----------------------------------------------------------------------------
(* The process; done holds instruction ids *)

RelayInit ==
    /\ Deployed
    /\ IF FromTreasury THEN OneTreasuryBound ELSE NoTreasuryYet
    /\ LoopInit
    /\ answers = [i \in InstructionId |-> NoAnswer]
    /\ pending = FALSE
    /\ age = [i \in InstructionId |-> "unseen"]

Open == {b \in Blocks : Dispatches(b) /\ InstructionOf(b) \notin done}

Poll == poll(Open) /\ UNCHANGED <<chainVars, answers, pending, age>>

\* The handler returns: the next log, with nothing sent.
return == nextLog(Open) /\ UNCHANGED <<chainVars, rangeVars, answers, mempool, receipt>>

\* firstSeen[actionID], unless it is set.
see(i) == age' = IF age[i] = "unseen" THEN [age EXCEPT ![i] = "fresh"] ELSE age

\* handle reaches the proxy for instruction i, and finds an answer or none.
fetch(i, found) == handling /\ i = InstructionOf(at) /\ Answered(i) = found /\ see(i)

GiveUp_Never(i) == age[i] = "overdue" /\ pending' = TRUE /\ UNCHANGED done
\* No answer within the patience: the instruction is abandoned.
GiveUp(i) == age[i] = "overdue" /\ done' = done \cup {i} /\ UNCHANGED pending

\* 404: the range is scanned again on the next tick.
NotReady(i) == age[i] # "overdue" /\ pending' = TRUE /\ UNCHANGED done

FindNoAnswer ==
    /\ \E i \in InstructionId : fetch(i, FALSE) /\ (GiveUp(i) \/ NotReady(i))
    /\ return
    /\ UNCHANGED limitVars

\* The proxy is unreachable or serves something unusable; or Send fails to read the
\* nonce or the gas price, or to send.  The loop goes on to the next log.
HardError ==
    /\ \E i \in InstructionId :
          \/ fetch(i, Answered(i)) /\ meet("proxy")
          \/ fetch(i, TRUE) /\ meet("rpc")
    /\ return
    /\ UNCHANGED <<pending, done>>

\* EstimateGas fails for a reason of its own; Send says "would revert" all the same.
EstimateError ==
    /\ \E i \in InstructionId : fetch(i, TRUE) /\ done' = done \cup {i}
    /\ meet("estimate")
    /\ return
    /\ UNCHANGED pending

\* EstimateGas reverts; isAlreadyApplied takes that for a result that is not new.
WouldRevert ==
    /\ \E i \in InstructionId : fetch(i, TRUE) /\ done' = done \cup {i}
    /\ ~Acceptable(at)
    /\ return
    /\ UNCHANGED <<pending, limitVars>>

markSent_Done(i) == done' = done \cup {i}
\* Nothing is recorded before the receipt.
markSent(i) == UNCHANGED done

SendResult ==
    /\ \E i \in InstructionId : fetch(i, TRUE) /\ markSent(i)
    /\ Acceptable(at)
    /\ sendTransaction(at)
    /\ UNCHANGED <<chainVars, answers, pending>>

\* External: the first pending transaction is included; it may revert by now.
Mine ==
    /\ mempool # <<>>
    /\ \/ Call(mempool[1]) /\ included("success")
       \/ ~Acceptable(mempool[1]) /\ included("reverted") /\ UNCHANGED chainVars
    /\ UNCHANGED <<answers, pending, age>>

Receipt ==
    /\ awaitReceipt(InstructionOf(at))
    /\ nextLog(Open)
    /\ UNCHANGED <<chainVars, rangeVars, mempool, limitVars, answers, pending, age>>

EndOfRange ==
    /\ endOfRange(pending)
    /\ pending' = FALSE
    /\ UNCHANGED <<chainVars, answers, age>>

\* time.Since(firstSeen) passes the patience.
PatienceRunsOut(i) ==
    /\ age[i] = "fresh"
    /\ age' = [age EXCEPT ![i] = "overdue"]
    /\ UNCHANGED <<chainVars, loopVars, answers, pending>>

Restart ==
    /\ restart
    /\ pending' = FALSE
    /\ age' = [i \in InstructionId |-> "unseen"]
    /\ UNCHANGED answers

RelayStep ==
    \/ Poll \/ FindNoAnswer \/ HardError \/ EstimateError \/ WouldRevert
    \/ SendResult \/ Receipt \/ EndOfRange

RelayNext ==
    \/ RelayStep
    \/ Mine
    \/ Restart
    \/ \E i \in InstructionId : PatienceRunsOut(i)
    \/ \E i \in 1..Len(instructions) : EnclaveAnswers(i)
    \/ Users /\ UNCHANGED <<loopVars, answers, pending, age>>

\* The process runs, blocks are made and time passes; nothing else is owed.
RelayFairness ==
    /\ WF_relayVars(RelayStep)
    /\ WF_relayVars(Mine)
    /\ \A i \in InstructionId : WF_relayVars(PatienceRunsOut(i))

RelaySpec == RelayInit /\ [][RelayNext]_relayVars /\ RelayFairness

-----------------------------------------------------------------------------
(* Properties *)

\* A later update of the same policy took this one's place.
Superseded(i) ==
    \E j \in (i + 1)..Len(instructions) :
       /\ instructions[i].command = "REGISTER_POLICY"
       /\ instructions[j].command = "REGISTER_POLICY"
       /\ instructions[j].header.treasuryId = instructions[i].header.treasuryId

(***************************************************************************)
(* The variables of the relay, its mempool and the proxy have their type.  *)
(***************************************************************************)
RelayTypeOK ==
    /\ LoopTypeOK
    /\ pc \in {"poll", "handle", "wait"}
    /\ mempool \in Seq(Blocks)
    /\ pending \in BOOLEAN
    /\ done \subseteq 1..Len(instructions)
    /\ age \in [InstructionId -> {"unseen", "fresh", "overdue"}]
    /\ \A i \in InstructionId : Answered(i) => i <= Len(instructions)

(***************************************************************************)
(* handle: an answered instruction is only marked done in a state where    *)
(* the controller would not take the answer (any more): it was applied, or *)
(* can have no effect now.  Marking it done earlier, while the transaction *)
(* may still fail, would lose it.  A failed estimate is the exception.     *)
(***************************************************************************)
DoneWhenDelivered ==
    [][\A b \in Blocks : Dispatches(b) =>
          LET i == InstructionOf(b) IN
          i \in done' \ done /\ faults' = faults /\ Answered(i) /\ ~Superseded(i)
          => ~Acceptable(b)]_relayVars

(***************************************************************************)
(* firstSeen "bounds how long a single action is retried ... so one stuck  *)
(* instruction cannot pin the loop forever": the cursor moves past every   *)
(* event, although the enclave may never answer, answers may be refused    *)
(* and calls may fail.                                                     *)
(***************************************************************************)
CursorNeverPinned == []<>(next > BlockNumber)

(***************************************************************************)
(* An answer the controller would take, to an instruction the relay has    *)
(* not abandoned, is delivered, or what it is for ends another way: the    *)
(* cursor does not move past it, a restart within the look-back does not   *)
(* lose it, and neither does a transaction that reverts.  Two things may   *)
(* lose an answer: a failed call of the proxy or of the chain, past which  *)
(* the cursor moves, and a process that starts more than Lookback blocks   *)
(* after its event.                                                        *)
(***************************************************************************)
Undelivered(b) ==
    /\ Dispatches(b) /\ InReach(b)
    /\ Acceptable(b)
    /\ InstructionOf(b) \notin done
    /\ ~Superseded(InstructionOf(b))

(***************************************************************************)
(* The header comment on refusals: "submitFailure records it so the        *)
(* request fails cleanly and releases its reserved budget".  No request    *)
(* stays open once the relay has dealt with a refusal of it.               *)
(***************************************************************************)
RefusalRecorded ==
    \A b \in Blocks : Dispatches(b) =>
       LET i == InstructionOf(b)
           r == instructions[i].header.requestId
       IN  i \in done /\ Answered(i) /\ ~Succeeded(i) /\ r # 0
           => requests[r].state \notin {"CREATED", "AUTHORIZED"}
=============================================================================
