----------------------------- MODULE FdcWorker -----------------------------
(***************************************************************************)
(* services/cmd/fdc-worker and services/internal/fdc: for each             *)
(* PaymentBroadcast event, pay for an FDC attestation of the XRPL payment, *)
(* wait for its voting round and its proof, and present the proof to the   *)
(* verifier contract.                                                      *)
(*                                                                         *)
(* External: FdcHub takes attestation requests, data providers finalise    *)
(* voting rounds, the Data Availability layer publishes proofs, and        *)
(* another worker may settle a request first.                              *)
(***************************************************************************)
EXTENDS SignedPayments

CONSTANTS
    Confirmations,             \* ledgers before the FDC verifier answers VALID (3)
    FirstVotingRoundStartTs, VotingEpochSeconds,
    Uint64                     \* 2^64: timestamps wrap around

ASSUME WorkerAssumption ==
    /\ Confirmations \in Nat /\ FirstVotingRoundStartTs \in Nat
    /\ VotingEpochSeconds \in Nat \ {0} /\ Uint64 \in Nat \ {0}

VARIABLES
    settledBy,       \* of the verifier contracts
    job,             \* what settle has in hand: the method sent and the round awaited
    minedAt,         \* timestamp of the block that included the transaction waited for
    attested,        \* external: attestation requests FdcHub took, with their round
    finalized,       \* external: voting rounds finalised
    available,       \* external: attestations whose proof the DA layer serves
    prompt,          \* external: rounds and proofs come within the worker's ten minutes
    fees,            \* history: attestation fees paid for each request
    settledAtStart   \* history: requests SETTLED when this process started

fdcVars == <<attested, finalized, available, prompt>>
historyVars == <<fees, settledAtStart>>
workerVars == <<chainVars, loopVars, xrplVars, settledBy, job, minedAt, fdcVars, historyVars>>

Verifying == INSTANCE BridgeSafeFdcVerifier WITH
    Proof <- {}, Memo <- {},
    AttestationType <- {"XRPPayment"}, ATTESTATION_TYPE_XRP_PAYMENT <- "XRPPayment",
    SourceId <- {"testXRP"}, EXPECTED_SOURCE_ID <- "testXRP"

NoJob == [method |-> "none", round |-> 0]

WorkerInit ==
    /\ Deployed
    /\ AllAuthorized
    /\ LoopInit
    /\ XrplInit
    /\ settledBy = [v \in Verifier |-> [tx \in TxId |-> 0]]
    /\ job = NoJob
    /\ minedAt = 0
    /\ attested = {}
    /\ finalized = {}
    /\ available = {}
    /\ prompt \in BOOLEAN
    /\ fees = [r \in RequestId |-> 0]
    /\ settledAtStart = {}

-----------------------------------------------------------------------------
(* The FDC, and its client *)

\* The round whose epoch holds the timestamp.
RoundAt(timestamp) ==
    CHOOSE k \in 0..timestamp :
       /\ FirstVotingRoundStartTs + k * VotingEpochSeconds <= timestamp
       /\ timestamp < FirstVotingRoundStartTs + (k + 1) * VotingEpochSeconds

VotingRoundFor_NextRound(timestamp) ==
    ((timestamp - FirstVotingRoundStartTs + VotingEpochSeconds) % Uint64) \div VotingEpochSeconds
VotingRoundFor(timestamp) ==
    ((timestamp - FirstVotingRoundStartTs) % Uint64) \div VotingEpochSeconds

\* The transaction of a validated ledger with this id.
landed(txId) == {v \in validated : txIdOf(v.tx) = txId}

\* PrepareXRPPayment: the verifier service answers VALID.
Valid(txId) == \E v \in landed(txId) : ledger >= v.ledger + Confirmations - 1

\* The XRPPayment response of the DA layer for request r, whose transaction is v.
parseResponse(r, v) ==
    [attestationType |-> "XRPPayment",
     sourceId |-> "testXRP",
     transactionId |-> requests[r].xrplTxId,
     status |-> IF v.success THEN 0 ELSE 1,
     sourceAddressHash |-> treasuries[requests[r].treasuryId].xrplAddressHash,
     receivingAddressHash |-> requests[r].destinationHash,
     receivedAmount |-> requests[r].amountDrops,
     hasMemoData |-> TRUE,
     firstMemoData |-> encodeMemo(requests[r].memoRef)]

\* toContractProof: the response with its Merkle proof, as the verifier takes it.
ProofOf(r) ==
    LET response == parseResponse(r, CHOOSE v \in landed(requests[r].xrplTxId) : TRUE) IN
    [f \in DOMAIN response \cup {"accepted"} |->
        IF f = "accepted" THEN TRUE ELSE response[f]]

attestation(r, round) == [tx |-> requests[r].xrplTxId, round |-> round]

FinaliseRound ==
    /\ \E a \in attested : a.round \notin finalized /\ finalized' = finalized \cup {a.round}
    /\ UNCHANGED <<chainVars, loopVars, xrplVars, settledBy, job, minedAt,
                   attested, available, prompt, historyVars>>

PublishProof ==
    /\ \E a \in attested \ available :
          a.round \in finalized /\ available' = available \cup {a}
    /\ UNCHANGED <<chainVars, loopVars, xrplVars, settledBy, job, minedAt,
                   attested, finalized, prompt, historyVars>>

-----------------------------------------------------------------------------
(* The process; done holds request ids *)

Open == {b \in Blocks : events[b].event = "PaymentBroadcast" /\ events[b].id \notin done}

outside == <<xrplVars, settledBy, fdcVars>>
unsent == <<chainVars, outside, mempool, receipt, minedAt>>

Poll == poll(Open) /\ UNCHANGED <<chainVars, outside, job, minedAt, historyVars>>

\* settle returns; the cursor will pass this log whatever happened to it.
return == nextLog(Open) /\ job' = NoJob /\ UNCHANGED <<unsent, rangeVars>>

\* settle returns with an error.
giveUp == return /\ UNCHANGED <<done, historyVars>>

\* settle goes on at its next call.
goto(step) == pc' = step /\ UNCHANGED <<unsent, rangeVars, at, done, historyVars>>

subject == events[at].id

\* alreadySettled.
AlreadySettled ==
    /\ handling
    /\ requests[subject].state = "SETTLED"
    /\ done' = done \cup {subject}
    /\ return
    /\ UNCHANGED <<limitVars, historyVars>>

notSettled_Unread(r) == TRUE
notSettled(r) == requests[r].state # "SETTLED"

Attempt ==
    /\ handling
    /\ notSettled(subject)
    /\ goto("attest")
    /\ UNCHANGED <<job, limitVars>>

\* "could not read state; attempting settlement anyway".
AttemptUnread ==
    /\ handling
    /\ meet("state")
    /\ goto("attest")
    /\ UNCHANGED job

\* The verifier service does not answer VALID: an error like any other.
NotValid ==
    /\ pc = "attest"
    /\ ~Valid(requests[subject].xrplTxId)
    /\ giveUp
    /\ UNCHANGED limitVars

\* The request is prepared, the fee read and requestAttestation sent with it.
RequestAttestation ==
    /\ pc = "attest"
    /\ Valid(requests[subject].xrplTxId)
    /\ sendTransaction([method |-> "requestAttestation", request |-> subject])
    /\ job' = [NoJob EXCEPT !.method = "requestAttestation"]
    /\ fees' = [fees EXCEPT ![subject] = @ + 1]
    /\ UNCHANGED <<chainVars, outside, minedAt, done, settledAtStart>>

\* The block that took the request gives the voting round.
AttestationIncluded ==
    /\ pc = "wait"
    /\ job.method = "requestAttestation"
    /\ receipt # "none"
    /\ receipt' = "none"
    /\ pc' = "round"
    /\ job' = [job EXCEPT !.round = VotingRoundFor(minedAt)]
    /\ UNCHANGED <<chainVars, outside, mempool, minedAt, rangeVars, at, done, limitVars, historyVars>>

\* waitForRound and WaitForProof.
RoundFinal == pc = "round" /\ job.round \in finalized /\ goto("proof") /\ UNCHANGED <<job, limitVars>>

ProofFound ==
    /\ pc = "proof"
    /\ attestation(subject, job.round) \in available
    /\ goto("finalize")
    /\ UNCHANGED <<job, limitVars>>

DeadlinePasses_Never == FALSE
DeadlinePasses ==
    /\ ~prompt
    /\ pc \in {"round", "proof"}
    /\ giveUp
    /\ UNCHANGED limitVars

\* The verifier service, the fee, the block's timestamp, the DA layer, or a call fails.
CallFails ==
    /\ pc \in {"attest", "round", "proof", "finalize"}
    /\ meet("call")
    /\ giveUp

Call(r) ==
    /\ Verifying!finalizePayment(fdcVerifier, r, ProofOf(r))
    /\ UNCHANGED events
Acceptable(r) == landed(requests[r].xrplTxId) # {} /\ ENABLED Call(r)

FinalizeReverts ==
    /\ pc = "finalize"
    /\ ~Acceptable(subject)
    /\ giveUp
    /\ UNCHANGED limitVars

FinalizePayment ==
    /\ pc = "finalize"
    /\ Acceptable(subject)
    /\ sendTransaction([method |-> "finalizePayment", request |-> subject])
    /\ job' = [job EXCEPT !.method = "finalizePayment"]
    /\ UNCHANGED <<chainVars, outside, minedAt, done, historyVars>>

PaymentFinalized ==
    /\ job.method = "finalizePayment"
    /\ awaitReceipt(subject)
    /\ nextLog(Open)
    /\ job' = NoJob
    /\ UNCHANGED <<chainVars, outside, mempool, minedAt, rangeVars, limitVars, historyVars>>

EndOfRange == endOfRange(FALSE) /\ UNCHANGED <<chainVars, outside, job, minedAt, historyVars>>

Restart ==
    /\ restart
    /\ job' = NoJob
    /\ settledAtStart' = {r \in RequestId : requests[r].state = "SETTLED"}
    /\ UNCHANGED <<outside, minedAt, fees>>

WorkerStep ==
    \/ Poll \/ AlreadySettled \/ Attempt \/ AttemptUnread \/ NotValid \/ RequestAttestation
    \/ AttestationIncluded \/ RoundFinal \/ ProofFound \/ DeadlinePasses \/ CallFails
    \/ FinalizeReverts \/ FinalizePayment \/ PaymentFinalized \/ EndOfRange

-----------------------------------------------------------------------------
(* The chains and the other actors *)

Mine ==
    /\ mempool # <<>>
    /\ LET call == mempool[1] IN
       \/ /\ call.method = "requestAttestation"
          /\ attested' = attested \cup {attestation(call.request, RoundAt(now))}
          /\ included("success")
          /\ UNCHANGED <<chainVars, settledBy>>
       \/ /\ call.method = "finalizePayment"
          /\ \/ Call(call.request) /\ included("success")
             \/ ~Acceptable(call.request) /\ included("reverted") /\ UNCHANGED <<chainVars, settledBy>>
          /\ UNCHANGED attested
    /\ minedAt' = now
    /\ UNCHANGED <<xrplVars, finalized, available, prompt, job, historyVars>>

\* Someone submits a published blob to XRPL.
SubmitBlob(r) ==
    /\ Published(r)
    /\ \E code \in engineResults(blobOf(r)) : receiveSubmission(blobOf(r), code)
    /\ UNCHANGED <<chainVars, loopVars, settledBy, job, minedAt, fdcVars, historyVars>>

\* Another worker settles the request.
OtherSettles(r) ==
    /\ Valid(requests[r].xrplTxId)
    /\ Call(r)
    /\ UNCHANGED <<loopVars, xrplVars, job, minedAt, fdcVars, historyVars>>

Ledger == CloseLedger /\ UNCHANGED <<chainVars, loopVars, settledBy, job, minedAt, fdcVars, historyVars>>

Environment ==
    \/ \E r \in RequestId : SignedPayment(r)
    \/ \E r \in RequestId : Published(r) /\ ReportBroadcast(r, requests[r].expectedTxId)
    \/ \E r \in RequestId : Expire(r)
    \/ TimePasses

WorkerNext ==
    \/ WorkerStep
    \/ Mine
    \/ Restart
    \/ FinaliseRound
    \/ PublishProof
    \/ Ledger
    \/ \E r \in RequestId : SubmitBlob(r) \/ OtherSettles(r)
    \/ Environment /\ UNCHANGED <<loopVars, outside, job, minedAt, historyVars>>

\* The process runs and Flare makes blocks; prompt data providers finalise every round and
\* the DA layer publishes every proof.
WorkerSpec ==
    /\ WorkerInit
    /\ [][WorkerNext]_workerVars
    /\ WF_workerVars(WorkerStep)
    /\ WF_workerVars(Mine)
    /\ WF_workerVars(prompt /\ FinaliseRound)
    /\ WF_workerVars(prompt /\ PublishProof)

-----------------------------------------------------------------------------
(* Properties *)

(***************************************************************************)
(* The variables of the worker and of the FDC have their type.             *)
(***************************************************************************)
WorkerTypeOK ==
    /\ LoopTypeOK
    /\ pc \in {"poll", "handle", "attest", "wait", "round", "proof", "finalize"}
    /\ done \subseteq RequestId
    /\ job \in [method : {"none", "requestAttestation", "finalizePayment"}, round : Nat]
    /\ available \subseteq attested

(***************************************************************************)
(* settle marks a request done only if it is SETTLED, and it stays so: a   *)
(* finalizePayment that was sent and then reverted, because the request    *)
(* expired or another worker came first, is not taken for a settlement.    *)
(***************************************************************************)
DoneIsSettled == \A r \in done : requests[r].state = "SETTLED"

(***************************************************************************)
(* "Skip anything already settled, so a restart does not redo finished     *)
(* work": a process never pays an attestation fee for a request that was   *)
(* SETTLED when it started, although its own memory of it is gone, unless  *)
(* the call that reads its state failed.                                   *)
(***************************************************************************)
FinishedWorkNotPaidAgain ==
    [][\A r \in RequestId :
          fees'[r] > fees[r] => r \notin settledAtStart \/ faults > 0]_workerVars

(***************************************************************************)
(* waitForRound and WaitForProof give up after ten minutes: the worker     *)
(* comes back to its loop whatever the data providers do.                  *)
(***************************************************************************)
WorkerComesBack == []<>(pc = "poll")

Ahead(r) ==
    /\ pc = "poll"
    /\ \E b \in Blocks :
          b >= next /\ events[b].event = "PaymentBroadcast" /\ events[b].id = r
    /\ r \notin done

OutOfReach(r) ==
    \A b \in Blocks : events[b].event = "PaymentBroadcast" /\ events[b].id = r => ~InReach(b)

Settleable(r) ==
    requests[r].state = "BROADCAST" /\ Valid(requests[r].xrplTxId) /\ Paid(blobOf(r))

(***************************************************************************)
(* A payment that has its confirmations when the worker comes to its event *)
(* is settled, through the round of the block that took the request, or    *)
(* expires first, if the data providers are prompt, no call fails and no   *)
(* process starts more than Lookback blocks after the event.               *)
(***************************************************************************)
SettledWhenReached ==
    \A r \in RequestId :
       Settleable(r) /\ Ahead(r) /\ prompt
          ~> requests[r].state # "BROADCAST" \/ faults > 0 \/ OutOfReach(r)
=============================================================================
