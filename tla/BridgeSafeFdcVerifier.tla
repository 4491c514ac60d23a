----------------------- MODULE BridgeSafeFdcVerifier -----------------------
(***************************************************************************)
(* contracts/src/BridgeSafeFdcVerifier.sol composed with the controller it *)
(* settles.  Each deployed verifier keeps its own settledBy ledger, and    *)
(* the controller's owner may repoint fdcVerifier at any time.             *)
(*                                                                         *)
(* External: Flare's verifyXRPPayment is the field accepted of a proof.    *)
(* What the proofs say of XRPL is a constant: every proof that will ever   *)
(* be produced may be presented, by anyone, in any order, repeatedly.      *)
(***************************************************************************)
EXTENDS BridgeSafeController

CONSTANTS
    Proof,               \* XRPPayment proofs that may be presented
    AttestationType, ATTESTATION_TYPE_XRP_PAYMENT,
    SourceId, EXPECTED_SOURCE_ID,
    Memo                 \* memo bytes, encodeMemo of some reference or not

XRPL_STATUS_SUCCESS == 0

ProofType ==
    [accepted : BOOLEAN,
     attestationType : AttestationType,
     sourceId : SourceId,
     transactionId : TxId,
     status : 0..2,
     sourceAddressHash : AddressHash,
     receivingAddressHash : AddressHash,
     receivedAmount : Int,
     hasMemoData : BOOLEAN,
     firstMemoData : Memo]

\* A proof that attests a payment on the expected network.
attests(p) ==
    /\ p.accepted
    /\ p.attestationType = ATTESTATION_TYPE_XRP_PAYMENT
    /\ p.sourceId = EXPECTED_SOURCE_ID

\* External: a ledger has one transaction for an id, so attestations of it agree.
ASSUME FdcAssumption ==
    /\ Proof \subseteq ProofType
    /\ \A p, q \in Proof :
          attests(p) /\ attests(q) /\ p.transactionId = q.transactionId
          => p.firstMemoData = q.firstMemoData

VARIABLE settledBy       \* of each verifier: the request a transaction settled, or 0

vars == <<controllerVars, settledBy>>

VerifierInit == Init /\ settledBy = [v \in Verifier |-> [tx \in TxId |-> 0]]

checkAgainstRequest_AnyDestination(r, p) ==
    LET e == settlementExpectation(r) IN
    /\ knownRequest(r)
    /\ e.state \in {"SIGNED", "BROADCAST"}
    /\ p.sourceAddressHash = e.sourceAddressHash
    /\ p.receivedAmount > 0
    /\ p.receivedAmount = e.amountDrops
    /\ p.hasMemoData
    /\ p.firstMemoData = e.expectedMemo
checkAgainstRequest_AnyMemo(r, p) ==
    LET e == settlementExpectation(r) IN
    /\ knownRequest(r)
    /\ e.state \in {"SIGNED", "BROADCAST"}
    /\ p.sourceAddressHash = e.sourceAddressHash
    /\ p.receivingAddressHash = e.destinationHash
    /\ p.receivedAmount > 0
    /\ p.receivedAmount = e.amountDrops
    /\ p.hasMemoData
checkAgainstRequest_MemoPrefix(r, p) ==
    LET e == settlementExpectation(r) IN
    /\ knownRequest(r)
    /\ e.state \in {"SIGNED", "BROADCAST"}
    /\ p.sourceAddressHash = e.sourceAddressHash
    /\ p.receivingAddressHash = e.destinationHash
    /\ p.receivedAmount > 0
    /\ p.receivedAmount = e.amountDrops
    /\ p.hasMemoData
    /\ p.firstMemoData.prefix = e.expectedMemo.prefix
checkAgainstRequest(r, p) ==
    LET e == settlementExpectation(r) IN
    /\ knownRequest(r)
    /\ e.state \in {"SIGNED", "BROADCAST"}
    /\ p.sourceAddressHash = e.sourceAddressHash
    /\ p.receivingAddressHash = e.destinationHash
    /\ p.receivedAmount > 0
    /\ p.receivedAmount = e.amountDrops
    /\ p.hasMemoData
    /\ p.firstMemoData = e.expectedMemo

finalizePayment_SwappedLedger(v, r, p) ==
    /\ attests(p)
    /\ p.status = XRPL_STATUS_SUCCESS
    /\ settledBy[v][p.transactionId] = 0
    /\ checkAgainstRequest(r, p)
    /\ settledBy' = [settledBy EXCEPT ![v][p.transactionId] = p.transactionId]
    /\ markSettled(v, r, p.transactionId)
finalizePayment_ReportsExpected(v, r, p) ==
    /\ attests(p)
    /\ p.status = XRPL_STATUS_SUCCESS
    /\ settledBy[v][p.transactionId] = 0
    /\ checkAgainstRequest(r, p)
    /\ settledBy' = [settledBy EXCEPT ![v][p.transactionId] = r]
    /\ markSettled(v, r, requests[r].expectedTxId)
finalizePayment(v, r, p) ==
    /\ attests(p)
    /\ p.status = XRPL_STATUS_SUCCESS
    /\ settledBy[v][p.transactionId] = 0
    /\ checkAgainstRequest(r, p)
    /\ settledBy' = [settledBy EXCEPT ![v][p.transactionId] = r]
    /\ markSettled(v, r, p.transactionId)

VerifierNext ==
    \/ \E v \in Verifier, r \in RequestId, p \in Proof : finalizePayment(v, r, p)
    \/ ControllerStep /\ UNCHANGED settledBy

VerifierSpec == VerifierInit /\ [][VerifierNext]_vars

-----------------------------------------------------------------------------
(* Properties *)

VerifierTypeOK == TypeOK /\ settledBy \in [Verifier -> [TxId -> RequestId \cup {0}]]

\* A proof that meets the conditions of finalizePayment for the terms of request r.
proves(p, r) ==
    /\ attests(p)
    /\ p.status = XRPL_STATUS_SUCCESS
    /\ p.sourceAddressHash = treasuries[requests[r].treasuryId].xrplAddressHash
    /\ p.receivingAddressHash = requests[r].destinationHash
    /\ p.receivedAmount = requests[r].amountDrops
    /\ p.receivedAmount > 0
    /\ p.hasMemoData
    /\ p.firstMemoData = encodeMemo(requests[r].memoRef)

(***************************************************************************)
(* A SETTLED request is backed by an accepted attestation of a successful  *)
(* payment of its current terms, from the address its treasury is bound to *)
(* now, in the transaction it names: neither the terms nor the binding can *)
(* move after finalizePayment compared them.                               *)
(***************************************************************************)
SettledIsProved ==
    \A r \in RequestId : requests[r].state = "SETTLED" =>
       \E p \in Proof : proves(p, r) /\ p.transactionId = requests[r].xrplTxId

(***************************************************************************)
(* "That XRPL transaction id has never settled any request before": one    *)
(* payment settles one request even though settledBy starts empty in every *)
(* verifier the owner switches to.                                         *)
(***************************************************************************)
OnePaymentOneRequest ==
    \A r, s \in RequestId :
       requests[r].state = "SETTLED" /\ requests[s].state = "SETTLED"
       /\ requests[r].xrplTxId = requests[s].xrplTxId => r = s

(***************************************************************************)
(* The two contracts agree: a verifier's ledger names a request for a      *)
(* transaction only if that request is SETTLED by that transaction, and    *)
(* every SETTLED request is in exactly one verifier's ledger.              *)
(***************************************************************************)
SettlementLedgerAgrees ==
    /\ \A v \in Verifier, tx \in TxId : settledBy[v][tx] # 0 =>
          /\ requests[settledBy[v][tx]].state = "SETTLED"
          /\ requests[settledBy[v][tx]].xrplTxId = tx
    /\ \A r \in RequestId : requests[r].state = "SETTLED" =>
          \E v \in Verifier : \A w \in Verifier :
             settledBy[w][requests[r].xrplTxId] = r <=> w = v

(***************************************************************************)
(* "A request cannot be stranded": while a request awaits settlement, no   *)
(* verifier has spent a transaction that proves it, so finalizePayment is  *)
(* never refused with TxIdAlreadyUsed, paused or not.                      *)
(***************************************************************************)
ProofNotSpentElsewhere ==
    \A r \in RequestId, p \in Proof, v \in Verifier :
       requests[r].state \in {"SIGNED", "BROADCAST"} /\ proves(p, r)
       => settledBy[v][p.transactionId] = 0

-----------------------------------------------------------------------------
(* Refinement of PaymentLifecycle *)

phaseOf(state) ==
    CASE state = "NONE" -> "unopened"
      [] state = "CREATED" -> "open"
      [] state = "AUTHORIZED" -> "reserved"
      [] state \in {"SIGNED", "BROADCAST"} -> "published"
      [] state = "SETTLED" -> "settled"
      [] state \in {"EXPIRED", "CANCELLED", "FAILED"} -> "closed"

Lifecycle == INSTANCE PaymentLifecycle WITH
    Treasury <- TreasuryId,
    Request <- RequestId,
    Transaction <- TxId,
    NoTreasury <- 0,
    Amount <- Drops \ {0},
    Instant <- 0..(MaxTime + MAX_REQUEST_TTL + SETTLEMENT_GRACE),
    phase <- [r \in RequestId |-> phaseOf(requests[r].state)],
    payer <- [r \in RequestId |-> requests[r].treasuryId],
    amount <- [r \in RequestId |-> requests[r].amountDrops],
    deadline <- [r \in RequestId |-> IF requests[r].state = "NONE" THEN 0
                                     ELSE requests[r].expiresAt + SETTLEMENT_GRACE],
    reserved <- [t \in TreasuryId |-> treasuries[t].reservedDrops],
    spent <- {requests[r].xrplTxId : r \in {s \in RequestId : requests[s].state = "SETTLED"}},
    clock <- now

(***************************************************************************)
(* The contracts implement PaymentLifecycle: every call is one of its      *)
(* steps or leaves it unchanged.  In particular the ledgers of several     *)
(* verifiers together act as one set of spent transactions.                *)
(***************************************************************************)
ImplementsLifecycle == Lifecycle!Spec
=============================================================================
