-------------------- MODULE BridgeSafeFdcVerifierProofs --------------------
(***************************************************************************)
(* Settlement, proved for any set of verifiers, proofs and requests and    *)
(* any results: SettledIsProved and SettlementLedgerAgrees are inductive   *)
(* together with the fact that a request is only opened for a treasury     *)
(* whose address is bound, and the other two properties follow from them.  *)
(* With them, and the controller's own invariants, every call is a step of *)
(* PaymentLifecycle.                                                       *)
(***************************************************************************)
EXTENDS BridgeSafeFdcVerifier, BridgeSafeControllerProofs

USE ConstantsAssumption, FdcAssumption

\* bindTreasuryAddress writes the address once, and before any request exists.
BoundBeforeRequest ==
    \A r \in RequestId : requests[r].state # "NONE" => treasuries[requests[r].treasuryId].bound

SettlementInv ==
    /\ StorageInv
    /\ settledBy \in [Verifier -> [TxId -> RequestId \cup {0}]]
    /\ BoundBeforeRequest
    /\ SettledIsProved
    /\ SettlementLedgerAgrees

LEMMA InitSettlement == VerifierInit => SettlementInv
<1> SUFFICES ASSUME VerifierInit PROVE SettlementInv
    OBVIOUS
<1>1. StorageInv
  BY InitStorage DEF VerifierInit
<1>2. \A r \in RequestId : requests[r].state = "NONE"
  BY DEF VerifierInit, Init, BlankRequest
<1>3. settledBy \in [Verifier -> [TxId -> RequestId \cup {0}]]
  BY DEF VerifierInit
<1>4. BoundBeforeRequest /\ SettledIsProved
  BY <1>2 DEF BoundBeforeRequest, SettledIsProved
<1>5. SettlementLedgerAgrees
  BY <1>2 DEF VerifierInit, SettlementLedgerAgrees
<1> QED
  BY <1>1, <1>3, <1>4, <1>5 DEF SettlementInv

\* What a step of the controller alone leaves of settlement.
SettledKept ==
    /\ \A r \in RequestId : requests'[r].state = "SETTLED" <=> requests[r].state = "SETTLED"
    /\ \A r \in RequestId : requests[r].state = "SETTLED" => requests'[r] = requests[r]
    /\ \A r \in RequestId : requests'[r].state # "NONE" =>
          \/ requests[r].state # "NONE" /\ requests'[r].treasuryId = requests[r].treasuryId
          \/ requests'[r].treasuryId \in TreasuryId /\ treasuries[requests'[r].treasuryId].bound
    /\ \A t \in TreasuryId : treasuries[t].bound =>
          /\ treasuries'[t].bound
          /\ treasuries'[t].xrplAddressHash = treasuries[t].xrplAddressHash

LEMMA SettlementFrame ==
    ASSUME SettlementInv, StorageInv', SettledKept, UNCHANGED settledBy
    PROVE  SettlementInv'
<1>1. \A r \in RequestId : requests[r].state # "NONE" => requests[r].treasuryId \in TreasuryId
  BY DEF SettlementInv, StorageInv, IdsAndNonces, TypeOK, TreasuryId
<1>2. BoundBeforeRequest'
  BY <1>1 DEF SettlementInv, BoundBeforeRequest, SettledKept
<1>3. SettledIsProved'
  <2> SUFFICES ASSUME NEW r \in RequestId, requests'[r].state = "SETTLED"
               PROVE  \E p \in Proof : proves(p, r)' /\ p.transactionId = requests'[r].xrplTxId
      BY DEF SettledIsProved
  <2>1. /\ requests[r].state = "SETTLED" /\ requests'[r] = requests[r]
        /\ requests[r].treasuryId \in TreasuryId /\ treasuries[requests[r].treasuryId].bound
    BY <1>1 DEF SettledKept, SettlementInv, BoundBeforeRequest
  <2>2. PICK p \in Proof : proves(p, r) /\ p.transactionId = requests[r].xrplTxId
    BY <2>1 DEF SettlementInv, SettledIsProved
  <2>3. proves(p, r)'
    BY <2>1, <2>2 DEF proves, SettledKept
  <2> QED
    BY <2>1, <2>2, <2>3
<1>4. SettlementLedgerAgrees'
  <2>1. \A v \in Verifier, tx \in TxId : settledBy[v][tx] # 0 => settledBy[v][tx] \in RequestId
    BY DEF SettlementInv
  <2> QED
    BY <2>1 DEF SettlementInv, SettlementLedgerAgrees, SettledKept
<1> QED
  BY <1>2, <1>3, <1>4 DEF SettlementInv

\* No call but finalizePayment settles a request or touches a settled one.
AddressesKept ==
    \A t \in TreasuryId : treasuries[t].bound =>
       /\ treasuries'[t].bound
       /\ treasuries'[t].xrplAddressHash = treasuries[t].xrplAddressHash

LEMMA TreasuryStepKeepsSettled ==
    ASSUME UNCHANGED requests, AddressesKept
    PROVE  SettledKept
BY DEF SettledKept, AddressesKept

LEMMA RequestStepKeepsSettled ==
    ASSUME StorageInv, NEW r \in RequestId, NEW q,
           requests[r].state \notin {"NONE", "SETTLED"}, q.state # "SETTLED",
           q.treasuryId = requests[r].treasuryId,
           requests' = [requests EXCEPT ![r] = q], AddressesKept
    PROVE  SettledKept
BY DEF StorageInv, TypeOK, SettledKept, AddressesKept

LEMMA ReleaseKeepsAddresses ==
    ASSUME StorageInv, NEW r \in RequestId, requests[r].state # "NONE",
           release(r) \/ UNCHANGED treasuries
    PROVE  AddressesKept
<1>1. requests[r].treasuryId \in TreasuryId
  BY DEF StorageInv, IdsAndNonces, TypeOK, TreasuryId
<1>2. CASE UNCHANGED treasuries
  BY <1>2 DEF AddressesKept
<1>3. CASE release(r)
  <2> DEFINE t == requests[r].treasuryId
             new == [treasuries[t] EXCEPT !.reservedDrops = @ - requests[r].amountDrops]
  <2>1. treasuries[t] \in TreasuryRecord
    BY <1>1 DEF StorageInv, TypeOK
  <2>2. new.xrplAddressHash = treasuries[t].xrplAddressHash /\ (new.bound <=> treasuries[t].bound)
    BY <2>1 DEF TreasuryRecord
  <2>3. treasuries' = [treasuries EXCEPT ![t] = new]
    BY <1>1, <1>3 DEF release, StorageInv, TypeOK
  <2> HIDE DEF new
  <2> QED
    BY <1>1, <2>2, <2>3 DEF AddressesKept, StorageInv, TypeOK
<1> QED
  BY <1>2, <1>3

LEMMA ClosingKeepsSettled ==
    ASSUME StorageInv, NEW r \in RequestId, NEW state \in RequestState \ {"SETTLED"},
           requests[r].state \notin {"NONE", "SETTLED"},
           setRequestState(r, state), release(r) \/ UNCHANGED treasuries
    PROVE  SettledKept
<1> DEFINE q == [requests[r] EXCEPT !.state = state]
<1>1. requests[r] \in RequestRecord
  BY DEF StorageInv, TypeOK
<1>2. q.state # "SETTLED" /\ q.treasuryId = requests[r].treasuryId
  BY <1>1 DEF RequestRecord, RequestState
<1>3. requests' = [requests EXCEPT ![r] = q]
  BY DEF setRequestState, StorageInv, TypeOK
<1>4. AddressesKept
  BY ReleaseKeepsAddresses
<1> HIDE DEF q
<1> QED
  BY <1>2, <1>3, <1>4, RequestStepKeepsSettled

LEMMA ControllerKeepsSettled ==
    ASSUME StorageInv, ControllerStep
    PROVE  SettledKept
<1>1. ASSUME UNCHANGED <<treasuries, requests>> PROVE SettledKept
  BY <1>1, TreasuryStepKeepsSettled DEF AddressesKept
<1>2. CASE Administration \/ Tick
  BY <1>1, <1>2 DEF Administration, Tick, registerExtension, setExtensionId, setTeeAddress,
     setFdcVerifier, transferOwnership, setPaused, treasuryVars, requestVars
<1>3. ASSUME NEW s \in Account, NEW r \in RequestId, requestSignature(s, r) PROVE SettledKept
  BY <1>1, <1>3 DEF requestSignature, treasuryVars, requestVars
<1>4. ASSUME NEW s \in Account, NEW p \in Policy, createTreasury(s, p) PROVE SettledKept
  <2>1. AddressesKept
    BY <1>4, SMTT(60) DEF createTreasury, AddressesKept, StorageInv, TypeOK, TreasuryRecord
  <2> QED
    BY <1>4, <2>1, TreasuryStepKeepsSettled DEF createTreasury, requestVars
<1>5. ASSUME NEW res \in ResultOf(BindData), bindTreasuryAddress(res) PROVE SettledKept
  <2>1. AddressesKept
    BY <1>5 DEF bindTreasuryAddress, AddressesKept, StorageInv, TypeOK, TreasuryRecord
  <2> QED
    BY <1>5, <2>1, TreasuryStepKeepsSettled DEF bindTreasuryAddress, requestVars
<1>6. ASSUME NEW s \in Account, NEW t \in TreasuryId, NEW p \in Policy,
             requestPolicyUpdate(s, t, p)
      PROVE  SettledKept
  <2>1. AddressesKept
    BY <1>6 DEF requestPolicyUpdate, AddressesKept, StorageInv, TypeOK, TreasuryRecord
  <2> QED
    BY <1>6, <2>1, TreasuryStepKeepsSettled DEF requestPolicyUpdate, requestVars
<1>7. ASSUME NEW res \in ResultOf(ConfirmData), confirmPolicy(res) PROVE SettledKept
  <2>1. AddressesKept
    BY <1>7, SMTT(60) DEF confirmPolicy, adoptPolicy, AddressesKept, StorageInv, TypeOK, TreasuryRecord
  <2> QED
    BY <1>7, <2>1, TreasuryStepKeepsSettled DEF confirmPolicy, adoptPolicy, requestVars
<1>8. ASSUME NEW s \in Account, NEW t \in TreasuryId, NEW b \in PauseInput,
             setTreasuryPaused(s, t, b)
      PROVE  SettledKept
  <2>1. AddressesKept
    BY <1>8 DEF setTreasuryPaused, AddressesKept, StorageInv, TypeOK, TreasuryRecord
  <2> QED
    BY <1>8, <2>1, TreasuryStepKeepsSettled DEF setTreasuryPaused, requestVars
<1>9. ASSUME NEW s \in Account, NEW t \in TreasuryId, NEW c \in Ciphertext,
             createPaymentRequest(s, t, c)
      PROVE  SettledKept
  <2> DEFINE r == requestCount + 1
  <2>1. AddressesKept
    BY <1>9 DEF createPaymentRequest, AddressesKept, StorageInv, TypeOK, TreasuryRecord
  <2>2. r \in RequestId /\ requests[r] \in RequestRecord /\ requests[r].state = "NONE"
    BY <1>9 DEF createPaymentRequest, StorageInv, TypeOK, IdsAndNonces, RequestId
  <2>3. /\ requests'[r].state = "CREATED" /\ requests'[r].treasuryId = t
        /\ \A q \in RequestId \ {r} : requests'[q] = requests[q]
    BY <1>9, <2>2 DEF createPaymentRequest, StorageInv, TypeOK, RequestRecord
  <2>4. treasuries[t].bound
    BY <1>9 DEF createPaymentRequest
  <2> HIDE DEF r
  <2> QED
    BY <2>1, <2>2, <2>3, <2>4 DEF SettledKept, AddressesKept
<1>10. ASSUME NEW res \in ResultOf(AuthorizationData), submitAuthorization(res)
       PROVE  SettledKept
  <2> DEFINE r == res.data.requestId
             q == [requests[r] EXCEPT !.amountDrops = res.data.amountDrops,
                     !.destinationHash = res.data.destinationHash, !.state = "AUTHORIZED"]
  <2>1. r \in RequestId /\ requests[r].state = "CREATED" /\ requests[r] \in RequestRecord
    BY <1>10 DEF ResultOf, AuthorizationData, submitAuthorization, StorageInv, TypeOK
  <2>2. requests[r].treasuryId \in TreasuryId
    BY <2>1 DEF StorageInv, TypeOK, IdsAndNonces, TreasuryId
  <2>3. AddressesKept
    BY <1>10, <2>2 DEF submitAuthorization, AddressesKept, StorageInv, TypeOK, TreasuryRecord
  <2>4. q.state # "SETTLED" /\ q.treasuryId = requests[r].treasuryId
    BY <2>1 DEF RequestRecord
  <2>5. requests' = [requests EXCEPT ![r] = q]
    BY <1>10 DEF submitAuthorization
  <2> HIDE DEF r, q
  <2> QED
    BY <2>1, <2>3, <2>4, <2>5, RequestStepKeepsSettled
<1>11. ASSUME NEW res \in ResultOf(SignedData), submitSignedPayment(res) PROVE SettledKept
  <2> DEFINE r == res.data.requestId
             q == [requests[r] EXCEPT !.expectedTxId = res.data.expectedTxId,
                     !.signedBlobHash = Keccak(res.data.signedTxBlob), !.state = "SIGNED"]
  <2>1. r \in RequestId /\ requests[r].state = "AUTHORIZED" /\ requests[r] \in RequestRecord
    BY <1>11 DEF ResultOf, SignedData, submitSignedPayment, StorageInv, TypeOK
  <2>2. q.state # "SETTLED" /\ q.treasuryId = requests[r].treasuryId
    BY <2>1 DEF RequestRecord
  <2>3. requests' = [requests EXCEPT ![r] = q] /\ AddressesKept
    BY <1>11 DEF submitSignedPayment, treasuryVars, AddressesKept
  <2> HIDE DEF r, q
  <2> QED
    BY <2>1, <2>2, <2>3, RequestStepKeepsSettled
<1>12. ASSUME NEW r \in RequestId, NEW tx \in TxId, reportBroadcast(r, tx) PROVE SettledKept
  <2> DEFINE q == [requests[r] EXCEPT !.xrplTxId = tx, !.state = "BROADCAST"]
  <2>1. requests[r].state = "SIGNED" /\ requests[r] \in RequestRecord
    BY <1>12 DEF reportBroadcast, StorageInv, TypeOK
  <2>2. q.state # "SETTLED" /\ q.treasuryId = requests[r].treasuryId
    BY <2>1 DEF RequestRecord
  <2>3. requests' = [requests EXCEPT ![r] = q] /\ AddressesKept
    BY <1>12 DEF reportBroadcast, treasuryVars, AddressesKept
  <2> HIDE DEF q
  <2> QED
    BY <2>1, <2>2, <2>3, RequestStepKeepsSettled
<1>13. ASSUME NEW s \in Account, NEW r \in RequestId, cancelRequest(s, r) PROVE SettledKept
  BY <1>13, ClosingKeepsSettled DEF cancelRequest, RequestState
<1>14. ASSUME NEW r \in RequestId, expireRequest(r) PROVE SettledKept
  BY <1>14, ClosingKeepsSettled DEF expireRequest, RequestState
<1>15. ASSUME NEW res \in ResultOf(FailureData), submitFailure(res) PROVE SettledKept
  <2>1. res.data.requestId \in RequestId
    BY DEF ResultOf, FailureData
  <2> QED
    BY <1>15, <2>1, ClosingKeepsSettled DEF submitFailure, RequestState
<1>16. CASE OwnerCalls
  BY <1>3, <1>4, <1>6, <1>8, <1>9, <1>13, <1>16 DEF OwnerCalls
<1>17. CASE ResultCalls
  BY <1>5, <1>7, <1>10, <1>11, <1>15, <1>17 DEF ResultCalls
<1>18. CASE AnyoneCalls
  BY <1>12, <1>14, <1>18 DEF AnyoneCalls
<1> QED
  BY <1>2, <1>16, <1>17, <1>18 DEF ControllerStep

\* The step that settles: r was not settled, so no ledger names it yet.
LEMMA FinalizeSettlement ==
    ASSUME SettlementInv, NEW v \in Verifier, NEW r \in RequestId, NEW p \in Proof,
           finalizePayment(v, r, p)
    PROVE  SettlementInv'
<1> DEFINE tx == p.transactionId
<1>1. p \in ProofType /\ tx \in TxId
  BY DEF ProofType
<1>2. StorageInv'
  BY <1>1, markSettledStorage DEF SettlementInv, finalizePayment
<1>3. /\ requests[r] \in RequestRecord /\ requests[r].state \in {"SIGNED", "BROADCAST"}
      /\ requests' = [requests EXCEPT ![r] = [@ EXCEPT !.xrplTxId = tx, !.state = "SETTLED"]]
      /\ UNCHANGED treasuries
  BY DEF finalizePayment, markSettled, treasuryVars, SettlementInv, StorageInv, TypeOK
<1>4. /\ requests'[r].state = "SETTLED" /\ requests'[r].xrplTxId = tx
      /\ requests'[r].treasuryId = requests[r].treasuryId
      /\ requests'[r].amountDrops = requests[r].amountDrops
      /\ requests'[r].destinationHash = requests[r].destinationHash
      /\ requests'[r].memoRef = requests[r].memoRef
      /\ \A s \in RequestId \ {r} : requests'[s] = requests[s]
  BY <1>3 DEF SettlementInv, StorageInv, TypeOK, RequestRecord
<1>5. /\ settledBy' \in [Verifier -> [TxId -> RequestId \cup {0}]]
      /\ settledBy'[v][tx] = r
      /\ \A w \in Verifier, x \in TxId : <<w, x>> # <<v, tx>> => settledBy'[w][x] = settledBy[w][x]
  BY <1>1 DEF finalizePayment, SettlementInv
<1>6. BoundBeforeRequest'
  BY <1>3, <1>4 DEF SettlementInv, BoundBeforeRequest
<1>7. SettledIsProved'
  <2>1. proves(p, r)'
    BY <1>3, <1>4 DEF finalizePayment, checkAgainstRequest, settlementExpectation, proves
  <2>2. ASSUME NEW s \in RequestId \ {r}, requests'[s].state = "SETTLED"
        PROVE  \E q \in Proof : proves(q, s)' /\ q.transactionId = requests'[s].xrplTxId
    BY <1>3, <1>4, <2>2 DEF SettlementInv, SettledIsProved, proves
  <2> QED
    BY <1>4, <2>1, <2>2 DEF SettledIsProved
<1>8. SettlementLedgerAgrees'
  <2>1. \A w \in Verifier, x \in TxId : settledBy[w][x] # r
    BY <1>3 DEF SettlementInv, SettlementLedgerAgrees, RequestId
  <2>2. ASSUME NEW w \in Verifier, NEW x \in TxId, settledBy'[w][x] # 0
        PROVE  /\ requests'[settledBy'[w][x]].state = "SETTLED"
               /\ requests'[settledBy'[w][x]].xrplTxId = x
    <3>1. CASE w = v /\ x = tx
      BY <1>4, <1>5, <3>1
    <3>2. CASE ~(w = v /\ x = tx)
      <4>1. settledBy'[w][x] = settledBy[w][x] /\ settledBy[w][x] \in RequestId \ {r}
        BY <1>5, <2>1, <2>2, <3>2 DEF SettlementInv
      <4> QED
        BY <4>1, <1>4, <2>2 DEF SettlementInv, SettlementLedgerAgrees
    <3> QED
      BY <3>1, <3>2
  <2>3. \A w \in Verifier : settledBy'[w][requests'[r].xrplTxId] = r <=> w = v
    BY <1>1, <1>4, <1>5, <2>1
  <2>4. ASSUME NEW s \in RequestId \ {r}, requests'[s].state = "SETTLED"
        PROVE  \E u \in Verifier : \A w \in Verifier :
                  settledBy'[w][requests'[s].xrplTxId] = s <=> w = u
    <3> DEFINE x == requests[s].xrplTxId
    <3>1. requests[s].state = "SETTLED" /\ requests'[s].xrplTxId = x
      BY <1>4, <2>4
    <3>2. PICK u \in Verifier : \A w \in Verifier : settledBy[w][x] = s <=> w = u
      BY <3>1 DEF SettlementInv, SettlementLedgerAgrees
    <3>3. x \in TxId
      <4>1. PICK q \in Proof : q.transactionId = x
        BY <3>1 DEF SettlementInv, SettledIsProved
      <4> QED
        BY <4>1 DEF ProofType
    <3>4. settledBy[v][tx] = 0
      BY DEF finalizePayment
    <3>5. \A w \in Verifier : settledBy'[w][x] = s <=> settledBy[w][x] = s
      BY <1>1, <1>5, <3>3, <3>4 DEF RequestId
    <3> QED
      BY <3>1, <3>2, <3>5
  <2> QED
    BY <1>4, <2>2, <2>3, <2>4 DEF SettlementLedgerAgrees
<1> QED
  BY <1>2, <1>5, <1>6, <1>7, <1>8 DEF SettlementInv

LEMMA NextSettlement == SettlementInv /\ [VerifierNext]_vars => SettlementInv'
<1> SUFFICES ASSUME SettlementInv, [VerifierNext]_vars PROVE SettlementInv'
    OBVIOUS
<1>1. CASE ControllerStep /\ UNCHANGED settledBy
  <2>1. StorageInv'
    BY <1>1, NextStorage DEF SettlementInv, Next
  <2>2. SettledKept
    BY <1>1, ControllerKeepsSettled DEF SettlementInv
  <2> QED
    BY <1>1, <2>1, <2>2, SettlementFrame
<1>2. CASE \E v \in Verifier, r \in RequestId, p \in Proof : finalizePayment(v, r, p)
  BY <1>2, FinalizeSettlement
<1>3. CASE UNCHANGED vars
  <2>1. UNCHANGED <<treasuries, requests, settledBy>> /\ UNCHANGED controllerVars
    BY <1>3 DEF vars, controllerVars, treasuryVars, requestVars
  <2>2. StorageInv' /\ SettledKept
    BY <2>1, StutterStorage, TreasuryStepKeepsSettled DEF SettlementInv, AddressesKept
  <2> QED
    BY <2>1, <2>2, SettlementFrame
<1> QED
  BY <1>1, <1>2, <1>3 DEF VerifierNext

\* A transaction proves at most one request: its memo carries one reference.
LEMMA MemoNamesRequest ==
    ASSUME SettlementInv, NEW r \in RequestId, NEW s \in RequestId,
           requests[r].state # "NONE", requests[s].state # "NONE",
           NEW p \in Proof, NEW q \in Proof, proves(p, r), proves(q, s),
           p.transactionId = q.transactionId
    PROVE  r = s
<1>1. encodeMemo(requests[r].memoRef) = encodeMemo(requests[s].memoRef)
  BY DEF proves
<1>2. requests[r].memoRef = requests[s].memoRef
  BY <1>1 DEF encodeMemo
<1>3. /\ requests[r].memoRef = memoRef(requests[r].treasuryId, r, requests[r].nonce)
      /\ requests[s].memoRef = memoRef(requests[s].treasuryId, s, requests[s].nonce)
  BY DEF SettlementInv, StorageInv, IdsAndNonces
<1>4. <<requests[r].treasuryId, r, requests[r].nonce>> = <<requests[s].treasuryId, s, requests[s].nonce>>
  BY <1>2, <1>3, KeccakInjective DEF memoRef
<1> QED
  BY <1>4

LEMMA SettlementConsequences ==
    ASSUME SettlementInv
    PROVE  OnePaymentOneRequest /\ ProofNotSpentElsewhere
<1>1. OnePaymentOneRequest
  <2> SUFFICES ASSUME NEW r \in RequestId, NEW s \in RequestId,
                      requests[r].state = "SETTLED", requests[s].state = "SETTLED",
                      requests[r].xrplTxId = requests[s].xrplTxId
               PROVE  r = s
      BY DEF OnePaymentOneRequest
  <2>1. PICK p \in Proof : proves(p, r) /\ p.transactionId = requests[r].xrplTxId
    BY DEF SettlementInv, SettledIsProved
  <2>2. PICK q \in Proof : proves(q, s) /\ q.transactionId = requests[s].xrplTxId
    BY DEF SettlementInv, SettledIsProved
  <2> QED
    BY <2>1, <2>2, MemoNamesRequest
<1>2. ProofNotSpentElsewhere
  <2> SUFFICES ASSUME NEW r \in RequestId, NEW p \in Proof, NEW v \in Verifier,
                      requests[r].state \in {"SIGNED", "BROADCAST"}, proves(p, r),
                      settledBy[v][p.transactionId] # 0
               PROVE  FALSE
      BY DEF ProofNotSpentElsewhere
  <2> DEFINE s == settledBy[v][p.transactionId]
  <2>1. p.transactionId \in TxId
    BY DEF ProofType
  <2>2. /\ s \in RequestId /\ requests[s].state = "SETTLED"
        /\ requests[s].xrplTxId = p.transactionId
    BY <2>1 DEF SettlementInv, SettlementLedgerAgrees
  <2>3. PICK q \in Proof : proves(q, s) /\ q.transactionId = p.transactionId
    BY <2>2 DEF SettlementInv, SettledIsProved
  <2>4. r = s
    BY <2>2, <2>3, MemoNamesRequest
  <2> QED
    BY <2>2, <2>4
<1> QED
  BY <1>1, <1>2

(***************************************************************************)
(* finalizePayment: every settled request is backed by an attested payment *)
(* of its terms, however often the owner switches verifiers and whatever   *)
(* the enclave signs.                                                      *)
(***************************************************************************)
THEOREM SettlementIsProved == VerifierSpec => []SettledIsProved
<1>1. SettlementInv => SettledIsProved
  BY DEF SettlementInv
<1> QED
  BY <1>1, InitSettlement, NextSettlement, PTL DEF VerifierSpec

(***************************************************************************)
(* Condition 8 of the verifier across all verifiers: one XRPL payment      *)
(* settles at most one request.                                            *)
(***************************************************************************)
THEOREM OnePaymentSettlesOneRequest == VerifierSpec => []OnePaymentOneRequest
<1>1. SettlementInv => OnePaymentOneRequest
  BY SettlementConsequences
<1> QED
  BY <1>1, InitSettlement, NextSettlement, PTL DEF VerifierSpec

(***************************************************************************)
(* The ledgers of the verifiers and the controller's requests agree,       *)
(* however often fdcVerifier is switched.                                  *)
(***************************************************************************)
THEOREM LedgersAgree == VerifierSpec => []SettlementLedgerAgrees
<1>1. SettlementInv => SettlementLedgerAgrees
  BY DEF SettlementInv
<1> QED
  BY <1>1, InitSettlement, NextSettlement, PTL DEF VerifierSpec

(***************************************************************************)
(* A payment that proves a pending request is unspent in every verifier,   *)
(* so that finalizePayment cannot be refused for it.                       *)
(***************************************************************************)
THEOREM PendingPaymentIsUnspent == VerifierSpec => []ProofNotSpentElsewhere
<1>1. SettlementInv => ProofNotSpentElsewhere
  BY SettlementConsequences
<1> QED
  BY <1>1, InitSettlement, NextSettlement, PTL DEF VerifierSpec

\* The storage of both contracts holds values of its declared types.
THEOREM VerifierStorageTypes == VerifierSpec => []VerifierTypeOK
<1>1. SettlementInv => VerifierTypeOK
  BY DEF SettlementInv, StorageInv, VerifierTypeOK
<1> QED
  BY <1>1, InitSettlement, NextSettlement, PTL DEF VerifierSpec

-----------------------------------------------------------------------------
(* Refinement of the controller alone, and of PaymentLifecycle *)

\* A settlement is one of the controller's own steps.
LEMMA FinalizeIsMark ==
    ASSUME NEW v \in Verifier, NEW r \in RequestId, NEW p \in Proof, finalizePayment(v, r, p)
    PROVE  p.transactionId \in TxId /\ markSettled(v, r, p.transactionId)
BY DEF finalizePayment, ProofType

LEMMA VerifierStep == [VerifierNext]_vars => [Next]_controllerVars
<1> SUFFICES ASSUME [VerifierNext]_vars PROVE [Next]_controllerVars
    OBVIOUS
<1>1. CASE \E v \in Verifier, r \in RequestId, p \in Proof : finalizePayment(v, r, p)
  BY <1>1, FinalizeIsMark DEF Next
<1>2. CASE ControllerStep
  BY <1>2 DEF Next
<1>3. CASE UNCHANGED vars
  BY <1>3 DEF vars
<1> QED
  BY <1>1, <1>2, <1>3 DEF VerifierNext

(***************************************************************************)
(* Composed with any number of verifiers, the controller behaves as it     *)
(* does on its own, so that all that is proved of Spec holds of the        *)
(* composition.                                                            *)
(***************************************************************************)
THEOREM ComposedIsController == VerifierSpec => Spec
<1>1. VerifierInit => Init
  BY DEF VerifierInit
<1> QED
  BY <1>1, VerifierStep, PTL DEF VerifierSpec, Spec

(***************************************************************************)
(* The contracts as deployed, controller and verifiers together: budgets   *)
(* are conserved and a published payment keeps its budget; the newest      *)
(* policy prevails; what is live was published; and what is reserved is    *)
(* within the caps of published policies.                                  *)
(***************************************************************************)
THEOREM ComposedBudgetIsSafe ==
    VerifierSpec => [](/\ BudgetConservation /\ PublishedStaysReserved
                       /\ NewestPolicyWins /\ LivePolicyPublished
                       /\ AmountWithinPublishedCap /\ ReservedWithinPublishedCap)
BY ComposedIsController, BudgetIsConserved, PublishedIsReserved, NewestPolicyPrevails,
   LivePolicyIsPublished, AmountIsWithinPublishedCap, ReservedIsWithinPublishedCap, PTL

-----------------------------------------------------------------------------
(* The state of PaymentLifecycle, as the controller represents it *)

phase == [r \in RequestId |-> phaseOf(requests[r].state)]
payer == [r \in RequestId |-> requests[r].treasuryId]
amount == [r \in RequestId |-> requests[r].amountDrops]
deadline == [r \in RequestId |-> IF requests[r].state = "NONE" THEN 0
                                 ELSE requests[r].expiresAt + SETTLEMENT_GRACE]
reserved == [t \in TreasuryId |-> treasuries[t].reservedDrops]
Settled == {r \in RequestId : requests[r].state = "SETTLED"}
spent == {requests[r].xrplTxId : r \in Settled}

LifecycleInv == SettlementInv /\ PolicyInv

LEMMA InitLifecycle == VerifierInit => Lifecycle!Init
<1> SUFFICES ASSUME VerifierInit PROVE Lifecycle!Init
    OBVIOUS
<1>1. \A r \in RequestId : requests[r] = BlankRequest
  BY DEF VerifierInit, Init
<1>2. phase = [r \in RequestId |-> "unopened"]
  BY <1>1 DEF phase, phaseOf, BlankRequest
<1>3. /\ payer = [r \in RequestId |-> 0] /\ amount = [r \in RequestId |-> 0]
      /\ deadline = [r \in RequestId |-> 0]
  BY <1>1 DEF payer, amount, deadline, BlankRequest
<1>4. reserved = [t \in TreasuryId |-> 0] /\ now = 0
  BY DEF VerifierInit, Init, reserved, BlankTreasury
<1>5. spent = {}
  BY <1>1 DEF spent, Settled, BlankRequest
<1> QED
  BY <1>2, <1>3, <1>4, <1>5 DEF Lifecycle!Init, phase, payer, amount, deadline, reserved, spent, Settled

\* A step that neither opens nor moves a request, releases nothing and takes no time.
LEMMA Unmoved ==
    ASSUME UNCHANGED <<phase, payer, amount, deadline, reserved, spent, now>>
    PROVE  UNCHANGED Lifecycle!vars
BY DEF Lifecycle!vars, phase, payer, amount, deadline, reserved, spent, Settled

LEMMA RequestsUnmoved ==
    ASSUME requests' = requests
    PROVE  UNCHANGED <<phase, payer, amount, deadline, spent>>
BY DEF phase, payer, amount, deadline, spent, Settled

LEMMA ReservedUnmoved ==
    ASSUME \A t \in TreasuryId : treasuries'[t].reservedDrops = treasuries[t].reservedDrops
    PROVE  UNCHANGED reserved
BY DEF reserved

LEMMA SpentUnmoved ==
    ASSUME SettledKept
    PROVE  UNCHANGED spent
<1>1. Settled' = Settled
  BY DEF SettledKept, Settled
<1>2. \A r \in Settled : requests'[r].xrplTxId = requests[r].xrplTxId
  BY DEF SettledKept, Settled
<1> QED
  BY <1>1, <1>2 DEF spent

\* What becomes of the maps when one request moves.
LEMMA RequestMoved ==
    ASSUME NEW r \in RequestId, OtherRequestsKept(r)
    PROVE  /\ phase' = [phase EXCEPT ![r] = phaseOf(requests'[r].state)]
           /\ payer' = [payer EXCEPT ![r] = requests'[r].treasuryId]
           /\ amount' = [amount EXCEPT ![r] = requests'[r].amountDrops]
           /\ deadline' = [deadline EXCEPT ![r] = IF requests'[r].state = "NONE" THEN 0
                                                  ELSE requests'[r].expiresAt + SETTLEMENT_GRACE]
<1>1. phase' = [phase EXCEPT ![r] = phaseOf(requests'[r].state)]
  <2>1. \A q \in RequestId : phase'[q] = IF q = r THEN phaseOf(requests'[r].state) ELSE phase[q]
    BY DEF OtherRequestsKept, phase
  <2> QED
    BY <2>1 DEF phase
<1>2. payer' = [payer EXCEPT ![r] = requests'[r].treasuryId]
  BY DEF OtherRequestsKept, payer
<1>3. amount' = [amount EXCEPT ![r] = requests'[r].amountDrops]
  BY DEF OtherRequestsKept, amount
<1>4. deadline' = [deadline EXCEPT ![r] = IF requests'[r].state = "NONE" THEN 0
                                          ELSE requests'[r].expiresAt + SETTLEMENT_GRACE]
  BY DEF OtherRequestsKept, deadline
<1> QED
  BY <1>1, <1>2, <1>3, <1>4

LEMMA OpenStep ==
    ASSUME LifecycleInv, LifecycleInv', SettledKept, NEW r \in RequestId, NEW t \in TreasuryId,
           OpensRequest(r, t)
    PROVE  Lifecycle!Open(r)
<1>0. /\ StorageInv /\ OtherRequestsKept(r)
      /\ requests[r].state = "NONE" /\ requests'[r].state = "CREATED"
  BY DEF LifecycleInv, PolicyInv, OpensRequest
<1> DEFINE d == requests'[r].expiresAt + SETTLEMENT_GRACE
<1>1. phase[r] = "unopened" /\ phase' = [phase EXCEPT ![r] = "open"]
  BY <1>0, RequestMoved DEF phase, phaseOf
<1>2. payer' = [payer EXCEPT ![r] = t]
  BY <1>0, RequestMoved DEF OpensRequest
<1>3. deadline' = [deadline EXCEPT ![r] = d]
  BY <1>0, RequestMoved
<1>4. amount' = amount
  <2>1. amount' = [amount EXCEPT ![r] = amount[r]]
    BY <1>0, RequestMoved DEF OpensRequest, amount
  <2> QED
    BY <2>1 DEF amount
<1>5. reserved' = reserved
  BY ReservedUnmoved DEF OpensRequest, OtherTreasuriesKept
<1>6. spent' = spent /\ now' = now
  BY SpentUnmoved DEF OpensRequest
<1>7. d \in 0..(MaxTime + MAX_REQUEST_TTL + SETTLEMENT_GRACE) /\ d > now
  <2>1. t \in 1..treasuryCount
    BY <1>0 DEF OpensRequest, StorageInv, IdsAndNonces, TypeOK, TreasuryId
  <2>2. treasuries[t].policy \in Policy \cup {ZeroPolicy} /\ validatePolicy(treasuries[t].policy)
    BY <1>0, <2>1, Storage DEF LifecycleInv, PolicyInv, LivePolicyPublished, TreasuryRecord
  <2>3. treasuries[t].policy.requestTtlSeconds \in 1..MAX_REQUEST_TTL
    BY <2>2 DEF validatePolicy, PolicyType, ZeroPolicy
  <2>4. now \in 0..MaxTime
    BY <1>0 DEF StorageInv, TypeOK, Time
  <2>5. d = now + treasuries[t].policy.requestTtlSeconds + SETTLEMENT_GRACE
    BY DEF OpensRequest
  <2> HIDE DEF d
  <2> QED
    BY <2>3, <2>4, <2>5
<1> HIDE DEF d
<1> QED
  BY <1>1, <1>2, <1>3, <1>4, <1>5, <1>6, <1>7
     DEF Lifecycle!Open, phase, payer, amount, deadline, reserved, spent, Settled

\* A request that is open keeps its payer and its deadline.
LEMMA TermsKept ==
    ASSUME NEW r \in RequestId, OtherRequestsKept(r),
           requests[r].state # "NONE", requests'[r].state # "NONE",
           requests'[r].treasuryId = requests[r].treasuryId,
           requests'[r].expiresAt = requests[r].expiresAt
    PROVE  payer' = payer /\ deadline' = deadline
<1>1. \A q \in RequestId : payer'[q] = payer[q] /\ deadline'[q] = deadline[q]
  BY DEF OtherRequestsKept, payer, deadline
<1> QED
  BY <1>1 DEF payer, deadline

LEMMA AmountKept ==
    ASSUME NEW r \in RequestId, OtherRequestsKept(r),
           requests'[r].amountDrops = requests[r].amountDrops
    PROVE  amount' = amount
<1>1. \A q \in RequestId : amount'[q] = amount[q]
  BY DEF OtherRequestsKept, amount
<1> QED
  BY <1>1 DEF amount

\* What becomes of the reservations when one treasury's changes.
LEMMA ReservedMoved ==
    ASSUME NEW t \in TreasuryId, OtherTreasuriesKept(t)
    PROVE  reserved' = [reserved EXCEPT ![t] = treasuries'[t].reservedDrops]
BY DEF OtherTreasuriesKept, reserved

LEMMA ReserveStep ==
    ASSUME LifecycleInv, SettledKept, NEW r \in RequestId, NEW t \in TreasuryId, NEW a \in Drops,
           Reserves(r, t, a)
    PROVE  Lifecycle!Reserve(r)
<1>0. /\ StorageInv /\ OtherRequestsKept(r) /\ OtherTreasuriesKept(t)
      /\ requests[r].state = "CREATED" /\ requests'[r].state = "AUTHORIZED"
      /\ requests[r].treasuryId = t /\ requests'[r].treasuryId = t
      /\ requests'[r].expiresAt = requests[r].expiresAt /\ now' = now
  BY DEF LifecycleInv, PolicyInv, Reserves
<1>1. phase[r] = "open" /\ phase' = [phase EXCEPT ![r] = "reserved"]
  BY <1>0, RequestMoved DEF phase, phaseOf
<1>2. payer' = payer /\ deadline' = deadline /\ payer[r] = t
  BY <1>0, TermsKept DEF payer
<1>3. now <= deadline[r]
  <2>1. now \in Nat /\ requests[r].expiresAt \in Nat
    BY <1>0, Storage DEF RequestRecord
  <2> QED
    BY <1>0, <2>1 DEF deadline, Reserves
<1>4. a \in Drops \ {0} /\ amount' = [amount EXCEPT ![r] = a]
  BY <1>0, RequestMoved DEF Reserves, withinPolicy
<1>5. reserved' = [reserved EXCEPT ![payer[r]] = @ + a]
  <2>1. treasuries'[t].reservedDrops = reserved[t] + a
    BY DEF Reserves, reserved
  <2> QED
    BY <1>0, <1>2, <2>1, ReservedMoved DEF reserved
<1>6. spent' = spent
  BY SpentUnmoved
<1> QED
  BY <1>0, <1>1, <1>2, <1>3, <1>4, <1>5, <1>6
     DEF Lifecycle!Reserve, phase, payer, amount, deadline, reserved, spent, Settled

LEMMA CloseStep ==
    ASSUME LifecycleInv, SettledKept, NEW r \in RequestId, NEW t \in TreasuryId, Closes(r, t)
    PROVE  Lifecycle!Close(r)
<1>0. /\ StorageInv /\ OtherRequestsKept(r) /\ OtherTreasuriesKept(t)
      /\ requests[r].state \in {"CREATED", "AUTHORIZED", "SIGNED", "BROADCAST"}
      /\ requests'[r].state \in {"CANCELLED", "EXPIRED", "FAILED"}
      /\ requests[r].treasuryId = t /\ SameTerms(requests'[r], requests[r]) /\ now' = now
  BY DEF LifecycleInv, PolicyInv, Closes
<1>1. phase' = [phase EXCEPT ![r] = "closed"]
  BY <1>0, RequestMoved DEF phaseOf
<1>2. payer' = payer /\ deadline' = deadline /\ amount' = amount /\ payer[r] = t
  BY <1>0, TermsKept, AmountKept DEF payer, SameTerms
<1>3. /\ phase[r] \in {"open", "reserved", "published"}
      /\ phase[r] = "open" <=> requests[r].state = "CREATED"
      /\ phase[r] = "published" <=> requests[r].state \in {"SIGNED", "BROADCAST"}
  BY <1>0 DEF phase, phaseOf
<1>4. \/ phase[r] \in {"open", "reserved"}
      \/ phase[r] = "published" /\ now > deadline[r]
  BY <1>3 DEF Closes, deadline
<1>5. reserved' = IF phase[r] = "open" THEN reserved
                  ELSE [reserved EXCEPT ![payer[r]] = @ - amount[r]]
  <2>1. treasuries'[t].reservedDrops = IF requests[r].state = "CREATED" THEN reserved[t]
                                       ELSE reserved[t] - amount[r]
    BY DEF Closes, reserved, amount
  <2>2. [reserved EXCEPT ![t] = reserved[t]] = reserved
    BY DEF reserved
  <2> QED
    BY <1>0, <1>2, <1>3, <2>1, <2>2, ReservedMoved DEF reserved
<1>6. spent' = spent
  BY SpentUnmoved
<1> QED
  BY <1>0, <1>1, <1>2, <1>4, <1>5, <1>6
     DEF Lifecycle!Close, phase, payer, amount, deadline, reserved, spent, Settled

\* submitSignedPayment publishes; reportBroadcast changes nothing of the lifecycle.
LEMMA AdvanceStep ==
    ASSUME LifecycleInv, SettledKept, NEW r \in RequestId, Advances(r)
    PROVE  Lifecycle!Publish(r) \/ UNCHANGED Lifecycle!vars
<1>0. /\ StorageInv /\ OtherRequestsKept(r) /\ SameTerms(requests'[r], requests[r])
      /\ treasuries' = treasuries /\ now' = now
  BY DEF LifecycleInv, PolicyInv, Advances
<1>1. reserved' = reserved /\ spent' = spent
  BY <1>0, ReservedUnmoved, SpentUnmoved
<1>2. payer' = payer /\ deadline' = deadline /\ amount' = amount
  BY <1>0, TermsKept, AmountKept DEF SameTerms, Advances
<1>3. CASE requests[r].state = "AUTHORIZED"
  <2>1. requests'[r].state = "SIGNED" /\ now <= requests[r].expiresAt
    BY <1>3 DEF Advances
  <2>2. phase[r] = "reserved" /\ phase' = [phase EXCEPT ![r] = "published"]
    BY <1>0, <1>3, <2>1, RequestMoved DEF phase, phaseOf
  <2>3. now <= deadline[r]
    <3>1. now \in Nat /\ requests[r].expiresAt \in Nat
      BY <1>0, Storage DEF RequestRecord
    <3> QED
      BY <1>3, <2>1, <3>1 DEF deadline
  <2> QED
    BY <1>0, <1>1, <1>2, <2>2, <2>3
       DEF Lifecycle!Publish, phase, payer, amount, deadline, reserved, spent, Settled
<1>4. CASE requests[r].state # "AUTHORIZED"
  <2>1. requests[r].state = "SIGNED" /\ requests'[r].state = "BROADCAST"
    BY <1>4 DEF Advances, SettledKept
  <2>2. phase[r] = "published" /\ phase' = [phase EXCEPT ![r] = "published"]
    BY <1>0, <2>1, RequestMoved DEF phase, phaseOf
  <2>3. phase' = phase
    BY <2>2 DEF phase
  <2> QED
    BY <1>0, <1>1, <1>2, <2>3, Unmoved
<1> QED
  BY <1>3, <1>4

\* The ledgers of all verifiers act as one set of spent transactions.
LEMMA SettleStep ==
    ASSUME LifecycleInv, NEW v \in Verifier, NEW r \in RequestId, NEW p \in Proof,
           finalizePayment(v, r, p)
    PROVE  Lifecycle!Settle(r)
<1> DEFINE tx == p.transactionId
<1>0. /\ SettlementInv /\ StorageInv /\ tx \in TxId
      /\ requests[r].state \in {"SIGNED", "BROADCAST"}
      /\ treasuries' = treasuries /\ now' = now
      /\ requests' = [requests EXCEPT ![r] = [@ EXCEPT !.xrplTxId = tx, !.state = "SETTLED"]]
  BY DEF LifecycleInv, PolicyInv, finalizePayment, markSettled, treasuryVars, ProofType
<1>1. /\ requests[r] \in RequestRecord /\ DOMAIN requests = RequestId
  BY <1>0, Storage
<1>2. /\ requests'[r].state = "SETTLED" /\ requests'[r].xrplTxId = tx
      /\ SameTerms(requests'[r], requests[r]) /\ OtherRequestsKept(r)
  BY <1>0, <1>1 DEF RequestRecord, SameTerms, OtherRequestsKept
<1>3. phase[r] = "published" /\ phase' = [phase EXCEPT ![r] = "settled"]
  BY <1>0, <1>2, RequestMoved DEF phase, phaseOf
<1>4. payer' = payer /\ deadline' = deadline /\ amount' = amount
  BY <1>0, <1>2, TermsKept, AmountKept DEF SameTerms
<1>5. reserved' = reserved
  BY <1>0, ReservedUnmoved
<1>6. tx \notin spent
  <2> SUFFICES ASSUME tx \in spent PROVE FALSE
      OBVIOUS
  <2>1. PICK s \in RequestId : requests[s].state = "SETTLED" /\ requests[s].xrplTxId = tx
    BY DEF spent, Settled
  <2>2. PICK q \in Proof : proves(q, s) /\ q.transactionId = tx
    BY <1>0, <2>1 DEF SettlementInv, SettledIsProved
  <2>3. proves(p, r)
    BY DEF finalizePayment, checkAgainstRequest, settlementExpectation, proves
  <2>4. r = s
    BY <1>0, <2>1, <2>2, <2>3, MemoNamesRequest
  <2> QED
    BY <1>0, <2>1, <2>4
<1>7. spent' = spent \cup {tx}
  <2>1. Settled' = Settled \cup {r} /\ r \notin Settled
    BY <1>0, <1>2 DEF Settled, OtherRequestsKept
  <2>2. \A s \in Settled : requests'[s] = requests[s]
    BY <2>1, <1>2 DEF Settled, OtherRequestsKept
  <2>3. spent' = {requests'[s].xrplTxId : s \in Settled \cup {r}}
    BY <2>1 DEF spent
  <2> QED
    BY <1>2, <2>2, <2>3 DEF spent
<1> HIDE DEF tx
<1> QED
  BY <1>0, <1>3, <1>4, <1>5, <1>6, <1>7
     DEF Lifecycle!Settle, phase, payer, amount, deadline, reserved, spent, Settled

LEMMA IdleStep ==
    ASSUME Idles
    PROVE  Lifecycle!Pass \/ UNCHANGED Lifecycle!vars
<1>1. UNCHANGED <<phase, payer, amount, deadline, spent, reserved>>
  BY RequestsUnmoved, ReservedUnmoved DEF Idles
<1>2. CASE now' = now
  BY <1>1, <1>2, Unmoved
<1>3. CASE now' = now + 1
  BY <1>1, <1>3 DEF Lifecycle!Pass, phase, payer, amount, deadline, reserved, spent, Settled
<1> QED
  BY <1>2, <1>3 DEF Idles

\* Treasuries, addresses and policies are no concern of the lifecycle.
LEMMA TreasuryStep ==
    ASSUME NEW t \in TreasuryId,
           \/ EditsTreasury(t)
           \/ \E p \in Policy : OpensTreasury(t, p) \/ PublishesPolicy(t, p) \/ AdoptsPolicy(t, p)
    PROVE  UNCHANGED Lifecycle!vars
<1>1. /\ requests' = requests /\ now' = now /\ OtherTreasuriesKept(t)
      /\ treasuries'[t].reservedDrops = treasuries[t].reservedDrops
  BY DEF EditsTreasury, OpensTreasury, PublishesPolicy, AdoptsPolicy
<1>2. reserved' = reserved
  BY <1>1, ReservedUnmoved DEF OtherTreasuriesKept
<1> QED
  BY <1>1, <1>2, RequestsUnmoved, Unmoved

LEMMA StepLifecycle ==
    LifecycleInv /\ LifecycleInv' /\ [VerifierNext]_vars => [Lifecycle!Next]_(Lifecycle!vars)
<1> SUFFICES ASSUME LifecycleInv, LifecycleInv', [VerifierNext]_vars
             PROVE  Lifecycle!Next \/ UNCHANGED Lifecycle!vars
    OBVIOUS
<1>1. StorageInv /\ StorageInv'
  BY DEF LifecycleInv, PolicyInv
<1>2. CASE \E v \in Verifier, r \in RequestId, p \in Proof : finalizePayment(v, r, p)
  BY <1>2, SettleStep DEF Lifecycle!Next
<1>3. CASE ControllerStep
  <2>1. SettledKept
    BY <1>1, <1>3, ControllerKeepsSettled
  <2>2. StepKind
    BY <1>1, <1>3, StepKinds DEF Next
  <2> QED
    BY <2>1, <2>2, IdleStep, TreasuryStep, OpenStep, CloseStep, ReserveStep, AdvanceStep
       DEF StepKind, Lifecycle!Next
<1>4. CASE UNCHANGED vars
  BY <1>1, <1>4, IdlesKind, IdleStep DEF vars, Lifecycle!Next
<1> QED
  BY <1>2, <1>3, <1>4 DEF VerifierNext

LEMMA InitLifecycleInv == VerifierInit => LifecycleInv
BY InitSettlement, InitPolicy DEF VerifierInit, LifecycleInv

LEMMA NextLifecycleInv == LifecycleInv /\ [VerifierNext]_vars => LifecycleInv'
BY NextSettlement, NextPolicy, VerifierStep DEF LifecycleInv

(***************************************************************************)
(* The two contracts implement PaymentLifecycle: every call, by anyone,    *)
(* with whatever the enclave signs, is one of its steps or leaves it       *)
(* unchanged, and the ledgers of any number of verifiers together act as   *)
(* one set of spent transactions.                                          *)
(***************************************************************************)
THEOREM ContractsImplementLifecycle == VerifierSpec => ImplementsLifecycle
<1>1. VerifierSpec => []LifecycleInv
  BY InitLifecycleInv, NextLifecycleInv, PTL DEF VerifierSpec
<1> QED
  BY <1>1, InitLifecycle, StepLifecycle, PTL DEF VerifierSpec, ImplementsLifecycle, Lifecycle!Spec
=============================================================================
