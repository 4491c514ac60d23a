------------------------ MODULE BridgeSafeController ------------------------
(***************************************************************************)
(* contracts/src/BridgeSafeController.sol: the treasury registry, the FCC  *)
(* instruction sender and the request state machine on Flare.              *)
(*                                                                         *)
(* An external call that does not revert is one step, because the EVM      *)
(* executes a transaction atomically; a revert is a step that is not       *)
(* enabled.  The enclave is not constrained here: a result handler may be  *)
(* called, by anyone and at any time, with any result in Result, so what   *)
(* is shown of this module holds whatever the enclave signs.               *)
(*                                                                         *)
(* The chain id and controller address that every header and result        *)
(* carries are one field, deployment.                                      *)
(***************************************************************************)
EXTENDS Integers, Sequences, BridgeSafeHashes

CONSTANTS
    Account,           \* externally owned addresses that may send calls
    Deployer,          \* the account that runs the constructor
    Enclave,           \* addresses a TEE result may have been signed by
    Verifier,          \* deployed BridgeSafeFdcVerifier contracts
    NoAddress,         \* address(0)
    NoHash,            \* bytes32(0)
    Empty,             \* a zero-length bytes or string value
    ThisDeployment,    \* (block.chainid, address(this))
    Deployment,        \* every (chain id, controller) pair a result may name
    Policy,            \* policies a caller or a result may carry
    Ciphertext,        \* ECIES payloads, Empty possibly among them
    XrplAddress,       \* classic r-addresses
    TxId,              \* XRPL transaction ids
    Blob,              \* signed XRPL transaction blobs
    Drops,             \* amounts a result may carry
    PauseInput,        \* values setPaused and setTreasuryPaused are called with
    SETTLEMENT_GRACE,  \* seconds after expiresAt before a signed request expires
    MAX_REQUEST_TTL,   \* longest requestTtlSeconds a policy may set
    \* Bounds of the model, each a guard of one action.
    MaxTreasuries, MaxRequests, MaxInstructions, MaxTime, MaxExtensions

TreasuryId == 1..MaxTreasuries
RequestId == 1..MaxRequests
Time == 0..MaxTime

PolicyType == [maxPerPaymentDrops : Nat, maxTotalDrops : Nat, requestTtlSeconds : Nat]

Commitment == {policyCommitment(p) : p \in Policy}
MemoRef == {memoRef(t, r, n) : t \in TreasuryId, r \in RequestId, n \in 1..MaxRequests}
AddressHash == {Keccak(a) : a \in XrplAddress}
PayloadHash == {Keccak(c) : c \in Ciphertext}
BlobHash == {Keccak(b) : b \in Blob}

ASSUME ConstantsAssumption ==
    /\ Deployer \in Account
    /\ NoAddress \notin Account \cup Enclave \cup Verifier
    /\ NoHash \notin Commitment /\ NoHash \notin MemoRef /\ NoHash \notin AddressHash
    /\ NoHash \notin PayloadHash /\ NoHash \notin BlobHash /\ NoHash \notin TxId
    /\ ThisDeployment \in Deployment
    /\ Policy \subseteq PolicyType
    /\ Drops \subseteq Nat
    /\ PauseInput \subseteq BOOLEAN
    /\ SETTLEMENT_GRACE \in Nat
    /\ MAX_REQUEST_TTL \in Nat
    /\ MaxTreasuries \in Nat /\ MaxRequests \in Nat /\ MaxInstructions \in Nat
    /\ MaxTime \in Nat /\ MaxExtensions \in Nat

VARIABLES
    owner,          \* contract owner
    teeAddress,     \* enclave address whose results are accepted, or NoAddress
    fdcVerifier,    \* the only caller of markSettled, or NoAddress
    paused,         \* global kill switch
    extensionId,    \* cached extension id, 0 until setExtensionId
    senders,        \* external: InstructionSender of each registered extension
    treasuries,     \* _treasuries
    treasuryCount,
    requests,       \* _requests
    requestCount,
    instructions,   \* instructions dispatched; the position is the instruction id
    now             \* block.timestamp

adminVars == <<owner, teeAddress, fdcVerifier, paused, extensionId, senders>>
treasuryVars == <<treasuries, treasuryCount>>
requestVars == <<requests, requestCount>>
controllerVars == <<adminVars, treasuryVars, requestVars, instructions, now>>

-----------------------------------------------------------------------------
(* Types of storage *)

RequestState == {"NONE", "CREATED", "AUTHORIZED", "SIGNED", "BROADCAST",
                 "SETTLED", "EXPIRED", "CANCELLED", "FAILED"}

ZeroPolicy == [maxPerPaymentDrops |-> 0, maxTotalDrops |-> 0, requestTtlSeconds |-> 0]

\* struct Treasury; xrplAddress itself is only emitted, its hash is what is used.
TreasuryRecord ==
    [owner : Account \cup {NoAddress},
     xrplAddressHash : AddressHash \cup {NoHash},
     policy : Policy \cup {ZeroPolicy},
     policyCommitment : Commitment \cup {NoHash},
     pendingPolicyCommitment : Commitment \cup {NoHash},
     reservedDrops : Nat,
     nextNonce : Nat,
     bound : BOOLEAN,
     paused : BOOLEAN,
     exists : BOOLEAN]

BlankTreasury ==
    [owner |-> NoAddress, xrplAddressHash |-> NoHash, policy |-> ZeroPolicy,
     policyCommitment |-> NoHash, pendingPolicyCommitment |-> NoHash,
     reservedDrops |-> 0, nextNonce |-> 0,
     bound |-> FALSE, paused |-> FALSE, exists |-> FALSE]

\* struct PaymentRequest; requester and createdAt are written once and never read.
RequestRecord ==
    [treasuryId : TreasuryId \cup {0},
     nonce : Nat,
     expiresAt : Nat,
     payloadHash : PayloadHash \cup {NoHash},
     memoRef : MemoRef \cup {NoHash},
     amountDrops : Nat,
     destinationHash : AddressHash \cup {NoHash},
     expectedTxId : TxId \cup {NoHash},
     signedBlobHash : BlobHash \cup {NoHash},
     xrplTxId : TxId \cup {NoHash},
     state : RequestState]

BlankRequest ==
    [treasuryId |-> 0, nonce |-> 0, expiresAt |-> 0, payloadHash |-> NoHash,
     memoRef |-> NoHash, amountDrops |-> 0, destinationHash |-> NoHash,
     expectedTxId |-> NoHash, signedBlobHash |-> NoHash, xrplTxId |-> NoHash,
     state |-> "NONE"]

\* struct InstructionHeader.
Header == [deployment : Deployment, treasuryId : TreasuryId, requestId : Nat, nonce : Nat,
           expiresAt : Nat, memoRef : MemoRef \cup {NoHash},
           policyCommitment : Commitment \cup {NoHash}]

NoBody == [body |-> "none"]
PolicyCommand == {"CREATE_TREASURY_KEY", "REGISTER_POLICY"}
Command == PolicyCommand \cup {"AUTHORIZE_PAYMENT", "SIGN_XRPL_PAYMENT"}
Instruction == [command : Command, header : Header, body : Policy \cup Ciphertext \cup {NoBody}]

PolicyInstruction(i, t) ==
    instructions[i].command \in PolicyCommand /\ instructions[i].header.treasuryId = t

(***************************************************************************)
(* Enclave results.  A result is data, a status and a signer; each handler *)
(* decodes the data with its own tuple type, so data of another kind, or   *)
(* no data at all, makes the call revert.                                  *)
(***************************************************************************)
BindData == [kind : {"bind"}, deployment : Deployment, treasuryId : TreasuryId,
             xrplAddress : XrplAddress \cup {Empty}, policyCommitment : Commitment]
ConfirmData == [kind : {"confirm"}, deployment : Deployment, treasuryId : TreasuryId,
                policy : Policy, commitment : Commitment]
AuthorizationData == [kind : {"authorization"}, deployment : Deployment, requestId : RequestId,
                      memoRef : MemoRef, amountDrops : Drops,
                      destinationHash : AddressHash \cup {NoHash}, payloadHash : PayloadHash]
SignedData == [kind : {"signed"}, deployment : Deployment, requestId : RequestId,
               memoRef : MemoRef, expectedTxId : TxId \cup {NoHash}, signedTxBlob : Blob \cup {Empty}]
FailureData == [kind : {"failure"}, deployment : Deployment, requestId : RequestId]

\* status: 0 a refusal, 1 success, 2 pending.
ResultOf(Data) == [signer : Enclave, status : 0..2, data : Data]

-----------------------------------------------------------------------------
(* Internals *)

validatePolicy(p) ==
    /\ p.maxPerPaymentDrops # 0
    /\ p.maxTotalDrops >= p.maxPerPaymentDrops
    /\ p.requestTtlSeconds # 0
    /\ p.requestTtlSeconds <= MAX_REQUEST_TTL

header(t, r, nonce, expiresAt, ref, commitment) ==
    [deployment |-> ThisDeployment, treasuryId |-> t, requestId |-> r, nonce |-> nonce,
     expiresAt |-> expiresAt, memoRef |-> ref, policyCommitment |-> commitment]

\* _send: route an instruction to the one TEE machine serving this extension.
send(command, h, body) ==
    /\ extensionId # 0
    /\ Len(instructions) < MaxInstructions
    /\ instructions' = Append(instructions, [command |-> command, header |-> h, body |-> body])

\* _requireTeeResult, and submitFailure's variant of it: the signer recovered from
\* the signature over data and status is the registered enclave.
requireResult(res, status) ==
    /\ teeAddress # NoAddress
    /\ res.status = status
    /\ res.signer = teeAddress

requireTeeResult(res) == requireResult(res, 1)

\* abi.decode with the handler's tuple, then the deployment binding check.
requireBinding(res, kind) ==
    /\ res.data.kind = kind
    /\ res.data.deployment = ThisDeployment

\* _mutTreasury and _mutRequest: unknown ids revert.
knownTreasury(t) == treasuries[t].exists
knownRequest(r) == requests[r].state # "NONE"

\* Storage writes shared by several handlers.
setRequestState_Deletes(r, state) == requests' = [requests EXCEPT ![r] = BlankRequest]
setRequestState(r, state) == requests' = [requests EXCEPT ![r].state = state]

release_Resets(r) ==
    treasuries' = [treasuries EXCEPT ![requests[r].treasuryId].reservedDrops = 0]

\* t.reservedDrops -= r.amountDrops; checked arithmetic reverts below zero.
release(r) ==
    LET t == requests[r].treasuryId IN
    /\ treasuries[t].reservedDrops >= requests[r].amountDrops
    /\ treasuries' = [treasuries EXCEPT ![t].reservedDrops = @ - requests[r].amountDrops]

-----------------------------------------------------------------------------
(* Administration *)

Init ==
    /\ owner = Deployer
    /\ teeAddress = NoAddress
    /\ fdcVerifier = NoAddress
    /\ paused = FALSE
    /\ extensionId = 0
    /\ senders = <<>>
    /\ treasuries = [t \in TreasuryId |-> BlankTreasury]
    /\ treasuryCount = 0
    /\ requests = [r \in RequestId |-> BlankRequest]
    /\ requestCount = 0
    /\ instructions = <<>>
    /\ now = 0

\* External: the TeeExtensionRegistry registers an extension for some sender.
registerExtension(d) ==
    /\ Len(senders) < MaxExtensions
    /\ senders' = Append(senders, d)
    /\ UNCHANGED <<owner, teeAddress, fdcVerifier, paused, extensionId,
                   treasuryVars, requestVars, instructions, now>>

\* The first registered extension whose InstructionSender is this contract.
setExtensionId ==
    /\ extensionId = 0
    /\ \E i \in 1..Len(senders) :
          /\ senders[i] = ThisDeployment
          /\ \A j \in 1..(i - 1) : senders[j] # ThisDeployment
          /\ extensionId' = i
    /\ UNCHANGED <<owner, teeAddress, fdcVerifier, paused, senders,
                   treasuryVars, requestVars, instructions, now>>

setTeeAddress(sender, tee) ==
    /\ sender = owner
    /\ tee # NoAddress
    /\ teeAddress' = tee
    /\ UNCHANGED <<owner, fdcVerifier, paused, extensionId, senders,
                   treasuryVars, requestVars, instructions, now>>

setFdcVerifier(sender, verifier) ==
    /\ sender = owner
    /\ verifier # NoAddress
    /\ fdcVerifier' = verifier
    /\ UNCHANGED <<owner, teeAddress, paused, extensionId, senders,
                   treasuryVars, requestVars, instructions, now>>

transferOwnership(sender, newOwner) ==
    /\ sender = owner
    /\ newOwner # NoAddress
    /\ owner' = newOwner
    /\ UNCHANGED <<teeAddress, fdcVerifier, paused, extensionId, senders,
                   treasuryVars, requestVars, instructions, now>>

setPaused(sender, value) ==
    /\ sender = owner
    /\ paused' = value
    /\ UNCHANGED <<owner, teeAddress, fdcVerifier, extensionId, senders,
                   treasuryVars, requestVars, instructions, now>>

-----------------------------------------------------------------------------
(* Treasury lifecycle *)

createTreasury(sender, p) ==
    LET t == treasuryCount + 1 IN
    /\ ~paused
    /\ validatePolicy(p)
    /\ treasuryCount < MaxTreasuries
    /\ treasuryCount' = t
    /\ treasuries' = [treasuries EXCEPT ![t] =
                        [@ EXCEPT !.owner = sender,
                                  !.policy = p,
                                  !.policyCommitment = policyCommitment(p),
                                  !.nextNonce = 1,
                                  !.exists = TRUE]]
    /\ send("CREATE_TREASURY_KEY", header(t, 0, 0, 0, NoHash, policyCommitment(p)), p)
    /\ UNCHANGED <<adminVars, requestVars, now>>

bindTreasuryAddress(res) ==
    LET t == res.data.treasuryId IN
    /\ requireTeeResult(res)
    /\ requireBinding(res, "bind")
    /\ knownTreasury(t)
    /\ ~treasuries[t].bound
    /\ res.data.policyCommitment = treasuries[t].policyCommitment
    /\ res.data.xrplAddress # Empty
    /\ treasuries' = [treasuries EXCEPT ![t] =
                        [@ EXCEPT !.xrplAddressHash = Keccak(res.data.xrplAddress),
                                  !.bound = TRUE]]
    /\ UNCHANGED <<adminVars, treasuryCount, requestVars, instructions, now>>

requestPolicyUpdate(sender, t, p) ==
    /\ ~paused
    /\ knownTreasury(t)
    /\ sender = treasuries[t].owner
    /\ treasuries[t].bound
    /\ validatePolicy(p)
    /\ p.maxTotalDrops >= treasuries[t].reservedDrops
    /\ treasuries' = [treasuries EXCEPT ![t].pendingPolicyCommitment = policyCommitment(p)]
    /\ send("REGISTER_POLICY", header(t, 0, 0, 0, NoHash, policyCommitment(p)), p)
    /\ UNCHANGED <<adminVars, treasuryCount, requestVars, now>>

\* The policy takes effect and the pending slot is spent.
adoptPolicy(t, p, commitment) ==
    /\ treasuries' = [treasuries EXCEPT ![t] =
                        [@ EXCEPT !.pendingPolicyCommitment = NoHash,
                                  !.policy = p,
                                  !.policyCommitment = commitment]]
    /\ UNCHANGED <<adminVars, treasuryCount, requestVars, instructions, now>>

confirmPolicy_AnyPending(res) ==
    LET t == res.data.treasuryId IN
    /\ requireTeeResult(res)
    /\ requireBinding(res, "confirm")
    /\ res.data.commitment = policyCommitment(res.data.policy)
    /\ knownTreasury(t)
    /\ treasuries[t].pendingPolicyCommitment # NoHash
    /\ adoptPolicy(t, res.data.policy, res.data.commitment)
confirmPolicy_Unhashed(res) ==
    LET t == res.data.treasuryId IN
    /\ requireTeeResult(res)
    /\ requireBinding(res, "confirm")
    /\ knownTreasury(t)
    /\ res.data.commitment = treasuries[t].pendingPolicyCommitment
    /\ adoptPolicy(t, res.data.policy, res.data.commitment)
confirmPolicy(res) ==
    LET t == res.data.treasuryId IN
    /\ requireTeeResult(res)
    /\ requireBinding(res, "confirm")
    /\ res.data.commitment = policyCommitment(res.data.policy)
    /\ knownTreasury(t)
    /\ treasuries[t].pendingPolicyCommitment # NoHash
    /\ res.data.commitment = treasuries[t].pendingPolicyCommitment
    /\ adoptPolicy(t, res.data.policy, res.data.commitment)

setTreasuryPaused(sender, t, value) ==
    /\ knownTreasury(t)
    /\ sender \in {treasuries[t].owner, owner}
    /\ treasuries' = [treasuries EXCEPT ![t].paused = value]
    /\ UNCHANGED <<adminVars, treasuryCount, requestVars, instructions, now>>

-----------------------------------------------------------------------------
(* Payment lifecycle *)

createPaymentRequest(sender, t, payload) ==
    LET r == requestCount + 1
        nonce == treasuries[t].nextNonce
        expiresAt == now + treasuries[t].policy.requestTtlSeconds
        ref == memoRef(t, r, nonce)
    IN
    /\ ~paused
    /\ payload # Empty
    /\ knownTreasury(t)
    /\ sender = treasuries[t].owner
    /\ treasuries[t].bound
    /\ ~treasuries[t].paused
    /\ requestCount < MaxRequests
    /\ requestCount' = r
    /\ treasuries' = [treasuries EXCEPT ![t].nextNonce = nonce + 1]
    /\ requests' = [requests EXCEPT ![r] =
                      [@ EXCEPT !.treasuryId = t,
                                !.nonce = nonce,
                                !.expiresAt = expiresAt,
                                !.payloadHash = Keccak(payload),
                                !.memoRef = ref,
                                !.state = "CREATED"]]
    /\ send("AUTHORIZE_PAYMENT",
            header(t, r, nonce, expiresAt, ref, treasuries[t].policyCommitment), payload)
    /\ UNCHANGED <<adminVars, treasuryCount, now>>

\* The amount fits both caps, the cumulative one on top of what is reserved.
withinPolicy_TotalOnly(t, amount) ==
    /\ amount # 0
    /\ treasuries[t].reservedDrops + amount <= treasuries[t].policy.maxTotalDrops
withinPolicy_EachAlone(t, amount) ==
    /\ amount # 0
    /\ amount <= treasuries[t].policy.maxPerPaymentDrops
    /\ amount <= treasuries[t].policy.maxTotalDrops
withinPolicy(t, amount) ==
    /\ amount # 0
    /\ amount <= treasuries[t].policy.maxPerPaymentDrops
    /\ treasuries[t].reservedDrops + amount <= treasuries[t].policy.maxTotalDrops

\* Reserves the amount against the cumulative cap before any signature exists.
submitAuthorization(res) ==
    LET r == res.data.requestId
        t == requests[r].treasuryId
    IN
    /\ requireTeeResult(res)
    /\ requireBinding(res, "authorization")
    /\ requests[r].state = "CREATED"
    /\ now <= requests[r].expiresAt
    /\ res.data.memoRef = requests[r].memoRef
    /\ res.data.payloadHash = requests[r].payloadHash
    /\ res.data.destinationHash # NoHash
    /\ withinPolicy(t, res.data.amountDrops)
    /\ treasuries' = [treasuries EXCEPT ![t].reservedDrops = @ + res.data.amountDrops]
    /\ requests' = [requests EXCEPT ![r] =
                      [@ EXCEPT !.amountDrops = res.data.amountDrops,
                                !.destinationHash = res.data.destinationHash,
                                !.state = "AUTHORIZED"]]
    /\ UNCHANGED <<adminVars, treasuryCount, requestCount, instructions, now>>

\* Leaves the request AUTHORIZED, so it may be called again.
requestSignature(sender, r) ==
    LET q == requests[r]
        t == q.treasuryId
    IN
    /\ ~paused
    /\ q.state = "AUTHORIZED"
    /\ sender = treasuries[t].owner
    /\ ~treasuries[t].paused
    /\ now <= q.expiresAt
    /\ send("SIGN_XRPL_PAYMENT",
            header(t, r, q.nonce, q.expiresAt, q.memoRef, treasuries[t].policyCommitment), NoBody)
    /\ UNCHANGED <<adminVars, treasuryVars, requestVars, now>>

submitSignedPayment(res) ==
    LET r == res.data.requestId IN
    /\ requireTeeResult(res)
    /\ requireBinding(res, "signed")
    /\ requests[r].state = "AUTHORIZED"
    /\ now <= requests[r].expiresAt
    /\ res.data.memoRef = requests[r].memoRef
    /\ res.data.expectedTxId # NoHash
    /\ res.data.signedTxBlob # Empty
    /\ requests' = [requests EXCEPT ![r] =
                      [@ EXCEPT !.expectedTxId = res.data.expectedTxId,
                                !.signedBlobHash = Keccak(res.data.signedTxBlob),
                                !.state = "SIGNED"]]
    /\ UNCHANGED <<adminVars, treasuryVars, requestCount, instructions, now>>

reportBroadcast(r, tx) ==
    /\ requests[r].state = "SIGNED"
    /\ tx = requests[r].expectedTxId
    /\ requests' = [requests EXCEPT ![r] = [@ EXCEPT !.xrplTxId = tx, !.state = "BROADCAST"]]
    /\ UNCHANGED <<adminVars, treasuryVars, requestCount, instructions, now>>

markSettled_Releases(sender, r, tx) ==
    /\ sender = fdcVerifier
    /\ requests[r].state \in {"SIGNED", "BROADCAST"}
    /\ requests' = [requests EXCEPT ![r] = [@ EXCEPT !.xrplTxId = tx, !.state = "SETTLED"]]
    /\ release(r)
    /\ UNCHANGED <<adminVars, treasuryCount, requestCount, instructions, now>>
markSettled(sender, r, tx) ==
    /\ sender = fdcVerifier
    /\ requests[r].state \in {"SIGNED", "BROADCAST"}
    /\ requests' = [requests EXCEPT ![r] = [@ EXCEPT !.xrplTxId = tx, !.state = "SETTLED"]]
    /\ UNCHANGED <<adminVars, treasuryVars, requestCount, instructions, now>>

cancelRequest_Signed(sender, r) ==
    /\ knownRequest(r)
    /\ sender = treasuries[requests[r].treasuryId].owner
    /\ requests[r].state \in {"CREATED", "AUTHORIZED", "SIGNED"}
    /\ IF requests[r].state # "CREATED" THEN release(r) ELSE UNCHANGED treasuries
    /\ setRequestState(r, "CANCELLED")
    /\ UNCHANGED <<adminVars, treasuryCount, requestCount, instructions, now>>
cancelRequest(sender, r) ==
    /\ knownRequest(r)
    /\ sender = treasuries[requests[r].treasuryId].owner
    /\ requests[r].state \in {"CREATED", "AUTHORIZED"}
    /\ IF requests[r].state = "AUTHORIZED" THEN release(r) ELSE UNCHANGED treasuries
    /\ setRequestState(r, "CANCELLED")
    /\ UNCHANGED <<adminVars, treasuryCount, requestCount, instructions, now>>

expirableAt_SignedOnly(r) ==
    IF requests[r].state = "SIGNED" THEN requests[r].expiresAt + SETTLEMENT_GRACE
    ELSE requests[r].expiresAt
\* The last second at which a request may not be expired yet.
expirableAt(r) ==
    IF requests[r].state \in {"SIGNED", "BROADCAST"}
    THEN requests[r].expiresAt + SETTLEMENT_GRACE
    ELSE requests[r].expiresAt

expireRequest(r) ==
    /\ requests[r].state \in {"CREATED", "AUTHORIZED", "SIGNED", "BROADCAST"}
    /\ now > expirableAt(r)
    /\ IF requests[r].state # "CREATED" THEN release(r) ELSE UNCHANGED treasuries
    /\ setRequestState(r, "EXPIRED")
    /\ UNCHANGED <<adminVars, treasuryCount, requestCount, instructions, now>>

submitFailure(res) ==
    LET r == res.data.requestId IN
    /\ requireResult(res, 0)
    /\ requireBinding(res, "failure")
    /\ requests[r].state \in {"CREATED", "AUTHORIZED"}
    /\ IF requests[r].state = "AUTHORIZED" THEN release(r) ELSE UNCHANGED treasuries
    /\ setRequestState(r, "FAILED")
    /\ UNCHANGED <<adminVars, treasuryCount, requestCount, instructions, now>>

\* settlementExpectation: what a proof is matched against.
settlementExpectation(r) ==
    [sourceAddressHash |-> treasuries[requests[r].treasuryId].xrplAddressHash,
     destinationHash |-> requests[r].destinationHash,
     amountDrops |-> requests[r].amountDrops,
     expectedMemo |-> encodeMemo(requests[r].memoRef),
     state |-> requests[r].state]

\* Environment: a block with a later timestamp.
Tick ==
    /\ now < MaxTime
    /\ now' = now + 1
    /\ UNCHANGED <<adminVars, treasuryVars, requestVars, instructions>>

-----------------------------------------------------------------------------
(* The specification *)

Administration ==
    \/ \E d \in Deployment : registerExtension(d)
    \/ setExtensionId
    \/ \E s \in Account :
          \/ \E tee \in Enclave : setTeeAddress(s, tee)
          \/ \E v \in Verifier : setFdcVerifier(s, v)
          \/ \E a \in Account : transferOwnership(s, a)
          \/ \E b \in PauseInput : setPaused(s, b)

OwnerCalls ==
    \E s \in Account :
       \/ \E p \in Policy : createTreasury(s, p)
       \/ \E t \in TreasuryId, p \in Policy : requestPolicyUpdate(s, t, p)
       \/ \E t \in TreasuryId, b \in PauseInput : setTreasuryPaused(s, t, b)
       \/ \E t \in TreasuryId, c \in Ciphertext : createPaymentRequest(s, t, c)
       \/ \E r \in RequestId : requestSignature(s, r)
       \/ \E r \in RequestId : cancelRequest(s, r)

\* Anyone may deliver any result; data of another kind does not decode.
ResultCalls ==
    \/ \E res \in ResultOf(BindData) : bindTreasuryAddress(res)
    \/ \E res \in ResultOf(ConfirmData) : confirmPolicy(res)
    \/ \E res \in ResultOf(AuthorizationData) : submitAuthorization(res)
    \/ \E res \in ResultOf(SignedData) : submitSignedPayment(res)
    \/ \E res \in ResultOf(FailureData) : submitFailure(res)

AnyoneCalls ==
    \/ \E r \in RequestId, tx \in TxId : reportBroadcast(r, tx)
    \/ \E r \in RequestId : expireRequest(r)

\* Every step of the controller except settlement, which the verifier drives.
ControllerStep == Administration \/ OwnerCalls \/ ResultCalls \/ AnyoneCalls \/ Tick

Next ==
    \/ ControllerStep
    \/ \E v \in Verifier, r \in RequestId, tx \in TxId : markSettled(v, r, tx)

Spec == Init /\ [][Next]_controllerVars

-----------------------------------------------------------------------------
(* Properties *)

(***************************************************************************)
(* Every storage slot, the clock and the registry hold values of their     *)
(* declared type.                                                          *)
(***************************************************************************)
TypeOK ==
    /\ owner \in Account
    /\ teeAddress \in Enclave \cup {NoAddress}
    /\ fdcVerifier \in Verifier \cup {NoAddress}
    /\ paused \in BOOLEAN
    /\ extensionId \in Nat
    /\ senders \in Seq(Deployment)
    /\ treasuries \in [TreasuryId -> TreasuryRecord]
    /\ treasuryCount \in 0..MaxTreasuries
    /\ requests \in [RequestId -> RequestRecord]
    /\ requestCount \in 0..MaxRequests
    /\ instructions \in Seq(Instruction)
    /\ now \in Time

(***************************************************************************)
(* Ids and nonces are sequential although results, requests and treasuries *)
(* interleave: exactly the ids up to each counter exist, a request belongs *)
(* to an existing treasury, and a treasury never gives a nonce twice, so   *)
(* createPaymentRequest's memo reference names one request.                *)
(***************************************************************************)
IdsAndNonces ==
    /\ \A t \in TreasuryId :
          /\ treasuries[t].exists <=> t <= treasuryCount
          /\ treasuries[t].exists => treasuries[t].nextNonce \in 1..(requestCount + 1)
    /\ \A r \in RequestId :
          /\ requests[r].state # "NONE" <=> r <= requestCount
          /\ requests[r].state # "NONE" =>
                LET t == requests[r].treasuryId IN
                /\ t \in 1..treasuryCount
                /\ requests[r].nonce \in 1..(treasuries[t].nextNonce - 1)
                /\ requests[r].memoRef = memoRef(t, r, requests[r].nonce)
                /\ \A s \in (r + 1)..requestCount :
                      requests[s].treasuryId = t => requests[r].nonce < requests[s].nonce

\* The drops a request holds against the cumulative cap of treasury t.
Holding == {"AUTHORIZED", "SIGNED", "BROADCAST", "SETTLED"}
heldDrops(t, r) ==
    IF requests[r].treasuryId = t /\ requests[r].state \in Holding THEN requests[r].amountDrops ELSE 0

\* Held(t)[n]: what requests 1..n hold against treasury t.
Held(t) ==
    LET total[n \in 0..MaxRequests] == IF n = 0 THEN 0 ELSE total[n - 1] + heldDrops(t, n)
    IN  total

(***************************************************************************)
(* submitAuthorization is the only place that reserves and four handlers   *)
(* release: whatever their order and whatever results are replayed,        *)
(* reservedDrops is exactly the sum of the amounts of the treasury's       *)
(* AUTHORIZED, SIGNED, BROADCAST and SETTLED requests.  Nothing is         *)
(* released twice, leaked, or charged to another treasury.                 *)
(***************************************************************************)
BudgetConservation ==
    \A t \in TreasuryId : treasuries[t].reservedDrops = Held(t)[MaxRequests]

(***************************************************************************)
(* Once submitSignedPayment has published a blob, its amount stays         *)
(* reserved until expiresAt + SETTLEMENT_GRACE: no cancellation, refusal   *)
(* or expiry frees the budget of a payment that may still be included.     *)
(***************************************************************************)
PublishedStaysReserved ==
    \A r \in RequestId :
       requests[r].signedBlobHash # NoHash /\ now <= requests[r].expiresAt + SETTLEMENT_GRACE
       => requests[r].state \in {"SIGNED", "BROADCAST", "SETTLED"}

(***************************************************************************)
(* confirmPolicy: an acknowledgement, which never expires, cannot put an   *)
(* older policy back.  The newest policy dispatched for a treasury is the  *)
(* pending one, and when none is pending it is the live one.               *)
(***************************************************************************)
NewestPolicyWins ==
    \A t \in 1..treasuryCount : \E i \in 1..Len(instructions) :
       /\ PolicyInstruction(i, t)
       /\ \A j \in (i + 1)..Len(instructions) : ~PolicyInstruction(j, t)
       /\ instructions[i].header.policyCommitment =
             IF treasuries[t].pendingPolicyCommitment = NoHash
             THEN treasuries[t].policyCommitment
             ELSE treasuries[t].pendingPolicyCommitment

(***************************************************************************)
(* The enclave cannot install limits of its own choosing: the live policy  *)
(* of a treasury is the body of an instruction its owner had dispatched,   *)
(* it passed _validatePolicy, and policyCommitment is its hash.            *)
(***************************************************************************)
LivePolicyPublished ==
    \A t \in 1..treasuryCount :
       /\ validatePolicy(treasuries[t].policy)
       /\ treasuries[t].policyCommitment = policyCommitment(treasuries[t].policy)
       /\ \E i \in 1..Len(instructions) :
             PolicyInstruction(i, t) /\ instructions[i].body = treasuries[t].policy

(***************************************************************************)
(* submitAuthorization re-checks the cap on chain: an amount any enclave   *)
(* obtained approval for is within the per-payment cap of a policy the     *)
(* owner published for that very treasury.                                 *)
(***************************************************************************)
AmountWithinPublishedCap ==
    \A r \in RequestId : requests[r].amountDrops # 0 =>
       \E i \in 1..Len(instructions) :
          /\ PolicyInstruction(i, requests[r].treasuryId)
          /\ requests[r].amountDrops <= instructions[i].body.maxPerPaymentDrops

(***************************************************************************)
(* What reservations add up to is within the cumulative cap of one policy  *)
(* the owner published for the treasury, however policies and              *)
(* authorizations interleave.  It need not be the live one: a cap is       *)
(* compared with reservedDrops when requestPolicyUpdate asks for it and    *)
(* installed later by confirmPolicy, after payments authorized meanwhile.  *)
(***************************************************************************)
ReservedWithinPublishedCap ==
    \A t \in 1..treasuryCount : \E i \in 1..Len(instructions) :
       /\ PolicyInstruction(i, t)
       /\ treasuries[t].reservedDrops <= instructions[i].body.maxTotalDrops
=============================================================================
