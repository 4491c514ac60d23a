---------------------------- MODULE ServiceChain ----------------------------
(***************************************************************************)
(* The Flare chain as the off-chain services see it: the controller, and   *)
(* the log of the events they scan for.  An event is emitted by the step   *)
(* that changes the storage.  Its position in the log is its block number, *)
(* so a range of blocks is a range of positions and the head is the        *)
(* length; blocks that hold no watched event are left out, except those    *)
(* made while a service is down (EventLoop).                               *)
(***************************************************************************)
EXTENDS BridgeSafeController

VARIABLE events

chainVars == <<controllerVars, events>>

emit(name, id) ==
    events' = Append(events, [event |-> name, id |-> id, instruction |-> Len(instructions')])

Blocks == 1..Len(events)

\* The number of the newest block.
BlockNumber == Len(events)

\* Administration is over: the extension is registered, the enclave and verifier set.
Deployed ==
    /\ owner = Deployer
    /\ teeAddress \in Enclave
    /\ fdcVerifier \in Verifier
    /\ paused = FALSE
    /\ extensionId = 1
    /\ senders = <<ThisDeployment>>
    /\ now = 0

NoRequestYet ==
    /\ requests = [r \in RequestId |-> BlankRequest]
    /\ requestCount = 0

NoTreasuryYet ==
    /\ NoRequestYet
    /\ treasuries = [t \in TreasuryId |-> BlankTreasury]
    /\ treasuryCount = 0
    /\ instructions = <<>>
    /\ events = <<>>

\* Treasury 1 is created and bound to an address; no event is left to scan.
OneTreasuryBound ==
    /\ NoRequestYet
    /\ \E a \in XrplAddress, p \in Policy, s \in Account :
          /\ treasuries = [t \in TreasuryId |-> IF t # 1 THEN BlankTreasury ELSE
                             [BlankTreasury EXCEPT !.owner = s,
                                                   !.xrplAddressHash = Keccak(a),
                                                   !.policy = p,
                                                   !.policyCommitment = policyCommitment(p),
                                                   !.nextNonce = 1,
                                                   !.bound = TRUE,
                                                   !.exists = TRUE]]
          /\ treasuryCount = 1
          /\ instructions = <<[command |-> "CREATE_TREASURY_KEY", body |-> p,
                               header |-> header(1, 0, 0, 0, NoHash, policyCommitment(p))]>>
          /\ events = <<>>

\* Every request of treasury 1 is authorized and its signature asked for.
AllAuthorized ==
    \E a, d \in XrplAddress, p \in Policy, s \in Account, c \in Ciphertext, amount \in Drops :
       LET nonceOf(r) == r
           expiry == p.requestTtlSeconds
           headerOf(r) == header(1, r, nonceOf(r), expiry, memoRef(1, r, nonceOf(r)),
                                 policyCommitment(p))
           dispatch(command, body) ==
               [r \in RequestId |-> [command |-> command, header |-> headerOf(r), body |-> body]]
       IN
       /\ c # Empty
       /\ amount \in 1..p.maxPerPaymentDrops /\ MaxRequests * amount <= p.maxTotalDrops
       /\ treasuries = [t \in TreasuryId |-> IF t # 1 THEN BlankTreasury ELSE
                          [BlankTreasury EXCEPT !.owner = s,
                                                !.xrplAddressHash = Keccak(a),
                                                !.policy = p,
                                                !.policyCommitment = policyCommitment(p),
                                                !.reservedDrops = MaxRequests * amount,
                                                !.nextNonce = MaxRequests + 1,
                                                !.bound = TRUE,
                                                !.exists = TRUE]]
       /\ treasuryCount = 1
       /\ requests = [r \in RequestId |->
                        [BlankRequest EXCEPT !.treasuryId = 1,
                                             !.nonce = nonceOf(r),
                                             !.expiresAt = expiry,
                                             !.payloadHash = Keccak(c),
                                             !.memoRef = memoRef(1, r, nonceOf(r)),
                                             !.amountDrops = amount,
                                             !.destinationHash = Keccak(d),
                                             !.state = "AUTHORIZED"]]
       /\ requestCount = MaxRequests
       /\ instructions = <<[command |-> "CREATE_TREASURY_KEY", body |-> p,
                            header |-> header(1, 0, 0, 0, NoHash, policyCommitment(p))]>>
                         \o dispatch("AUTHORIZE_PAYMENT", c) \o dispatch("SIGN_XRPL_PAYMENT", NoBody)
       /\ events = <<>>

-----------------------------------------------------------------------------
(* The calls of owners and of anyone, with the events they emit *)

CreateTreasury(s, p) == createTreasury(s, p) /\ emit("TreasuryCreated", treasuryCount')
UpdatePolicy(s, t, p) == requestPolicyUpdate(s, t, p) /\ emit("PolicyUpdateRequested", t)
RequestPayment(s, t, c) == createPaymentRequest(s, t, c) /\ emit("PaymentRequested", requestCount')
RequestSignature(s, r) == requestSignature(s, r) /\ emit("SignatureRequested", r)
Cancel(s, r) == cancelRequest(s, r) /\ UNCHANGED events
Expire(r) == expireRequest(r) /\ UNCHANGED events
TimePasses == Tick /\ UNCHANGED events

ReportBroadcast(r, tx) == reportBroadcast(r, tx) /\ emit("PaymentBroadcast", r)

\* A controller method called with an enclave result.
Deliver(method, res) ==
    \/ /\ method = "bindTreasuryAddress"
       /\ bindTreasuryAddress(res)
       /\ UNCHANGED events
    \/ /\ method = "confirmPolicy"
       /\ confirmPolicy(res)
       /\ UNCHANGED events
    \/ /\ method = "submitAuthorization"
       /\ submitAuthorization(res)
       /\ UNCHANGED events
    \/ /\ method = "submitSignedPayment"
       /\ submitSignedPayment(res)
       /\ emit("PaymentSigned", res.data.requestId)
    \/ /\ method = "submitFailure"
       /\ submitFailure(res)
       /\ UNCHANGED events

Users ==
    \/ \E s \in Account :
          \/ \E p \in Policy : CreateTreasury(s, p)
          \/ \E t \in TreasuryId, p \in Policy : UpdatePolicy(s, t, p)
          \/ \E t \in TreasuryId, c \in Ciphertext : RequestPayment(s, t, c)
          \/ \E r \in RequestId : RequestSignature(s, r) \/ Cancel(s, r)
    \/ \E r \in RequestId : Expire(r)
    \/ TimePasses
=============================================================================
