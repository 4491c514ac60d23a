------------------------------ MODULE Enclave ------------------------------
(***************************************************************************)
(* extension/go/internal/extension: the BridgeSafe TEE extension.          *)
(*                                                                         *)
(* net/http runs each POST /action on a goroutine of its own; e.mu guards  *)
(* the two maps, but not the treasury record a map entry points to, nor    *)
(* the time between two critical sections of a handler.  A step here ends  *)
(* where another goroutine may run: at a critical section, at a network    *)
(* call, and at each unlocked read of a field handleRegisterPolicy writes. *)
(*                                                                         *)
(* External: the TEE node delivers any action a of Action up to            *)
(* MaxDeliveries[a] times, signs what the handlers return and decrypts;    *)
(* XRPL answers account_info and server_info.  All three may fail.         *)
(***************************************************************************)
EXTENDS Integers, FiniteSets, BridgeSafeHashes

CONSTANTS
    Goroutine,
    Action,            \* actions delivered: [id, command, header, body]
    TreasuryId, RequestId, XrplAddress,
    KeyAddress,        \* addresses of the keys GeneratePrivateKey may return
    Plaintext(_),      \* the payment instruction sealed in a ciphertext, or Garbage
    Garbage, Empty, None,
    MinLedgerWindow, MaxLedgerWindow, LedgerSecondsPerLedger,
    MaxUint64, MaxDrops,
    \* Bounds of the model.
    MaxDeliveries, MaxRestarts, MaxSequence, MaxLedger, MaxClock

PolicyAction == {a \in Action : a.command \in {"CREATE_TREASURY_KEY", "REGISTER_POLICY"}}
PaymentAction == {a \in Action : a.command \in {"AUTHORIZE_PAYMENT", "SIGN_XRPL_PAYMENT"}}
Sealed == {a \in Action : a.command = "AUTHORIZE_PAYMENT" /\ Plaintext(a.body) # Garbage}

\* struct treasury; the key is what its address stands for.
TreasuryRecord == [address : KeyAddress,
                   policy : {a.body : a \in PolicyAction},
                   policyCommitment : {a.header.policyCommitment : a \in PolicyAction}]

\* The controller dispatches no policy that _validatePolicy has not passed.
ASSUME EnclaveAssumption ==
    /\ MinLedgerWindow \in Nat /\ MaxLedgerWindow \in Nat
    /\ LedgerSecondsPerLedger \in Nat \ {0}
    /\ MaxUint64 \in Nat
    /\ KeyAddress \subseteq XrplAddress
    /\ MaxDeliveries \in [Action -> Nat]
    /\ \A a, b \in Action : a.id = b.id => a = b
    /\ \A a \in Action : a.header.treasuryId \in TreasuryId
    /\ \A a \in PaymentAction : a.header.requestId \in RequestId
    /\ \A a \in Sealed : Plaintext(a.body).amountDrops \in Int
    /\ \A a \in PolicyAction :
          /\ a.body.maxPerPaymentDrops \in Nat /\ a.body.maxTotalDrops \in Nat
          /\ a.body.maxPerPaymentDrops <= a.body.maxTotalDrops
    /\ None \notin TreasuryRecord

VARIABLES
    treasuries,        \* id -> [address, policy, policyCommitment], or None
    authorizations,    \* request id -> approved terms, or None
    calls,             \* what each goroutine is doing
    results,           \* every ActionResult returned
    generated,         \* addresses whose key has been generated
    delivered,         \* deliveries of each action
    restarts,
    \* External: XRPL and the machine's clock.
    sequence, currentLedger, clock

enclaveVars == <<treasuries, authorizations, calls, results, generated>>
ledgerVars == <<sequence, currentLedger, clock>>
vars == <<enclaveVars, delivered, restarts, ledgerVars>>

Idle == [pc |-> "idle"]

Init ==
    /\ treasuries = [t \in TreasuryId |-> None]
    /\ authorizations = [r \in RequestId |-> None]
    /\ calls = [g \in Goroutine |-> Idle]
    /\ results = {}
    /\ generated = {}
    /\ delivered = [a \in Action |-> 0]
    /\ restarts = 0
    /\ sequence = [x \in XrplAddress |-> 1]
    /\ currentLedger = 1
    /\ clock = 0

-----------------------------------------------------------------------------
(* Results and bookkeeping *)

\* buildResult: the result of action a; boot tells restarts apart in the properties.
result(a, status, data) ==
    [id |-> a.id, command |-> a.command, status |-> status, data |-> data, boot |-> restarts]

\* A refusal carries no data, whatever the request.
NoData == [kind |-> "none"]

\* The goroutine writes its response and ends.
reply(g, res) ==
    /\ results' = results \cup {res}
    /\ calls' = [calls EXCEPT ![g] = Idle]

refuse(g, a) ==
    /\ reply(g, result(a, 0, NoData))
    /\ UNCHANGED <<treasuries, authorizations, generated>>

goto(g, call) ==
    /\ calls' = [calls EXCEPT ![g] = call]
    /\ UNCHANGED <<treasuries, authorizations, results, generated>>

\* actionHandler, processAction and processTreasury: an action of this command arrives.
receive(g, a, command) ==
    /\ calls[g] = Idle
    /\ a.command = command
    /\ delivered[a] < MaxDeliveries[a]
    /\ delivered' = [delivered EXCEPT ![a] = @ + 1]
    /\ UNCHANGED <<restarts, ledgerVars>>

\* A later step of a handler.
continue(g, pc) ==
    /\ calls[g].pc = pc
    /\ UNCHANGED <<delivered, restarts, ledgerVars>>

-----------------------------------------------------------------------------
(* CREATE_TREASURY_KEY and REGISTER_POLICY *)

validateHeaderCommitment(a) == a.header.policyCommitment = policyCommitment(a.body)

\* A treasury gets one key, for a policy the header commits to.
mayCreateKey_Repeated(a) == validateHeaderCommitment(a)
mayCreateKey(a) == validateHeaderCommitment(a) /\ treasuries[a.header.treasuryId] = None

\* One critical section, held until the handler returns.
handleCreateTreasuryKey(g, a) ==
    LET t == a.header.treasuryId IN
    /\ receive(g, a, "CREATE_TREASURY_KEY")
    /\ IF mayCreateKey(a)
       THEN \E address \in KeyAddress \ generated :
               /\ generated' = generated \cup {address}
               /\ treasuries' = [treasuries EXCEPT ![t] =
                                   [address |-> address, policy |-> a.body,
                                    policyCommitment |-> a.header.policyCommitment]]
               /\ reply(g, result(a, 1, [kind |-> "bind", deployment |-> a.header.deployment,
                                         treasuryId |-> t, xrplAddress |-> address,
                                         policyCommitment |-> a.header.policyCommitment]))
               /\ UNCHANGED authorizations
       ELSE refuse(g, a)

\* Both fields are written in one critical section.
replacePolicy_CommitmentStale(t, p, commitment) ==
    treasuries' = [treasuries EXCEPT ![t].policy = p]
replacePolicy(t, p, commitment) ==
    treasuries' = [treasuries EXCEPT ![t].policy = p, ![t].policyCommitment = commitment]

\* The response follows the critical section.
handleRegisterPolicy(g, a) ==
    LET t == a.header.treasuryId IN
    /\ receive(g, a, "REGISTER_POLICY")
    /\ IF validateHeaderCommitment(a) /\ treasuries[t] # None
       THEN /\ replacePolicy(t, a.body, a.header.policyCommitment)
            /\ reply(g, result(a, 1, [kind |-> "confirm", deployment |-> a.header.deployment,
                                      treasuryId |-> t, policy |-> a.body,
                                      commitment |-> a.header.policyCommitment]))
            /\ UNCHANGED <<authorizations, generated>>
       ELSE refuse(g, a)

-----------------------------------------------------------------------------
(* AUTHORIZE_PAYMENT *)

bindPayloadToHeader(pi, h) ==
    /\ pi.deployment = h.deployment
    /\ pi.treasuryId = h.treasuryId
    /\ pi.requestId = h.requestId

\* The instruction in a decrypted payload is one the handler goes on with.
acceptable(pi, h, address) ==
    /\ pi # Garbage
    /\ bindPayloadToHeader(pi, h)
    /\ pi.destination \in XrplAddress
    /\ pi.destination # address
    /\ pi.amountDrops <= MaxUint64

checkPolicy_TotalOnly(maxPerPaymentDrops, maxTotalDrops, amount) ==
    amount > 0 /\ amount <= maxTotalDrops
checkPolicy(maxPerPaymentDrops, maxTotalDrops, amount) ==
    /\ amount > 0
    /\ maxPerPaymentDrops > 0
    /\ amount <= maxPerPaymentDrops
    /\ amount <= maxTotalDrops

\* The treasury is looked up under the read lock, which is then released.
handleAuthorizePayment(g, a) ==
    /\ receive(g, a, "AUTHORIZE_PAYMENT")
    /\ IF a.body # Empty /\ treasuries[a.header.treasuryId] # None
       THEN goto(g, [pc |-> "commitment", action |-> a])
       ELSE refuse(g, a)

\* Unlocked: t.policyCommitment.
compareCommitment(g) ==
    LET a == calls[g].action IN
    /\ continue(g, "commitment")
    /\ IF a.header.policyCommitment = treasuries[a.header.treasuryId].policyCommitment
       THEN goto(g, [pc |-> "decrypt", action |-> a])
       ELSE refuse(g, a)

\* The node's /decrypt answers or fails; then everything up to the policy check.
decrypt(g) ==
    LET a == calls[g].action
        pi == Plaintext(a.body)
    IN
    /\ continue(g, "decrypt")
    /\ \/ /\ acceptable(pi, a.header, treasuries[a.header.treasuryId].address)
          /\ goto(g, [pc |-> "caps", action |-> a, caps |-> <<None, None>>])
       \/ refuse(g, a)

\* Unlocked: the copy of t.policy passed to checkPolicy, one word at a time.
copyPolicy(g) ==
    LET a == calls[g].action
        p == treasuries[a.header.treasuryId].policy
    IN
    /\ continue(g, "caps")
    /\ \E i \in 1..2 :
          /\ calls[g].caps[i] = None
          /\ goto(g, [calls[g] EXCEPT !.caps[i] = IF i = 1 THEN p.maxPerPaymentDrops
                                                          ELSE p.maxTotalDrops])

\* The policy check, and the critical section that records the authorization.
authorize(g) ==
    LET a == calls[g].action
        h == a.header
        pi == Plaintext(a.body)
        caps == calls[g].caps
    IN
    /\ continue(g, "caps")
    /\ caps[1] # None /\ caps[2] # None
    /\ IF checkPolicy(caps[1], caps[2], pi.amountDrops)
       THEN /\ authorizations' = [authorizations EXCEPT ![h.requestId] =
                                    [treasuryId |-> h.treasuryId, destination |-> pi.destination,
                                     amountDrops |-> pi.amountDrops, tag |-> pi.tag,
                                     memoRef |-> h.memoRef, expiresAt |-> h.expiresAt]]
            /\ reply(g, result(a, 1, [kind |-> "authorization", deployment |-> h.deployment,
                                      requestId |-> h.requestId, memoRef |-> h.memoRef,
                                      amountDrops |-> pi.amountDrops,
                                      destinationHash |-> Keccak(pi.destination),
                                      payloadHash |-> Keccak(a.body)]))
            /\ UNCHANGED <<treasuries, generated>>
       ELSE refuse(g, a)

-----------------------------------------------------------------------------
(* SIGN_XRPL_PAYMENT *)

\* lastLedgerFor: the request's deadline as an XRPL ledger bound.
lastLedgerFor(ledger, expiresAt) ==
    LET remaining == expiresAt - clock
        window == IF remaining > 0 THEN remaining \div LedgerSecondsPerLedger
                                   ELSE MinLedgerWindow
        floored == IF window < MinLedgerWindow THEN MinLedgerWindow ELSE window
    IN  ledger + (IF floored > MaxLedgerWindow THEN MaxLedgerWindow ELSE floored)

\* The instruction names the request and treasury the authorization was given for.
matches_AnyMemo(auth, h) == auth.treasuryId = h.treasuryId
matches(auth, h) == auth.memoRef = h.memoRef /\ auth.treasuryId = h.treasuryId

\* The authorization and its treasury are read under the read lock.
handleSignPayment(g, a) ==
    LET auth == authorizations[a.header.requestId] IN
    /\ receive(g, a, "SIGN_XRPL_PAYMENT")
    /\ IF /\ auth # None
          /\ treasuries[auth.treasuryId] # None
          /\ matches(auth, a.header)
       THEN goto(g, [pc |-> "sequence", action |-> a, auth |-> auth])
       ELSE refuse(g, a)

\* account_info answers with the validated sequence, or fails.
readSequence(g) ==
    LET auth == calls[g].auth IN
    /\ continue(g, "sequence")
    /\ \/ goto(g, [pc |-> "ledger", action |-> calls[g].action, auth |-> auth,
                   sequence |-> sequence[treasuries[auth.treasuryId].address]])
       \/ refuse(g, calls[g].action)

\* server_info answers with the validated ledger, or fails.
readLedger(g) ==
    /\ continue(g, "ledger")
    /\ \/ goto(g, [pc |-> "sign", action |-> calls[g].action, auth |-> calls[g].auth,
                   sequence |-> calls[g].sequence, ledger |-> currentLedger])
       \/ refuse(g, calls[g].action)

\* Payment.Sign: deterministic, so the blob is the record of its fields.  Every
\* payment has the same fee and, given its account, the same public key.
signedBlob(call) ==
    [account |-> treasuries[call.auth.treasuryId].address,
     destination |-> call.auth.destination,
     amountDrops |-> call.auth.amountDrops,
     tag |-> call.auth.tag,
     sequence |-> call.sequence,
     lastLedgerSequence |-> lastLedgerFor(call.ledger, call.auth.expiresAt),
     memo |-> encodeMemo(call.auth.memoRef)]

\* sha512Half over the prefixed blob.
transactionId(blob) == [sha512Half |-> blob]

\* Payment.Validate: the other fields have their required lengths by construction.
validate(blob) == blob.amountDrops # 0 /\ blob.amountDrops <= MaxDrops /\ blob.lastLedgerSequence # 0

sign(g) ==
    LET blob == signedBlob(calls[g]) IN
    /\ continue(g, "sign")
    /\ IF validate(blob)
       THEN goto(g, [pc |-> "consume", action |-> calls[g].action, blob |-> blob])
       ELSE refuse(g, calls[g].action)

\* The critical section that drops the authorization, then the response.
consume(g) ==
    LET h == calls[g].action.header
        blob == calls[g].blob
    IN
    /\ continue(g, "consume")
    /\ authorizations' = [authorizations EXCEPT ![h.requestId] = None]
    /\ reply(g, result(calls[g].action, 1,
                       [kind |-> "signed", deployment |-> h.deployment,
                        requestId |-> h.requestId, memoRef |-> h.memoRef,
                        expectedTxId |-> transactionId(blob), signedTxBlob |-> blob]))
    /\ UNCHANGED <<treasuries, generated>>

-----------------------------------------------------------------------------
(* Environment *)

\* The enclave's memory, keys included, is lost with the process.
Restart ==
    /\ restarts < MaxRestarts
    /\ restarts' = restarts + 1
    /\ treasuries' = [t \in TreasuryId |-> None]
    /\ authorizations' = [r \in RequestId |-> None]
    /\ calls' = [g \in Goroutine |-> Idle]
    /\ UNCHANGED <<results, generated, delivered, ledgerVars>>

\* A transaction of the account is validated, or a ledger closes, or time passes.
XrplStep ==
    /\ \/ \E x \in generated :
             /\ sequence[x] < MaxSequence
             /\ sequence' = [sequence EXCEPT ![x] = @ + 1]
             /\ UNCHANGED <<currentLedger, clock>>
       \/ /\ currentLedger < MaxLedger
          /\ currentLedger' = currentLedger + 1
          /\ UNCHANGED <<sequence, clock>>
       \/ /\ clock < MaxClock
          /\ clock' = clock + 1
          /\ UNCHANGED <<sequence, currentLedger>>
    /\ UNCHANGED <<enclaveVars, delivered, restarts>>

Next ==
    \/ \E g \in Goroutine :
          \/ \E a \in Action :
                \/ handleCreateTreasuryKey(g, a) \/ handleRegisterPolicy(g, a)
                \/ handleAuthorizePayment(g, a) \/ handleSignPayment(g, a)
          \/ compareCommitment(g) \/ decrypt(g) \/ copyPolicy(g) \/ authorize(g)
          \/ readSequence(g) \/ readLedger(g) \/ sign(g) \/ consume(g)
    \/ Restart
    \/ XrplStep

Spec == Init /\ [][Next]_vars

-----------------------------------------------------------------------------
(* Properties *)

Authorization == [treasuryId : TreasuryId, destination : XrplAddress, amountDrops : 1..MaxUint64,
                  tag : {Plaintext(a.body).tag : a \in Sealed},
                  memoRef : {a.header.memoRef : a \in Action},
                  expiresAt : {a.header.expiresAt : a \in Action}]

(***************************************************************************)
(* The maps hold complete records of known treasuries and requests, and a  *)
(* running handler always holds an action that was delivered.              *)
(***************************************************************************)
TypeOK ==
    /\ \A t \in TreasuryId : treasuries[t] # None =>
          /\ treasuries[t].address \in generated
          /\ treasuries[t].policyCommitment = policyCommitment(treasuries[t].policy)
    /\ \A r \in RequestId : authorizations[r] # None => authorizations[r] \in Authorization
    /\ \A g \in Goroutine : calls[g] # Idle =>
          calls[g].action \in Action /\ delivered[calls[g].action] > 0
    /\ generated \subseteq KeyAddress

\* Results of one kind returned since the process last started with boot number b.
Returned(kind, b) == {res \in results : res.data.kind = kind /\ res.boot = b}

\* The action a result answers.
Answered(res) == CHOOSE a \in Action : a.id = res.id

(***************************************************************************)
(* "Impossible to authorize one payment and sign a different one": every   *)
(* signed blob pays, from the address bound for its treasury in the same   *)
(* boot, exactly the amount, destination and tag of an authorization       *)
(* returned for that request, and its memo is the one of the instruction;  *)
(* the handler reads the terms long before it signs.                       *)
(***************************************************************************)
SignedAsAuthorized ==
    \A b \in 0..restarts : \A s \in Returned("signed", b) :
       LET blob == s.data.signedTxBlob IN
       /\ blob.memo = encodeMemo(s.data.memoRef)
       /\ \E u \in Returned("authorization", b) :
             LET pi == Plaintext(Answered(u).body) IN
             /\ u.data.requestId = s.data.requestId
             /\ u.data.memoRef = s.data.memoRef
             /\ u.data.amountDrops = blob.amountDrops
             /\ u.data.destinationHash = Keccak(blob.destination)
             /\ pi.requestId = s.data.requestId
             /\ pi.treasuryId = Answered(s).header.treasuryId
             /\ pi.tag = blob.tag
             /\ \E k \in Returned("bind", b) :
                   /\ k.data.treasuryId = pi.treasuryId
                   /\ k.data.xrplAddress = blob.account

(***************************************************************************)
(* checkPolicy may see a policy half replaced by REGISTER_POLICY, since it *)
(* is copied without the lock: even so an approved amount is allowed, by   *)
(* both caps, by one policy the enclave acknowledged for that treasury.    *)
(***************************************************************************)
WithinOnePolicy ==
    \A b \in 0..restarts : \A u \in Returned("authorization", b) :
       \E k \in Returned("bind", b) \cup Returned("confirm", b) :
          LET p == Answered(k).body IN
          /\ k.data.treasuryId = Answered(u).header.treasuryId
          /\ u.data.amountDrops <= p.maxPerPaymentDrops
          /\ u.data.amountDrops <= p.maxTotalDrops

(***************************************************************************)
(* "Regenerating a key would orphan any funds": however often and however  *)
(* concurrently CREATE_TREASURY_KEY is delivered, one boot binds one       *)
(* address to a treasury, and keeps its key.                               *)
(***************************************************************************)
OneKeyPerBoot ==
    \A k, m \in results :
       /\ k.data.kind = "bind" /\ m.data.kind = "bind" /\ k.boot = m.boot
       /\ k.data.treasuryId = m.data.treasuryId
       => /\ k = m
          /\ k.boot = restarts => treasuries[k.data.treasuryId].address = k.data.xrplAddress

(***************************************************************************)
(* "One authorization yields one signature": no more distinct blobs have   *)
(* been signed for a request than authorizations were returned for it.     *)
(***************************************************************************)
OneSignaturePerAuthorization ==
    \A r \in RequestId :
       LET of(kind) == {res \in results : res.data.kind = kind /\ res.data.requestId = r}
       IN  Cardinality({s.data.signedTxBlob : s \in of("signed")})
              <= Cardinality(of("authorization"))
=============================================================================
