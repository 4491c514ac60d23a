--------------------------- MODULE EnclaveProofs ---------------------------
(***************************************************************************)
(* What the TEE extension returns, proved for any number of goroutines,    *)
(* actions, deliveries and restarts.                                       *)
(*                                                                         *)
(* The properties are about results; what makes them inductive is what a   *)
(* goroutine holds between two of its critical sections: terms that were   *)
(* approved, a cap that was acknowledged, an address that was bound, all   *)
(* in the present boot.                                                    *)
(***************************************************************************)
EXTENDS Enclave, TLAPS

USE EnclaveAssumption

\* A result answers the action it was built for: action ids are unique.
LEMMA AnswersAction ==
    ASSUME NEW a \in Action, NEW res, res.id = a.id
    PROVE  Answered(res) = a
<1>1. Answered(res) \in Action /\ Answered(res).id = res.id
  BY DEF Answered
<1> QED
  BY <1>1

-----------------------------------------------------------------------------
(* The inductive invariant *)

EnclaveTypes ==
    /\ treasuries \in [TreasuryId -> TreasuryRecord \cup {None}]
    /\ authorizations \in [RequestId -> Authorization \cup {None}]
    /\ calls = [g \in Goroutine |-> calls[g]]
    /\ delivered \in [Action -> Nat]
    /\ restarts \in Nat
    /\ generated \subseteq KeyAddress
    /\ \A res \in results : res.boot \in 0..restarts

\* The key of treasury t was announced in this boot.
Bound(t, address) ==
    \E k \in Returned("bind", restarts) : k.data.treasuryId = t /\ k.data.xrplAddress = address

\* Result k acknowledged a policy for treasury t.
Acknowledges(k, t) ==
    k.data.kind \in {"bind", "confirm"} /\ k.data.treasuryId = t /\ Answered(k) \in PolicyAction

TreasuriesBound ==
    \A t \in TreasuryId : treasuries[t] # None =>
       /\ treasuries[t].address \in generated
       /\ treasuries[t].policyCommitment = policyCommitment(treasuries[t].policy)
       /\ Bound(t, treasuries[t].address)
       /\ \E k \in results : k.boot = restarts /\ Acknowledges(k, t) /\ Answered(k).body = treasuries[t].policy

\* Result u approved these terms for request r.
Approves(u, r, auth) ==
    LET pi == Plaintext(Answered(u).body) IN
    /\ u.data.kind = "authorization"
    /\ u.data.requestId = r
    /\ u.data.memoRef = auth.memoRef
    /\ u.data.amountDrops = auth.amountDrops
    /\ u.data.destinationHash = Keccak(auth.destination)
    /\ pi.requestId = r
    /\ pi.treasuryId = auth.treasuryId
    /\ pi.tag = auth.tag

Approved(r, auth) ==
    /\ auth.treasuryId \in TreasuryId /\ treasuries[auth.treasuryId] # None
    /\ \E u \in results : u.boot = restarts /\ Approves(u, r, auth)

AuthorizationsApproved ==
    \A r \in RequestId : authorizations[r] # None => Approved(r, authorizations[r])

\* The approval and the binding a blob signed for header h rests on.
PaysAsApproved(blob, h, ref) ==
    /\ blob.memo = encodeMemo(ref)
    /\ \E u \in results :
          /\ u.boot = restarts
          /\ Approves(u, h.requestId,
                      [treasuryId |-> h.treasuryId, destination |-> blob.destination,
                       amountDrops |-> blob.amountDrops, tag |-> blob.tag, memoRef |-> ref])
    /\ Bound(h.treasuryId, blob.account)

\* What a goroutine in the middle of a handler relies on.
CallOK(g) ==
    LET c == calls[g]
        a == c.action
        h == a.header
        pi == Plaintext(a.body)
    IN
    /\ c # Idle => a \in Action /\ delivered[a] > 0
    /\ c.pc \in {"commitment", "decrypt", "caps"} =>
          a.command = "AUTHORIZE_PAYMENT" /\ treasuries[h.treasuryId] # None
    /\ c.pc = "caps" =>
          /\ c = [pc |-> "caps", action |-> a, caps |-> <<c.caps[1], c.caps[2]>>]
          /\ pi # Garbage /\ bindPayloadToHeader(pi, h)
          /\ pi.destination \in XrplAddress /\ pi.amountDrops <= MaxUint64
          /\ c.caps[1] # None =>
                \E k \in results : /\ k.boot = restarts /\ Acknowledges(k, h.treasuryId)
                                   /\ c.caps[1] = Answered(k).body.maxPerPaymentDrops
    /\ c.pc \in {"sequence", "ledger", "sign"} =>
          /\ a.command = "SIGN_XRPL_PAYMENT" /\ matches(c.auth, h)
          /\ Approved(h.requestId, c.auth)
    /\ c.pc = "consume" =>
          a.command = "SIGN_XRPL_PAYMENT" /\ PaysAsApproved(c.blob, h, h.memoRef)

CallsOK == \A g \in Goroutine : CallOK(g)

\* The treasury a key was announced for still has one.
BindsKept ==
    \A k \in Returned("bind", restarts) :
       k.data.treasuryId \in TreasuryId /\ treasuries[k.data.treasuryId] # None

EnclaveInv ==
    /\ EnclaveTypes
    /\ TreasuriesBound
    /\ AuthorizationsApproved
    /\ CallsOK
    /\ BindsKept
    /\ SignedAsAuthorized
    /\ WithinOnePolicy
    /\ OneKeyPerBoot

LEMMA InitEnclave == Init => EnclaveInv
<1> SUFFICES ASSUME Init PROVE EnclaveInv
    OBVIOUS
<1>1. EnclaveTypes
  BY DEF Init, EnclaveTypes
<1>2. TreasuriesBound /\ AuthorizationsApproved
  BY DEF Init, TreasuriesBound, AuthorizationsApproved
<1>3. CallsOK
  BY DEF Init, CallsOK, CallOK, Idle
<1>4. BindsKept /\ SignedAsAuthorized /\ WithinOnePolicy /\ OneKeyPerBoot
  BY DEF Init, BindsKept, SignedAsAuthorized, WithinOnePolicy, OneKeyPerBoot, Returned
<1> QED
  BY <1>1, <1>2, <1>3, <1>4 DEF EnclaveInv

-----------------------------------------------------------------------------
(* The properties, result by result *)

SignedOK(s) ==
    LET blob == s.data.signedTxBlob IN
    /\ blob.memo = encodeMemo(s.data.memoRef)
    /\ \E u \in results :
          LET pi == Plaintext(Answered(u).body) IN
          /\ u.data.kind = "authorization" /\ u.boot = s.boot
          /\ u.data.requestId = s.data.requestId
          /\ u.data.memoRef = s.data.memoRef
          /\ u.data.amountDrops = blob.amountDrops
          /\ u.data.destinationHash = Keccak(blob.destination)
          /\ pi.requestId = s.data.requestId
          /\ pi.treasuryId = Answered(s).header.treasuryId
          /\ pi.tag = blob.tag
          /\ \E k \in results :
                /\ k.data.kind = "bind" /\ k.boot = s.boot
                /\ k.data.treasuryId = pi.treasuryId
                /\ k.data.xrplAddress = blob.account

AllowedOK(u) ==
    \E k \in results :
       LET p == Answered(k).body IN
       /\ k.data.kind \in {"bind", "confirm"} /\ k.boot = u.boot
       /\ k.data.treasuryId = Answered(u).header.treasuryId
       /\ u.data.amountDrops <= p.maxPerPaymentDrops
       /\ u.data.amountDrops <= p.maxTotalDrops

BootsCounted == restarts \in Nat /\ \A res \in results : res.boot \in 0..restarts

LEMMA ByResult ==
    BootsCounted =>
    /\ SignedAsAuthorized <=> \A s \in results : s.data.kind = "signed" => SignedOK(s)
    /\ WithinOnePolicy <=> \A u \in results : u.data.kind = "authorization" => AllowedOK(u)
<1> SUFFICES ASSUME BootsCounted
             PROVE  /\ SignedAsAuthorized <=> \A s \in results : s.data.kind = "signed" => SignedOK(s)
                    /\ WithinOnePolicy <=> \A u \in results : u.data.kind = "authorization" => AllowedOK(u)
    OBVIOUS
<1>1. ASSUME NEW s \in results
      PROVE  (\A b \in 0..restarts : s \in Returned("signed", b) => SignedOK(s))
             <=> (s.data.kind = "signed" => SignedOK(s))
  BY DEF BootsCounted, Returned
<1>2. ASSUME NEW u \in results
      PROVE  (\A b \in 0..restarts : u \in Returned("authorization", b) => AllowedOK(u))
             <=> (u.data.kind = "authorization" => AllowedOK(u))
  BY DEF BootsCounted, Returned
<1>3. SignedAsAuthorized <=> \A b \in 0..restarts : \A s \in Returned("signed", b) : SignedOK(s)
  <2>1. ASSUME NEW b \in 0..restarts, NEW s \in Returned("signed", b)
        PROVE  SignedOK(s) <=>
               LET blob == s.data.signedTxBlob IN
               /\ blob.memo = encodeMemo(s.data.memoRef)
               /\ \E u \in Returned("authorization", b) :
                     LET pi == Plaintext(Answered(u).body) IN
                     /\ u.data.requestId = s.data.requestId
                     /\ u.data.memoRef = s.data.memoRef
                     /\ u.data.amountDrops = blob.amountDrops
                     /\ u.data.destinationHash = Keccak(blob.destination)
                     /\ pi.requestId = s.data.requestId
                     /\ pi.treasuryId = Answered(s).header.treasuryId
                     /\ pi.tag = blob.tag
                     /\ \E k \in Returned("bind", b) :
                           /\ k.data.treasuryId = pi.treasuryId
                           /\ k.data.xrplAddress = blob.account
    BY DEF Returned, SignedOK
  <2> QED
    BY <2>1 DEF SignedAsAuthorized
<1>4. WithinOnePolicy <=> \A b \in 0..restarts : \A u \in Returned("authorization", b) : AllowedOK(u)
  BY DEF WithinOnePolicy, Returned, AllowedOK
<1>5. \A b \in 0..restarts : Returned("signed", b) \subseteq results /\ Returned("authorization", b) \subseteq results
  BY DEF Returned
<1> QED
  BY <1>1, <1>2, <1>3, <1>4, <1>5

LEMMA ByResultNext ==
    BootsCounted' =>
    /\ SignedAsAuthorized' <=> \A s \in results' : s.data.kind = "signed" => SignedOK(s)'
    /\ WithinOnePolicy' <=> \A u \in results' : u.data.kind = "authorization" => AllowedOK(u)'
<1>1. (BootsCounted =>
       /\ SignedAsAuthorized <=> \A s \in results : s.data.kind = "signed" => SignedOK(s)
       /\ WithinOnePolicy <=> \A u \in results : u.data.kind = "authorization" => AllowedOK(u))'
  BY ByResult, PTL
<1> QED
  BY <1>1

-----------------------------------------------------------------------------
(* What every step but a restart leaves alone *)

\* Nothing returned, generated or delivered is taken back and no treasury loses its key.
Progress ==
    /\ restarts' = restarts
    /\ results \subseteq results'
    /\ generated \subseteq generated'
    /\ \A a \in Action : delivered[a] > 0 => delivered'[a] > 0
    /\ \A t \in TreasuryId : treasuries[t] # None =>
          treasuries'[t] # None /\ treasuries'[t].address = treasuries[t].address

OtherCallsKept(g) == \A f \in Goroutine \ {g} : calls'[f] = calls[f]

LEMMA BoundKept ==
    ASSUME Progress, NEW t, NEW address, Bound(t, address)
    PROVE  Bound(t, address)'
BY DEF Progress, Bound, Returned

LEMMA ApprovedKept ==
    ASSUME Progress, NEW r, NEW auth, Approved(r, auth)
    PROVE  Approved(r, auth)'
BY DEF Progress, Approved

LEMMA PaysKept ==
    ASSUME Progress, NEW blob, NEW h, NEW ref, PaysAsApproved(blob, h, ref)
    PROVE  PaysAsApproved(blob, h, ref)'
BY BoundKept DEF Progress, PaysAsApproved

LEMMA CallKept ==
    ASSUME EnclaveInv, Progress, NEW f \in Goroutine, calls'[f] = calls[f]
    PROVE  CallOK(f)'
<1> DEFINE c == calls[f]
           h == c.action.header
<1>1. CallOK(f)
  BY DEF EnclaveInv, CallsOK
<1>2. c # Idle => delivered'[c.action] > 0
  BY <1>1 DEF CallOK, Progress
<1>3. ASSUME c.pc \in {"commitment", "decrypt", "caps"} PROVE treasuries'[h.treasuryId] # None
  BY <1>1, <1>3 DEF CallOK, Progress, Idle
<1>4. ASSUME c.pc = "caps", c.caps[1] # None
      PROVE  \E k \in results' : /\ k.boot = restarts' /\ Acknowledges(k, h.treasuryId)
                                 /\ c.caps[1] = Answered(k).body.maxPerPaymentDrops
  BY <1>1, <1>4 DEF CallOK, Progress
<1>5. ASSUME c.pc \in {"sequence", "ledger", "sign"} PROVE Approved(h.requestId, c.auth)'
  <2>1. Approved(h.requestId, c.auth)
    BY <1>1, <1>5 DEF CallOK
  <2>2. PICK r, auth : r = h.requestId /\ auth = c.auth
    OBVIOUS
  <2>3. Approved(r, auth)'
    BY <2>1, <2>2, ApprovedKept
  <2> QED
    BY <2>2, <2>3 DEF Approved
<1>6. ASSUME c.pc = "consume" PROVE PaysAsApproved(c.blob, h, h.memoRef)'
  <2>1. PaysAsApproved(c.blob, h, h.memoRef)
    BY <1>1, <1>6 DEF CallOK
  <2>2. PICK blob, hdr : blob = c.blob /\ hdr = h
    OBVIOUS
  <2>3. PaysAsApproved(blob, hdr, hdr.memoRef)'
    BY <2>1, <2>2, PaysKept
  <2> QED
    BY <2>2, <2>3
<1> QED
  BY <1>1, <1>2, <1>3, <1>4, <1>5, <1>6 DEF CallOK

LEMMA CallsKept ==
    ASSUME EnclaveInv, Progress, NEW g \in Goroutine, OtherCallsKept(g), CallOK(g)'
    PROVE  CallsOK'
<1>1. \A f \in Goroutine \ {g} : CallOK(f)'
  BY CallKept DEF OtherCallsKept
<1> QED
  BY <1>1 DEF CallsOK

LEMMA IdleOK ==
    ASSUME NEW g \in Goroutine, calls'[g] = Idle
    PROVE  CallOK(g)'
BY DEF CallOK, Idle

LEMMA TreasuriesKept ==
    ASSUME EnclaveInv, Progress, UNCHANGED treasuries
    PROVE  TreasuriesBound'
<1> SUFFICES ASSUME NEW t \in TreasuryId, treasuries[t] # None
             PROVE  /\ treasuries[t].address \in generated'
                    /\ treasuries[t].policyCommitment = policyCommitment(treasuries[t].policy)
                    /\ Bound(t, treasuries[t].address)'
                    /\ \E k \in results' : /\ k.boot = restarts' /\ Acknowledges(k, t)
                                           /\ Answered(k).body = treasuries[t].policy
    BY DEF TreasuriesBound
<1>1. PICK address : address = treasuries[t].address
  OBVIOUS
<1>2. Bound(t, address)'
  BY <1>1, BoundKept DEF EnclaveInv, TreasuriesBound
<1> QED
  BY <1>1, <1>2 DEF EnclaveInv, TreasuriesBound, Progress, Bound

\* No authorization is recorded; one may be consumed.
LEMMA AuthorizationsKept ==
    ASSUME EnclaveInv, Progress,
           \A r \in RequestId : authorizations'[r] \in {authorizations[r], None}
    PROVE  AuthorizationsApproved'
<1> SUFFICES ASSUME NEW r \in RequestId, authorizations'[r] # None
             PROVE  Approved(r, authorizations[r])'
    BY DEF AuthorizationsApproved, Approved
<1>1. PICK auth : auth = authorizations[r]
  OBVIOUS
<1>2. Approved(r, auth)'
  BY <1>1, ApprovedKept DEF EnclaveInv, AuthorizationsApproved
<1> QED
  BY <1>1, <1>2 DEF Approved

LEMMA ResultAdded ==
    ASSUME EnclaveInv, Progress, EnclaveTypes', NEW res, results' = results \cup {res},
           res.data.kind = "signed" => SignedOK(res)',
           res.data.kind = "authorization" => AllowedOK(res)'
    PROVE  SignedAsAuthorized' /\ WithinOnePolicy'
<1>1. BootsCounted /\ BootsCounted'
  BY DEF EnclaveInv, EnclaveTypes, BootsCounted
<1>2. /\ \A s \in results : s.data.kind = "signed" => SignedOK(s)
      /\ \A u \in results : u.data.kind = "authorization" => AllowedOK(u)
  BY <1>1, ByResult DEF EnclaveInv
<1>3. ASSUME NEW s \in results, SignedOK(s) PROVE SignedOK(s)'
  BY <1>3 DEF SignedOK
<1>4. ASSUME NEW u \in results, AllowedOK(u) PROVE AllowedOK(u)'
  BY <1>4 DEF AllowedOK
<1> QED
  BY <1>1, <1>2, <1>3, <1>4, ByResultNext

LEMMA ResultsSame ==
    ASSUME EnclaveInv, EnclaveTypes', results' = results
    PROVE  SignedAsAuthorized' /\ WithinOnePolicy'
<1>1. BootsCounted /\ BootsCounted'
  BY DEF EnclaveInv, EnclaveTypes, BootsCounted
<1>2. \A s : (SignedOK(s) <=> SignedOK(s)') /\ (AllowedOK(s) <=> AllowedOK(s)')
  BY DEF SignedOK, AllowedOK
<1> QED
  BY <1>1, <1>2, ByResult, ByResultNext DEF EnclaveInv

\* No key is announced.
LEMMA KeysKept ==
    ASSUME EnclaveInv, Progress, \A k \in results' \ results : k.data.kind # "bind"
    PROVE  BindsKept' /\ OneKeyPerBoot'
<1>1. Returned("bind", restarts)' \subseteq Returned("bind", restarts)
  BY DEF Returned, Progress
<1>2. BindsKept'
  BY <1>1 DEF BindsKept, EnclaveInv, Progress
<1>3. OneKeyPerBoot'
  <2> SUFFICES ASSUME NEW k \in results', NEW m \in results',
                      k.data.kind = "bind", m.data.kind = "bind", k.boot = m.boot,
                      k.data.treasuryId = m.data.treasuryId
               PROVE  /\ k = m
                      /\ k.boot = restarts' => treasuries'[k.data.treasuryId].address = k.data.xrplAddress
      BY DEF OneKeyPerBoot
  <2>1. k \in results /\ m \in results
    OBVIOUS
  <2>2. /\ k = m
        /\ k.boot = restarts => treasuries[k.data.treasuryId].address = k.data.xrplAddress
    BY <2>1 DEF EnclaveInv, OneKeyPerBoot
  <2>3. k.boot = restarts => k.data.treasuryId \in TreasuryId /\ treasuries[k.data.treasuryId] # None
    BY <2>1 DEF EnclaveInv, BindsKept, Returned
  <2> QED
    BY <2>2, <2>3 DEF Progress
<1> QED
  BY <1>2, <1>3

-----------------------------------------------------------------------------
(* The steps *)

\* A step that only moves goroutine g on, or ends it with a refusal.
Quiet(g) ==
    /\ UNCHANGED <<treasuries, authorizations, generated, restarts>>
    /\ delivered' \in [Action -> Nat] /\ \A a \in Action : delivered[a] > 0 => delivered'[a] > 0
    /\ \/ results' = results
       \/ \E a \in Action : results' = results \cup {result(a, 0, NoData)}
    /\ \E c : calls' = [calls EXCEPT ![g] = c]

LEMMA QuietStep ==
    ASSUME EnclaveInv, NEW g \in Goroutine, Quiet(g), CallOK(g)'
    PROVE  EnclaveInv'
<1>1. Progress
  BY DEF Quiet, Progress
<1>2. OtherCallsKept(g) /\ calls' = [f \in Goroutine |-> calls'[f]]
  BY DEF Quiet, OtherCallsKept, EnclaveInv, EnclaveTypes
<1>3. \A k \in results' \ results : k.data.kind = "none" /\ k.boot = restarts
  BY DEF Quiet, result, NoData
<1>4. EnclaveTypes'
  BY <1>2, <1>3 DEF Quiet, EnclaveInv, EnclaveTypes
<1>5. TreasuriesBound' /\ AuthorizationsApproved' /\ CallsOK'
  BY <1>1, <1>2, TreasuriesKept, AuthorizationsKept, CallsKept DEF Quiet
<1>6. BindsKept' /\ OneKeyPerBoot'
  BY <1>1, <1>3, KeysKept
<1>7. SignedAsAuthorized' /\ WithinOnePolicy'
  <2>1. CASE results' = results
    BY <1>4, <2>1, ResultsSame
  <2>2. ASSUME NEW a \in Action, results' = results \cup {result(a, 0, NoData)}
        PROVE  SignedAsAuthorized' /\ WithinOnePolicy'
    <3> DEFINE res == result(a, 0, NoData)
    <3>1. res.data.kind = "none"
      BY DEF result, NoData
    <3> HIDE DEF res
    <3> QED
      BY <1>1, <1>4, <2>2, <3>1, ResultAdded DEF res
  <2> QED
    BY <2>1, <2>2 DEF Quiet
<1> QED
  BY <1>4, <1>5, <1>6, <1>7 DEF EnclaveInv

LEMMA RefuseStep ==
    ASSUME EnclaveInv, NEW g \in Goroutine, NEW a \in Action, refuse(g, a), UNCHANGED restarts,
           delivered' \in [Action -> Nat], \A b \in Action : delivered[b] > 0 => delivered'[b] > 0
    PROVE  EnclaveInv'
<1>1. Quiet(g)
  BY DEF refuse, reply, Quiet
<1>2. calls'[g] = Idle
  BY DEF refuse, reply, EnclaveInv, EnclaveTypes
<1> QED
  BY <1>1, <1>2, IdleOK, QuietStep

LEMMA GotoStep ==
    ASSUME EnclaveInv, NEW g \in Goroutine, NEW c, goto(g, c), UNCHANGED restarts,
           delivered' \in [Action -> Nat], \A b \in Action : delivered[b] > 0 => delivered'[b] > 0,
           calls'[g] = c => CallOK(g)'
    PROVE  EnclaveInv'
<1>1. Quiet(g)
  BY DEF goto, Quiet
<1>2. calls'[g] = c
  BY DEF goto, EnclaveInv, EnclaveTypes
<1> QED
  BY <1>1, <1>2, QuietStep

LEMMA Received ==
    ASSUME EnclaveInv, NEW g \in Goroutine, NEW a \in Action, NEW command, receive(g, a, command)
    PROVE  /\ a.command = command /\ UNCHANGED restarts
           /\ delivered' \in [Action -> Nat] /\ delivered'[a] > 0
           /\ \A b \in Action : delivered[b] > 0 => delivered'[b] > 0
BY DEF receive, EnclaveInv, EnclaveTypes

LEMMA Continued ==
    ASSUME EnclaveInv, NEW g \in Goroutine, NEW pc, pc # "idle", continue(g, pc)
    PROVE  /\ calls[g].pc = pc /\ calls[g].action \in Action /\ delivered[calls[g].action] > 0
           /\ UNCHANGED <<restarts, delivered>>
           /\ delivered' \in [Action -> Nat]
           /\ \A b \in Action : delivered[b] > 0 => delivered'[b] > 0
BY DEF continue, EnclaveInv, EnclaveTypes, CallsOK, CallOK, Idle

LEMMA handleAuthorizePaymentStep ==
    ASSUME EnclaveInv, NEW g \in Goroutine, NEW a \in Action, handleAuthorizePayment(g, a)
    PROVE  EnclaveInv'
<1>1. receive(g, a, "AUTHORIZE_PAYMENT")
  BY DEF handleAuthorizePayment
<1>2. CASE refuse(g, a)
  BY <1>1, <1>2, Received, RefuseStep
<1>3. CASE /\ treasuries[a.header.treasuryId] # None
           /\ goto(g, [pc |-> "commitment", action |-> a])
  <2>1. ASSUME calls'[g] = [pc |-> "commitment", action |-> a] PROVE CallOK(g)'
    <3>1. treasuries' = treasuries
      BY <1>3 DEF goto
    <3> QED
      BY <1>1, <1>3, <2>1, <3>1, Received DEF CallOK, Idle
  <2> QED
    BY <1>1, <1>3, <2>1, Received, GotoStep
<1> QED
  BY <1>2, <1>3 DEF handleAuthorizePayment

LEMMA compareCommitmentStep ==
    ASSUME EnclaveInv, NEW g \in Goroutine, compareCommitment(g)
    PROVE  EnclaveInv'
<1> DEFINE a == calls[g].action
<1>1. continue(g, "commitment") /\ CallOK(g)
  BY DEF compareCommitment, EnclaveInv, CallsOK
<1>2. CASE refuse(g, a)
  BY <1>1, <1>2, Continued, RefuseStep
<1>3. CASE goto(g, [pc |-> "decrypt", action |-> a])
  <2>1. ASSUME calls'[g] = [pc |-> "decrypt", action |-> a] PROVE CallOK(g)'
    <3>1. treasuries' = treasuries
      BY <1>3 DEF goto
    <3>2. a.command = "AUTHORIZE_PAYMENT" /\ treasuries[a.header.treasuryId] # None
      BY <1>1, Continued DEF CallOK
    <3> QED
      BY <1>1, <2>1, <3>1, <3>2, Continued DEF CallOK, Idle
  <2> HIDE DEF a
  <2> QED
    BY <1>1, <1>3, <2>1, Continued, GotoStep
<1> QED
  BY <1>2, <1>3 DEF compareCommitment

LEMMA decryptStep ==
    ASSUME EnclaveInv, NEW g \in Goroutine, decrypt(g)
    PROVE  EnclaveInv'
<1> DEFINE a == calls[g].action
           c == [pc |-> "caps", action |-> a, caps |-> <<None, None>>]
<1>1. continue(g, "decrypt") /\ CallOK(g)
  BY DEF decrypt, EnclaveInv, CallsOK
<1>2. CASE refuse(g, a)
  BY <1>1, <1>2, Continued, RefuseStep
<1>3. CASE /\ acceptable(Plaintext(a.body), a.header, treasuries[a.header.treasuryId].address)
           /\ goto(g, c)
  <2>1. ASSUME calls'[g] = c PROVE CallOK(g)'
    <3>1. treasuries' = treasuries
      BY <1>3 DEF goto
    <3>2. a.command = "AUTHORIZE_PAYMENT" /\ treasuries[a.header.treasuryId] # None
      BY <1>1, Continued DEF CallOK
    <3> QED
      BY <1>1, <1>3, <2>1, <3>1, <3>2, Continued DEF CallOK, Idle, acceptable
  <2> HIDE DEF c
  <2> QED
    BY <1>1, <1>3, <2>1, Continued, GotoStep
<1> QED
  BY <1>2, <1>3 DEF decrypt

\* The words of a policy are copied one by one; either comes from one that was acknowledged.
LEMMA copyPolicyStep ==
    ASSUME EnclaveInv, NEW g \in Goroutine, copyPolicy(g)
    PROVE  EnclaveInv'
<1> DEFINE a == calls[g].action
           t == a.header.treasuryId
           p == treasuries[t].policy
<1>1. continue(g, "caps") /\ CallOK(g)
  BY DEF copyPolicy, EnclaveInv, CallsOK
<1>2. /\ calls[g].pc = "caps" /\ a \in Action /\ delivered[a] > 0
      /\ a.command = "AUTHORIZE_PAYMENT" /\ t \in TreasuryId /\ treasuries[t] # None
      /\ calls[g] = [pc |-> "caps", action |-> a, caps |-> <<calls[g].caps[1], calls[g].caps[2]>>]
      /\ UNCHANGED <<restarts, delivered>>
  BY <1>1, Continued DEF CallOK
<1>3. PICK i \in 1..2 : goto(g, [calls[g] EXCEPT !.caps[i] = IF i = 1 THEN p.maxPerPaymentDrops
                                                                     ELSE p.maxTotalDrops])
  BY DEF copyPolicy
<1>4. PICK k \in results : k.boot = restarts /\ Acknowledges(k, t) /\ Answered(k).body = p
  BY <1>2 DEF EnclaveInv, TreasuriesBound
<1>5. PICK c1, c2 : /\ [calls[g] EXCEPT !.caps[i] = IF i = 1 THEN p.maxPerPaymentDrops
                                                           ELSE p.maxTotalDrops]
                         = [pc |-> "caps", action |-> a, caps |-> <<c1, c2>>]
                    /\ c1 \in {p.maxPerPaymentDrops, calls[g].caps[1]}
  <2> DEFINE v == IF i = 1 THEN p.maxPerPaymentDrops ELSE p.maxTotalDrops
             d1 == calls[g].caps[1]
             d2 == calls[g].caps[2]
             old == <<d1, d2>>
             new == [old EXCEPT ![i] = v]
  <2>1. calls[g] = [pc |-> "caps", action |-> a, caps |-> old]
    BY <1>2
  <2>2. new = IF i = 1 THEN <<v, d2>> ELSE <<d1, v>>
    <3> HIDE DEF v, d1, d2
    <3>1. CASE i = 1
      BY <3>1
    <3>2. CASE i = 2
      BY <3>2
    <3> QED
      BY <3>1, <3>2
  <2>3. calls[g].caps = old
    <3> HIDE DEF old
    <3> QED
      BY <2>1
  <2>4. [calls[g] EXCEPT !.caps[i] = v] = [calls[g] EXCEPT !.caps = [calls[g].caps EXCEPT ![i] = v]]
    OBVIOUS
  <2>5. [calls[g] EXCEPT !.caps = new] = [pc |-> "caps", action |-> a, caps |-> new]
    <3> HIDE DEF old, new
    <3> QED
      BY <2>1
  <2>6. [calls[g] EXCEPT !.caps[i] = v] = [pc |-> "caps", action |-> a, caps |-> new]
    BY <2>3, <2>4, <2>5
  <2> QED
    BY <2>2, <2>6, ZenonT(60)
<1> DEFINE c == [pc |-> "caps", action |-> a, caps |-> <<c1, c2>>]
<1>6. ASSUME calls'[g] = c PROVE CallOK(g)'
  <2>1. treasuries' = treasuries /\ results' = results
    BY <1>3 DEF goto
  <2>2. /\ Plaintext(a.body) # Garbage /\ bindPayloadToHeader(Plaintext(a.body), a.header)
        /\ Plaintext(a.body).destination \in XrplAddress /\ Plaintext(a.body).amountDrops <= MaxUint64
        /\ calls[g].caps[1] # None =>
              \E j \in results : /\ j.boot = restarts /\ Acknowledges(j, t)
                                 /\ calls[g].caps[1] = Answered(j).body.maxPerPaymentDrops
    BY <1>1, <1>2 DEF CallOK
  <2>3. c1 # None => \E j \in results : /\ j.boot = restarts /\ Acknowledges(j, t)
                                        /\ c1 = Answered(j).body.maxPerPaymentDrops
    BY <1>4, <1>5, <2>2
  <2>4. /\ calls'[g].action = a /\ calls'[g].caps[1] = c1 /\ calls'[g].caps[2] = c2
        /\ calls'[g].pc = "caps"
    BY <1>6
  <2> QED
    BY <1>2, <1>6, <2>1, <2>2, <2>3, <2>4 DEF CallOK, Idle
<1>7. goto(g, c)
  BY <1>3, <1>5
<1> HIDE DEF c
<1> QED
  BY <1>1, <1>6, <1>7, Continued, GotoStep

LEMMA handleSignPaymentStep ==
    ASSUME EnclaveInv, NEW g \in Goroutine, NEW a \in Action, handleSignPayment(g, a)
    PROVE  EnclaveInv'
<1> DEFINE r == a.header.requestId
           auth == authorizations[r]
           c == [pc |-> "sequence", action |-> a, auth |-> auth]
<1>1. receive(g, a, "SIGN_XRPL_PAYMENT")
  BY DEF handleSignPayment
<1>2. CASE refuse(g, a)
  BY <1>1, <1>2, Received, RefuseStep
<1>3. CASE auth # None /\ matches(auth, a.header) /\ goto(g, c)
  <2>1. r \in RequestId
    BY <1>1, Received DEF PaymentAction
  <2>2. Approved(r, auth)
    BY <1>3, <2>1 DEF EnclaveInv, AuthorizationsApproved
  <2>3. treasuries' = treasuries /\ results' = results /\ restarts' = restarts
    BY <1>1, <1>3, Received DEF goto
  <2>4. ASSUME calls'[g] = c PROVE CallOK(g)'
    <3>1. calls'[g].pc = "sequence" /\ calls'[g].action = a /\ calls'[g].auth = auth
      BY <2>4
    <3>2. Approved(calls[g].action.header.requestId, calls[g].auth)'
      BY <2>2, <2>3, <3>1 DEF Approved
    <3> QED
      BY <1>1, <1>3, <3>1, <3>2, Received DEF CallOK, Idle
  <2> HIDE DEF c
  <2> QED
    BY <1>1, <1>3, <2>4, Received, GotoStep
<1> QED
  BY <1>2, <1>3 DEF handleSignPayment

\* The two reads of XRPL keep the terms the handler took under the lock.
LEMMA XrplReadStep ==
    ASSUME EnclaveInv, NEW g \in Goroutine, readSequence(g) \/ readLedger(g)
    PROVE  EnclaveInv'
<1> DEFINE a == calls[g].action
           auth == calls[g].auth
<1>1. PICK pc \in {"sequence", "ledger"} : continue(g, pc)
  BY DEF readSequence, readLedger
<1>2. CallOK(g)
  BY DEF EnclaveInv, CallsOK
<1>3. CASE refuse(g, a)
  BY <1>1, <1>3, Continued, RefuseStep
<1>4. ASSUME NEW c, goto(g, c), c.pc \in {"ledger", "sign"}, c.action = a, c.auth = auth
      PROVE  EnclaveInv'
  <2>1. treasuries' = treasuries /\ results' = results /\ UNCHANGED <<restarts, delivered>>
    BY <1>1, <1>4, Continued DEF goto
  <2>2. ASSUME calls'[g] = c PROVE CallOK(g)'
    <3>1. /\ a.command = "SIGN_XRPL_PAYMENT" /\ matches(auth, a.header)
          /\ Approved(a.header.requestId, auth)
      BY <1>1, <1>2, Continued DEF CallOK
    <3>2. Approved(calls[g].action.header.requestId, calls[g].auth)'
      BY <1>4, <2>1, <2>2, <3>1 DEF Approved
    <3> QED
      BY <1>1, <1>4, <2>1, <2>2, <3>1, <3>2, Continued DEF CallOK, Idle
  <2> QED
    BY <1>1, <1>4, <2>2, Continued, GotoStep
<1> QED
  BY <1>3, <1>4 DEF readSequence, readLedger

LEMMA signStep ==
    ASSUME EnclaveInv, NEW g \in Goroutine, sign(g)
    PROVE  EnclaveInv'
<1> DEFINE a == calls[g].action
           h == a.header
           auth == calls[g].auth
           blob == signedBlob(calls[g])
           c == [pc |-> "consume", action |-> a, blob |-> blob]
<1>1. continue(g, "sign") /\ CallOK(g)
  BY DEF sign, EnclaveInv, CallsOK
<1>2. CASE refuse(g, a)
  BY <1>1, <1>2, Continued, RefuseStep
<1>3. CASE goto(g, c)
  <2>1. treasuries' = treasuries /\ results' = results /\ UNCHANGED <<restarts, delivered>>
    BY <1>1, <1>3, Continued DEF goto
  <2>2. /\ a.command = "SIGN_XRPL_PAYMENT" /\ matches(auth, h) /\ Approved(h.requestId, auth)
    BY <1>1, Continued DEF CallOK
  <2>3. /\ blob.memo = encodeMemo(h.memoRef) /\ blob.destination = auth.destination
        /\ blob.amountDrops = auth.amountDrops /\ blob.tag = auth.tag
        /\ blob.account = treasuries[h.treasuryId].address
    BY <2>2 DEF signedBlob, matches
  <2>4. PICK u \in results : u.boot = restarts /\ Approves(u, h.requestId, auth)
    BY <2>2 DEF Approved
  <2>5. Approves(u, h.requestId,
                 [treasuryId |-> h.treasuryId, destination |-> blob.destination,
                  amountDrops |-> blob.amountDrops, tag |-> blob.tag, memoRef |-> h.memoRef])
    <3> HIDE DEF blob
    <3> QED
      BY <2>2, <2>3, <2>4 DEF Approves, matches
  <2>6. Bound(h.treasuryId, blob.account)
    BY <2>2, <2>3 DEF EnclaveInv, TreasuriesBound, Approved, matches
  <2>7. PaysAsApproved(blob, h, h.memoRef)
    BY <2>3, <2>4, <2>5, <2>6 DEF PaysAsApproved
  <2>8. ASSUME calls'[g] = c PROVE CallOK(g)'
    <3> HIDE DEF blob
    <3>1. calls'[g].pc = "consume" /\ calls'[g].action = a /\ calls'[g].blob = blob
      BY <2>8
    <3>2. PaysAsApproved(calls[g].blob, calls[g].action.header, calls[g].action.header.memoRef)'
      BY <2>1, <2>7, <3>1 DEF PaysAsApproved, Bound, Returned
    <3> QED
      BY <1>1, <2>1, <2>2, <3>1, <3>2, Continued DEF CallOK, Idle
  <2> HIDE DEF c
  <2> QED
    BY <1>1, <1>3, <2>8, Continued, GotoStep
<1> QED
  BY <1>2, <1>3 DEF sign

\* A handler that returns a result other than a refusal.
LEMMA ReplyFrame ==
    ASSUME EnclaveInv, NEW g \in Goroutine, NEW res, reply(g, res), res.boot = restarts,
           UNCHANGED restarts
    PROVE  /\ results' = results \cup {res}
           /\ calls' = [f \in Goroutine |-> calls'[f]] /\ OtherCallsKept(g) /\ CallOK(g)'
           /\ \A k \in results' : k.boot \in 0..restarts
<1>1. results' = results \cup {res} /\ calls' = [calls EXCEPT ![g] = Idle]
  BY DEF reply
<1>2. calls' = [f \in Goroutine |-> calls'[f]] /\ OtherCallsKept(g) /\ calls'[g] = Idle
  BY <1>1 DEF EnclaveInv, EnclaveTypes, OtherCallsKept
<1>3. CallOK(g)'
  BY <1>2, IdleOK
<1> QED
  BY <1>1, <1>2, <1>3 DEF EnclaveInv, EnclaveTypes

LEMMA authorizeStep ==
    ASSUME EnclaveInv, NEW g \in Goroutine, authorize(g)
    PROVE  EnclaveInv'
<1> DEFINE a == calls[g].action
           h == a.header
           pi == Plaintext(a.body)
           caps == calls[g].caps
           auth == [treasuryId |-> h.treasuryId, destination |-> pi.destination,
                    amountDrops |-> pi.amountDrops, tag |-> pi.tag,
                    memoRef |-> h.memoRef, expiresAt |-> h.expiresAt]
           answer == result(a, 1, [kind |-> "authorization", deployment |-> h.deployment,
                                   requestId |-> h.requestId, memoRef |-> h.memoRef,
                                   amountDrops |-> pi.amountDrops,
                                   destinationHash |-> Keccak(pi.destination),
                                   payloadHash |-> Keccak(a.body)])
<1>1. continue(g, "caps") /\ CallOK(g)
  BY DEF authorize, EnclaveInv, CallsOK
<1>2. CASE refuse(g, a)
  BY <1>1, <1>2, Continued, RefuseStep
<1>3. CASE /\ caps[1] # None /\ checkPolicy(caps[1], caps[2], pi.amountDrops)
           /\ authorizations' = [authorizations EXCEPT ![h.requestId] = auth]
           /\ reply(g, answer)
           /\ UNCHANGED <<treasuries, generated>>
  <2>1. /\ a \in Action /\ a.command = "AUTHORIZE_PAYMENT" /\ UNCHANGED <<restarts, delivered>>
        /\ h.treasuryId \in TreasuryId /\ h.requestId \in RequestId
        /\ treasuries[h.treasuryId] # None
        /\ pi # Garbage /\ bindPayloadToHeader(pi, h)
        /\ pi.destination \in XrplAddress /\ pi.amountDrops <= MaxUint64
    BY <1>1, Continued DEF CallOK, PaymentAction
  <2>2. PICK res :
        /\ reply(g, res) /\ res.boot = restarts /\ res.id = a.id
        /\ res.data.kind = "authorization" /\ res.data.requestId = h.requestId
        /\ res.data.memoRef = h.memoRef /\ res.data.amountDrops = pi.amountDrops
        /\ res.data.destinationHash = Keccak(pi.destination)
    <3>1. PICK d : d = [kind |-> "authorization", deployment |-> h.deployment,
                        requestId |-> h.requestId, memoRef |-> h.memoRef,
                        amountDrops |-> pi.amountDrops, destinationHash |-> Keccak(pi.destination),
                        payloadHash |-> Keccak(a.body)]
      OBVIOUS
    <3>2. PICK res : res = result(a, 1, d)
      OBVIOUS
    <3>3. reply(g, res)
      BY <1>3, <3>1, <3>2
    <3>4. /\ d.kind = "authorization" /\ d.requestId = h.requestId /\ d.memoRef = h.memoRef
          /\ d.amountDrops = pi.amountDrops /\ d.destinationHash = Keccak(pi.destination)
      BY <3>1
    <3>5. res.boot = restarts /\ res.id = a.id /\ res.data = d
      BY <3>2 DEF result
    <3> QED
      BY <3>3, <3>4, <3>5
  <2>3. Answered(res) = a
    BY <2>1, <2>2, AnswersAction
  <2> HIDE DEF answer
  <2>4. /\ results' = results \cup {res}
        /\ calls' = [f \in Goroutine |-> calls'[f]] /\ OtherCallsKept(g) /\ CallOK(g)'
        /\ \A k \in results' : k.boot \in 0..restarts
    BY <1>3, <2>1, <2>2, ReplyFrame
  <2>5. Progress
    BY <1>3, <2>1, <2>4 DEF Progress
  <2>6. auth \in Authorization
    <3>1. a \in Sealed /\ pi.amountDrops \in Int /\ pi.amountDrops > 0
      BY <1>3, <2>1 DEF Sealed, checkPolicy
    <3>2. pi.amountDrops \in 1..MaxUint64
      BY <2>1, <3>1
    <3>3. pi.tag \in {Plaintext(b.body).tag : b \in Sealed}
      BY <3>1
    <3> QED
      BY <2>1, <3>2, <3>3 DEF Authorization
  <2>7. Approves(res, h.requestId, auth)
    BY <2>1, <2>2, <2>3 DEF Approves, bindPayloadToHeader
  <2> HIDE DEF auth
  <2>8. EnclaveTypes'
    BY <1>3, <2>1, <2>4, <2>6 DEF EnclaveInv, EnclaveTypes
  <2>9. AuthorizationsApproved'
    <3> SUFFICES ASSUME NEW r \in RequestId, authorizations'[r] # None
                 PROVE  Approved(r, authorizations[r])'
        BY DEF AuthorizationsApproved
    <3>1. CASE r = h.requestId
      <4>1. authorizations'[r] = auth /\ auth.treasuryId = h.treasuryId
        BY <1>3, <2>1, <3>1 DEF EnclaveInv, EnclaveTypes, auth
      <4> QED
        BY <1>3, <2>1, <2>2, <2>4, <2>7, <3>1, <4>1 DEF Approved
    <3>2. CASE r # h.requestId
      <4>1. PICK x : x = authorizations[r]
        OBVIOUS
      <4>2. authorizations'[r] = x /\ Approved(r, x)
        BY <1>3, <3>2, <4>1 DEF EnclaveInv, EnclaveTypes, AuthorizationsApproved
      <4>3. Approved(r, x)'
        BY <2>5, <4>2, ApprovedKept
      <4> QED
        BY <4>2, <4>3 DEF Approved
    <3> QED
      BY <3>1, <3>2
  <2>10. TreasuriesBound' /\ CallsOK'
    BY <1>3, <2>4, <2>5, TreasuriesKept, CallsKept
  <2>11. BindsKept' /\ OneKeyPerBoot'
    BY <2>2, <2>4, <2>5, KeysKept
  <2>12. AllowedOK(res)'
    <3>1. PICK k \in results : /\ k.boot = restarts /\ Acknowledges(k, h.treasuryId)
                               /\ caps[1] = Answered(k).body.maxPerPaymentDrops
      BY <1>1, <1>3, Continued DEF CallOK
    <3>2. pi.amountDrops <= Answered(k).body.maxPerPaymentDrops
      BY <1>3, <3>1 DEF checkPolicy
    <3>3. /\ Answered(k).body.maxPerPaymentDrops \in Nat /\ Answered(k).body.maxTotalDrops \in Nat
          /\ Answered(k).body.maxPerPaymentDrops <= Answered(k).body.maxTotalDrops
      BY <3>1 DEF Acknowledges
    <3>4. pi.amountDrops \in Int
      BY <2>1 DEF Sealed
    <3>5. pi.amountDrops <= Answered(k).body.maxTotalDrops
      BY <3>2, <3>3, <3>4
    <3> QED
      BY <2>2, <2>3, <2>4, <3>1, <3>2, <3>5 DEF AllowedOK, Acknowledges
  <2>13. SignedAsAuthorized' /\ WithinOnePolicy'
    BY <2>2, <2>4, <2>5, <2>8, <2>12, ResultAdded
  <2> QED
    BY <2>8, <2>9, <2>10, <2>11, <2>13 DEF EnclaveInv
<1> QED
  BY <1>2, <1>3 DEF authorize

LEMMA consumeStep ==
    ASSUME EnclaveInv, NEW g \in Goroutine, consume(g)
    PROVE  EnclaveInv'
<1> DEFINE a == calls[g].action
           h == a.header
           blob == calls[g].blob
           answer == result(a, 1, [kind |-> "signed", deployment |-> h.deployment,
                                   requestId |-> h.requestId, memoRef |-> h.memoRef,
                                   expectedTxId |-> transactionId(blob), signedTxBlob |-> blob])
<1>1. /\ continue(g, "consume") /\ CallOK(g) /\ reply(g, answer)
      /\ authorizations' = [authorizations EXCEPT ![h.requestId] = None]
      /\ UNCHANGED <<treasuries, generated>>
  BY DEF consume, EnclaveInv, CallsOK
<1>2. /\ a \in Action /\ a.command = "SIGN_XRPL_PAYMENT" /\ UNCHANGED <<restarts, delivered>>
      /\ PaysAsApproved(blob, h, h.memoRef)
  BY <1>1, Continued DEF CallOK
<1>3. PICK res :
      /\ reply(g, res) /\ res.boot = restarts /\ res.id = a.id
      /\ res.data.kind = "signed" /\ res.data.requestId = h.requestId
      /\ res.data.memoRef = h.memoRef /\ res.data.signedTxBlob = blob
  BY <1>1 DEF result
<1>4. Answered(res) = a
  BY <1>2, <1>3, AnswersAction
<1> HIDE DEF answer
<1>5. /\ results' = results \cup {res}
      /\ calls' = [f \in Goroutine |-> calls'[f]] /\ OtherCallsKept(g) /\ CallOK(g)'
      /\ \A k \in results' : k.boot \in 0..restarts
  BY <1>1, <1>2, <1>3, ReplyFrame
<1>6. Progress
  BY <1>1, <1>2, <1>5 DEF Progress
<1>7. \A r \in RequestId : authorizations'[r] \in {authorizations[r], None}
  BY <1>1 DEF EnclaveInv, EnclaveTypes
<1>8. EnclaveTypes'
  BY <1>1, <1>2, <1>5 DEF EnclaveInv, EnclaveTypes
<1>9. TreasuriesBound' /\ CallsOK' /\ AuthorizationsApproved'
  BY <1>1, <1>5, <1>6, <1>7, TreasuriesKept, CallsKept, AuthorizationsKept
<1>10. BindsKept' /\ OneKeyPerBoot'
  BY <1>3, <1>5, <1>6, KeysKept
<1>11. SignedOK(res)'
  <2>1. PICK u \in results :
           /\ u.boot = restarts
           /\ Approves(u, h.requestId,
                       [treasuryId |-> h.treasuryId, destination |-> blob.destination,
                        amountDrops |-> blob.amountDrops, tag |-> blob.tag, memoRef |-> h.memoRef])
    BY <1>2 DEF PaysAsApproved
  <2>2. PICK k \in results : /\ k.data.kind = "bind" /\ k.boot = restarts
                             /\ k.data.treasuryId = h.treasuryId /\ k.data.xrplAddress = blob.account
    BY <1>2 DEF PaysAsApproved, Bound, Returned
  <2>3. blob.memo = encodeMemo(h.memoRef)
    BY <1>2 DEF PaysAsApproved
  <2> QED
    BY <1>3, <1>4, <1>5, <2>1, <2>2, <2>3 DEF SignedOK, Approves
<1>12. SignedAsAuthorized' /\ WithinOnePolicy'
  BY <1>3, <1>5, <1>6, <1>8, <1>11, ResultAdded
<1> QED
  BY <1>8, <1>9, <1>10, <1>12 DEF EnclaveInv

\* The treasury had no key, so no result of this boot has announced one.
LEMMA handleCreateTreasuryKeyStep ==
    ASSUME EnclaveInv, NEW g \in Goroutine, NEW a \in Action, handleCreateTreasuryKey(g, a)
    PROVE  EnclaveInv'
<1> DEFINE t == a.header.treasuryId
           entry(address) == [address |-> address, policy |-> a.body,
                              policyCommitment |-> a.header.policyCommitment]
           answer(address) == result(a, 1, [kind |-> "bind", deployment |-> a.header.deployment,
                                            treasuryId |-> t, xrplAddress |-> address,
                                            policyCommitment |-> a.header.policyCommitment])
<1>1. receive(g, a, "CREATE_TREASURY_KEY")
  BY DEF handleCreateTreasuryKey
<1>2. CASE refuse(g, a)
  BY <1>1, <1>2, Received, RefuseStep
<1>3. ASSUME NEW address \in KeyAddress \ generated, mayCreateKey(a),
             generated' = generated \cup {address},
             treasuries' = [treasuries EXCEPT ![t] = entry(address)],
             reply(g, answer(address)), UNCHANGED authorizations
      PROVE  EnclaveInv'
  <2>1. /\ a \in PolicyAction /\ t \in TreasuryId /\ treasuries[t] = None
        /\ a.header.policyCommitment = policyCommitment(a.body)
        /\ UNCHANGED restarts /\ delivered' \in [Action -> Nat]
        /\ \A b \in Action : delivered[b] > 0 => delivered'[b] > 0
    BY <1>1, <1>3, Received DEF mayCreateKey, validateHeaderCommitment, PolicyAction
  <2>2. PICK res :
        /\ reply(g, res) /\ res.boot = restarts /\ res.id = a.id
        /\ res.data.kind = "bind" /\ res.data.treasuryId = t /\ res.data.xrplAddress = address
    BY <1>3 DEF result
  <2>3. Answered(res) = a
    BY <2>2, AnswersAction
  <2>4. PICK new : /\ new = entry(address) /\ new \in TreasuryRecord /\ new # None
                   /\ new.address = address /\ new.policy = a.body
                   /\ new.policyCommitment = policyCommitment(a.body)
    <3>1. entry(address) \in TreasuryRecord
      BY <2>1 DEF TreasuryRecord
    <3> QED
      BY <2>1, <3>1
  <2> HIDE DEF entry, answer
  <2>5. /\ treasuries'[t] = new /\ \A u \in TreasuryId \ {t} : treasuries'[u] = treasuries[u]
        /\ treasuries' \in [TreasuryId -> TreasuryRecord \cup {None}]
    BY <1>3, <2>1, <2>4 DEF EnclaveInv, EnclaveTypes
  <2>6. /\ results' = results \cup {res}
        /\ calls' = [f \in Goroutine |-> calls'[f]] /\ OtherCallsKept(g) /\ CallOK(g)'
        /\ \A k \in results' : k.boot \in 0..restarts
    BY <2>1, <2>2, ReplyFrame
  <2>7. Progress
    BY <1>3, <2>1, <2>5, <2>6 DEF Progress
  <2>8. EnclaveTypes'
    BY <1>3, <2>1, <2>5, <2>6 DEF EnclaveInv, EnclaveTypes
  <2>9. TreasuriesBound'
    <3> SUFFICES ASSUME NEW u \in TreasuryId, treasuries'[u] # None
                 PROVE  /\ treasuries'[u].address \in generated'
                        /\ treasuries'[u].policyCommitment = policyCommitment(treasuries'[u].policy)
                        /\ Bound(u, treasuries[u].address)'
                        /\ \E k \in results' : /\ k.boot = restarts' /\ Acknowledges(k, u)
                                               /\ Answered(k).body = treasuries'[u].policy
        BY DEF TreasuriesBound
    <3>1. CASE u = t
      <4>1. Acknowledges(res, u)
        BY <2>1, <2>2, <2>3, <3>1 DEF Acknowledges
      <4>2. res \in Returned("bind", restarts)'
        BY <2>1, <2>2, <2>6 DEF Returned
      <4>3. Bound(u, treasuries[u].address)'
        BY <2>2, <2>4, <2>5, <3>1, <4>2 DEF Bound
      <4> QED
        BY <1>3, <2>1, <2>2, <2>3, <2>4, <2>5, <2>6, <3>1, <4>1, <4>3
    <3>2. CASE u # t
      <4>1. PICK x : x = treasuries[u] /\ treasuries'[u] = x
        BY <2>5, <3>2
      <4>2. PICK y : y = x.address
        OBVIOUS
      <4>3. Bound(u, y)'
        BY <2>7, <4>1, <4>2, BoundKept DEF EnclaveInv, TreasuriesBound
      <4> QED
        BY <2>7, <4>1, <4>2, <4>3 DEF EnclaveInv, TreasuriesBound, Progress, Bound
    <3> QED
      BY <3>1, <3>2
  <2>10. AuthorizationsApproved' /\ CallsOK'
    BY <1>3, <2>6, <2>7, AuthorizationsKept, CallsKept
  <2>11. \A k \in Returned("bind", restarts) : k.data.treasuryId \in TreasuryId \ {t}
    BY <2>1 DEF EnclaveInv, BindsKept
  <2>12. BindsKept'
    <3>1. Returned("bind", restarts)' \subseteq Returned("bind", restarts) \cup {res}
      BY <2>1, <2>6 DEF Returned
    <3> QED
      BY <2>1, <2>2, <2>4, <2>5, <2>11, <3>1 DEF BindsKept, EnclaveInv
  <2>13. OneKeyPerBoot'
    <3> SUFFICES ASSUME NEW k \in results', NEW m \in results',
                        k.data.kind = "bind", m.data.kind = "bind", k.boot = m.boot,
                        k.data.treasuryId = m.data.treasuryId
                 PROVE  /\ k = m
                        /\ k.boot = restarts' => treasuries'[k.data.treasuryId].address = k.data.xrplAddress
        BY DEF OneKeyPerBoot
    <3>1. \A x \in results : x.data.kind = "bind" /\ x.boot = restarts =>
             x.data.treasuryId \in TreasuryId \ {t}
      BY <2>11 DEF Returned
    <3>2. CASE k = res \/ m = res
      BY <2>1, <2>2, <2>4, <2>5, <2>6, <3>1, <3>2
    <3>3. CASE k # res /\ m # res
      <4>1. k \in results /\ m \in results
        BY <2>6, <3>3
      <4>2. /\ k = m
            /\ k.boot = restarts => treasuries[k.data.treasuryId].address = k.data.xrplAddress
        BY <4>1 DEF EnclaveInv, OneKeyPerBoot
      <4> QED
        BY <2>1, <2>5, <3>1, <4>1, <4>2
    <3> QED
      BY <3>2, <3>3
  <2>14. SignedAsAuthorized' /\ WithinOnePolicy'
    BY <2>2, <2>6, <2>7, <2>8, ResultAdded
  <2> QED
    BY <2>8, <2>9, <2>10, <2>12, <2>13, <2>14 DEF EnclaveInv
<1> QED
  BY <1>2, <1>3 DEF handleCreateTreasuryKey

LEMMA handleRegisterPolicyStep ==
    ASSUME EnclaveInv, NEW g \in Goroutine, NEW a \in Action, handleRegisterPolicy(g, a)
    PROVE  EnclaveInv'
<1> DEFINE t == a.header.treasuryId
           answer == result(a, 1, [kind |-> "confirm", deployment |-> a.header.deployment,
                                   treasuryId |-> t, policy |-> a.body,
                                   commitment |-> a.header.policyCommitment])
<1>1. receive(g, a, "REGISTER_POLICY")
  BY DEF handleRegisterPolicy
<1>2. CASE refuse(g, a)
  BY <1>1, <1>2, Received, RefuseStep
<1>3. CASE /\ validateHeaderCommitment(a) /\ treasuries[t] # None
           /\ replacePolicy(t, a.body, a.header.policyCommitment)
           /\ reply(g, answer)
           /\ UNCHANGED <<authorizations, generated>>
  <2>1. /\ a \in PolicyAction /\ t \in TreasuryId /\ treasuries[t] # None
        /\ a.header.policyCommitment = policyCommitment(a.body)
        /\ UNCHANGED restarts /\ delivered' \in [Action -> Nat]
        /\ \A b \in Action : delivered[b] > 0 => delivered'[b] > 0
    BY <1>1, <1>3, Received DEF validateHeaderCommitment, PolicyAction
  <2>2. PICK res :
        /\ reply(g, res) /\ res.boot = restarts /\ res.id = a.id
        /\ res.data.kind = "confirm" /\ res.data.treasuryId = t
    BY <1>3 DEF result
  <2>3. Answered(res) = a
    BY <2>2, AnswersAction
  <2>4. treasuries[t] \in TreasuryRecord
    BY <2>1 DEF EnclaveInv, EnclaveTypes
  <2>5. PICK new : /\ treasuries' = [treasuries EXCEPT ![t] = new]
                   /\ new \in TreasuryRecord /\ new # None
                   /\ new.address = treasuries[t].address /\ new.policy = a.body
                   /\ new.policyCommitment = policyCommitment(a.body)
    <3> DEFINE n == [treasuries[t] EXCEPT !.policy = a.body,
                                          !.policyCommitment = a.header.policyCommitment]
    <3>1. n \in TreasuryRecord /\ n.address = treasuries[t].address /\ n.policy = a.body
          /\ n.policyCommitment = policyCommitment(a.body)
      BY <2>1, <2>4 DEF TreasuryRecord
    <3>2. treasuries' = [treasuries EXCEPT ![t] = n]
      BY <1>3, <2>1 DEF replacePolicy, EnclaveInv, EnclaveTypes
    <3> HIDE DEF n
    <3> QED
      BY <3>1, <3>2
  <2> HIDE DEF answer
  <2>6. /\ treasuries'[t] = new /\ \A u \in TreasuryId \ {t} : treasuries'[u] = treasuries[u]
        /\ treasuries' \in [TreasuryId -> TreasuryRecord \cup {None}]
    BY <2>1, <2>5 DEF EnclaveInv, EnclaveTypes
  <2>7. /\ results' = results \cup {res}
        /\ calls' = [f \in Goroutine |-> calls'[f]] /\ OtherCallsKept(g) /\ CallOK(g)'
        /\ \A k \in results' : k.boot \in 0..restarts
    BY <2>1, <2>2, ReplyFrame
  <2>8. Progress
    BY <1>3, <2>1, <2>5, <2>6, <2>7 DEF Progress
  <2>9. EnclaveTypes'
    BY <1>3, <2>1, <2>6, <2>7 DEF EnclaveInv, EnclaveTypes
  <2>10. TreasuriesBound'
    <3> SUFFICES ASSUME NEW u \in TreasuryId, treasuries'[u] # None
                 PROVE  /\ treasuries'[u].address \in generated'
                        /\ treasuries'[u].policyCommitment = policyCommitment(treasuries'[u].policy)
                        /\ Bound(u, treasuries[u].address)'
                        /\ \E k \in results' : /\ k.boot = restarts' /\ Acknowledges(k, u)
                                               /\ Answered(k).body = treasuries'[u].policy
        BY DEF TreasuriesBound
    <3>1. PICK y : y = treasuries[u].address
      OBVIOUS
    <3>2. treasuries[u] # None /\ treasuries'[u].address = y
      BY <2>1, <2>5, <2>6, <3>1
    <3>3. y \in generated' /\ Bound(u, y)'
      BY <2>8, <3>1, <3>2, BoundKept DEF EnclaveInv, TreasuriesBound, Progress
    <3>4. Bound(u, treasuries[u].address)'
      BY <3>2, <3>3 DEF Bound
    <3>5. CASE u = t
      <4>1. Acknowledges(res, u)
        BY <2>1, <2>2, <2>3, <3>5 DEF Acknowledges
      <4> QED
        BY <2>1, <2>2, <2>3, <2>5, <2>6, <2>7, <3>2, <3>3, <3>4, <3>5, <4>1
    <3>6. CASE u # t
      BY <2>6, <2>8, <3>2, <3>3, <3>4, <3>6 DEF EnclaveInv, TreasuriesBound, Progress
    <3> QED
      BY <3>5, <3>6
  <2>11. AuthorizationsApproved' /\ CallsOK'
    BY <1>3, <2>7, <2>8, AuthorizationsKept, CallsKept
  <2>12. BindsKept' /\ OneKeyPerBoot'
    BY <2>2, <2>7, <2>8, KeysKept
  <2>13. SignedAsAuthorized' /\ WithinOnePolicy'
    BY <2>2, <2>7, <2>8, <2>9, ResultAdded
  <2> QED
    BY <2>9, <2>10, <2>11, <2>12, <2>13 DEF EnclaveInv
<1> QED
  BY <1>2, <1>3 DEF handleRegisterPolicy

\* The memory is empty and nothing has been returned in the new boot.
LEMMA RestartStep ==
    ASSUME EnclaveInv, Restart
    PROVE  EnclaveInv'
<1>1. /\ restarts \in Nat /\ restarts' = restarts + 1 /\ results' = results
      /\ \A t \in TreasuryId : treasuries'[t] = None
      /\ \A r \in RequestId : authorizations'[r] = None
      /\ \A g \in Goroutine : calls'[g] = Idle
      /\ \A res \in results : res.boot \in 0..restarts
  BY DEF Restart, EnclaveInv, EnclaveTypes
<1>2. EnclaveTypes'
  BY <1>1 DEF Restart, EnclaveInv, EnclaveTypes
<1>3. TreasuriesBound' /\ AuthorizationsApproved'
  BY <1>1 DEF TreasuriesBound, AuthorizationsApproved
<1>4. CallsOK'
  BY <1>1, IdleOK DEF CallsOK
<1>5. \A res \in results' : res.boot # restarts'
  BY <1>1
<1>6. BindsKept'
  BY <1>5 DEF BindsKept, Returned
<1>7. OneKeyPerBoot'
  BY <1>1, <1>5 DEF EnclaveInv, OneKeyPerBoot
<1>8. SignedAsAuthorized' /\ WithinOnePolicy'
  BY <1>1, <1>2, ResultsSame
<1> QED
  BY <1>2, <1>3, <1>4, <1>6, <1>7, <1>8 DEF EnclaveInv

LEMMA OutsideStep ==
    ASSUME EnclaveInv, UNCHANGED <<enclaveVars, delivered, restarts>>
    PROVE  EnclaveInv'
<1>1. /\ UNCHANGED <<treasuries, authorizations, calls, results, generated, delivered, restarts>>
      /\ Progress
  BY DEF enclaveVars, Progress
<1>2. EnclaveTypes'
  BY <1>1 DEF EnclaveInv, EnclaveTypes
<1>3. TreasuriesBound' /\ AuthorizationsApproved'
  BY <1>1, TreasuriesKept, AuthorizationsKept
<1>4. CallsOK'
  BY <1>1, CallKept DEF CallsOK
<1>5. BindsKept' /\ OneKeyPerBoot'
  BY <1>1, KeysKept
<1>6. SignedAsAuthorized' /\ WithinOnePolicy'
  BY <1>1, <1>2, ResultsSame
<1> QED
  BY <1>2, <1>3, <1>4, <1>5, <1>6 DEF EnclaveInv

LEMMA NextEnclave == EnclaveInv /\ [Next]_vars => EnclaveInv'
<1> SUFFICES ASSUME EnclaveInv, [Next]_vars PROVE EnclaveInv'
    OBVIOUS
<1>1. CASE XrplStep \/ UNCHANGED vars
  BY <1>1, OutsideStep DEF XrplStep, vars
<1>2. CASE Restart
  BY <1>2, RestartStep
<1>3. ASSUME NEW g \in Goroutine, NEW a \in Action,
             \/ handleCreateTreasuryKey(g, a) \/ handleRegisterPolicy(g, a)
             \/ handleAuthorizePayment(g, a) \/ handleSignPayment(g, a)
      PROVE  EnclaveInv'
  BY <1>3, handleCreateTreasuryKeyStep, handleRegisterPolicyStep, handleAuthorizePaymentStep,
     handleSignPaymentStep
<1>4. ASSUME NEW g \in Goroutine,
             \/ compareCommitment(g) \/ decrypt(g) \/ copyPolicy(g) \/ authorize(g)
             \/ readSequence(g) \/ readLedger(g) \/ sign(g) \/ consume(g)
      PROVE  EnclaveInv'
  BY <1>4, compareCommitmentStep, decryptStep, copyPolicyStep, authorizeStep, XrplReadStep,
     signStep, consumeStep
<1> QED
  BY <1>1, <1>2, <1>3, <1>4 DEF Next

-----------------------------------------------------------------------------
(* The theorems *)

(***************************************************************************)
(* The maps of the extension hold complete records, and a goroutine in the *)
(* middle of a handler holds an action that was delivered.                 *)
(***************************************************************************)
THEOREM EnclaveTypesHold == Spec => []TypeOK
<1>1. EnclaveInv => TypeOK
  BY DEF EnclaveInv, EnclaveTypes, TreasuriesBound, CallsOK, CallOK, TypeOK
<1> QED
  BY <1>1, InitEnclave, NextEnclave, PTL DEF Spec

(***************************************************************************)
(* handleSignPayment signs nothing but what handleAuthorizePayment has     *)
(* approved: amount, destination, tag, memo and paying account are those   *)
(* of one authorization and one binding of the same boot, for any number   *)
(* of goroutines and any actions.                                          *)
(***************************************************************************)
THEOREM SignedIsAuthorized == Spec => []SignedAsAuthorized
<1>1. EnclaveInv => SignedAsAuthorized
  BY DEF EnclaveInv
<1> QED
  BY <1>1, InitEnclave, NextEnclave, PTL DEF Spec

(***************************************************************************)
(* checkPolicy copies the policy without the lock and may see parts of two *)
(* of them: an approved amount is still within both caps of one policy     *)
(* acknowledged for its treasury, because the per-payment cap of a valid   *)
(* policy is at most its cumulative cap.                                   *)
(***************************************************************************)
THEOREM ApprovedIsWithinOnePolicy == Spec => []WithinOnePolicy
<1>1. EnclaveInv => WithinOnePolicy
  BY DEF EnclaveInv
<1> QED
  BY <1>1, InitEnclave, NextEnclave, PTL DEF Spec

(***************************************************************************)
(* handleCreateTreasuryKey binds one address to a treasury in a boot, and  *)
(* keeps its key, however often the instruction is delivered.              *)
(***************************************************************************)
THEOREM OneKeyIsBound == Spec => []OneKeyPerBoot
<1>1. EnclaveInv => OneKeyPerBoot
  BY DEF EnclaveInv
<1> QED
  BY <1>1, InitEnclave, NextEnclave, PTL DEF Spec
=============================================================================
