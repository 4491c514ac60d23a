--------------------- MODULE BridgeSafeControllerProofs ---------------------
(***************************************************************************)
(* Proofs about BridgeSafeController for every value of its constants: the *)
(* types, ids and nonces of its storage, its budgets and its policies, for *)
(* any number of accounts, treasuries and requests and for any results an  *)
(* enclave may sign.                                                       *)
(***************************************************************************)
EXTENDS BridgeSafeController, WellFoundedInduction, TLAPS

StorageInv == TypeOK /\ IdsAndNonces

USE ConstantsAssumption

\* A hash built by one of the contract's expressions is in the set of its kind.
LEMMA HashTypes ==
    /\ \A p \in Policy : policyCommitment(p) \in Commitment
    /\ \A t \in TreasuryId, r \in RequestId, n \in 1..MaxRequests : memoRef(t, r, n) \in MemoRef
    /\ \A a \in XrplAddress : Keccak(a) \in AddressHash
    /\ \A c \in Ciphertext : Keccak(c) \in PayloadHash
    /\ \A b \in Blob : Keccak(b) \in BlobHash
BY DEF Commitment, MemoRef, AddressHash, PayloadHash, BlobHash

\* Distinct inputs have distinct hashes.
LEMMA KeccakInjective == \A x, y : Keccak(x) = Keccak(y) => x = y
<1> TAKE x, y
<1>1. Keccak(x).keccak256 = x /\ Keccak(y).keccak256 = y
  BY DEF Keccak
<1> QED
  BY <1>1

\* The constructor establishes the storage invariant.
LEMMA InitStorage == Init => StorageInv
<1> SUFFICES ASSUME Init PROVE StorageInv
    OBVIOUS
<1>1. BlankTreasury \in TreasuryRecord
  BY DEF BlankTreasury, TreasuryRecord
<1>2. BlankRequest \in RequestRecord
  BY DEF BlankRequest, RequestRecord, RequestState
<1>3. paused \in BOOLEAN
  BY Zenon DEF Init
<1>a. senders \in Seq(Deployment) /\ instructions \in Seq(Instruction)
  BY DEF Init
<1>5. TypeOK
  BY <1>1, <1>2, <1>3, <1>a DEF Init, TypeOK, Time
<1>4. IdsAndNonces
  BY DEF Init, IdsAndNonces, BlankTreasury, BlankRequest, TreasuryId, RequestId
<1> QED
  BY <1>5, <1>4 DEF StorageInv

\* An instruction built by the contract has the type of an instruction.
LEMMA SendType ==
    ASSUME NEW command \in Command, NEW h \in Header,
           NEW body \in Policy \cup Ciphertext \cup {NoBody},
           instructions \in Seq(Instruction), send(command, h, body)
    PROVE  instructions' \in Seq(Instruction)
BY DEF send, Instruction

LEMMA createTreasuryStorage ==
    ASSUME StorageInv, NEW s \in Account, NEW p \in Policy, createTreasury(s, p)
    PROVE  StorageInv'
<1> USE DEF StorageInv
<1> DEFINE t == treasuryCount + 1
           h == header(t, 0, 0, 0, NoHash, policyCommitment(p))
<1>1. t \in TreasuryId /\ treasuries[t] \in TreasuryRecord
  BY SMTT(60) DEF createTreasury, TypeOK, TreasuryId
<1>2. h \in Header
  BY <1>1, HashTypes DEF header, Header
<1>3. instructions' \in Seq(Instruction)
  BY <1>2, SendType DEF createTreasury, TypeOK, Command, PolicyCommand
<1>4. treasuries' \in [TreasuryId -> TreasuryRecord]
  BY <1>1, HashTypes DEF createTreasury, TypeOK, TreasuryRecord
<1>5. TypeOK'
  BY <1>1, <1>3, <1>4, SMTT(60) DEF createTreasury, TypeOK, adminVars, requestVars, TreasuryId
<1>6. IdsAndNonces'
  <2>0. treasuries'[t].exists /\ treasuries'[t].nextNonce = 1
    BY <1>1 DEF createTreasury, TypeOK, TreasuryRecord
  <2>2. \A u \in 1..treasuryCount : u # t
    BY DEF TypeOK
  <2>3. \A u \in TreasuryId \ {t} : treasuries'[u] = treasuries[u]
    BY DEF createTreasury, TypeOK
  <2>4. \A u \in TreasuryId :
          /\ treasuries'[u].exists <=> u <= treasuryCount'
          /\ treasuries'[u].exists => treasuries'[u].nextNonce \in 1..(requestCount' + 1)
    BY <1>1, <2>0, <2>3, SMTT(60) DEF createTreasury, TypeOK, IdsAndNonces, requestVars, TreasuryId
  <2> QED
    BY <2>4, <2>2, <2>3, SMTT(60)
       DEF createTreasury, TypeOK, IdsAndNonces, requestVars, TreasuryId, RequestId
<1> QED
  BY <1>5, <1>6

\* What a step that opens neither a treasury nor a request leaves alone.
IdsKept ==
    /\ treasuryCount' = treasuryCount
    /\ requestCount' = requestCount
    /\ \A t \in TreasuryId :
          /\ treasuries'[t].exists <=> treasuries[t].exists
          /\ treasuries'[t].nextNonce = treasuries[t].nextNonce
    /\ \A r \in RequestId :
          /\ requests'[r].treasuryId = requests[r].treasuryId
          /\ requests'[r].nonce = requests[r].nonce
          /\ requests'[r].memoRef = requests[r].memoRef
          /\ requests'[r].state = "NONE" <=> requests[r].state = "NONE"

LEMMA IdsFrame == StorageInv /\ TypeOK' /\ IdsKept => StorageInv'
<1> SUFFICES ASSUME StorageInv, TypeOK', IdsKept PROVE IdsAndNonces'
    BY DEF StorageInv
<1>1. \A t \in TreasuryId :
         /\ treasuries'[t].exists <=> t <= treasuryCount'
         /\ treasuries'[t].exists => treasuries'[t].nextNonce \in 1..(requestCount' + 1)
  BY DEF StorageInv, IdsAndNonces, IdsKept
<1>2. \A r \in RequestId : requests[r].state # "NONE" => requests[r].treasuryId \in TreasuryId
  BY DEF StorageInv, IdsAndNonces, TypeOK, TreasuryId
<1>3. \A s \in 1..requestCount : s \in RequestId
  BY DEF StorageInv, TypeOK, RequestId
<1>4. ASSUME NEW r \in RequestId, requests'[r].state # "NONE"
      PROVE  LET t == requests'[r].treasuryId IN
             /\ t \in 1..treasuryCount'
             /\ requests'[r].nonce \in 1..(treasuries'[t].nextNonce - 1)
             /\ requests'[r].memoRef = memoRef(t, r, requests'[r].nonce)
  BY <1>2, <1>4 DEF StorageInv, IdsAndNonces, IdsKept
<1>5. ASSUME NEW r \in RequestId, requests'[r].state # "NONE", NEW s \in (r + 1)..requestCount',
             requests'[s].treasuryId = requests'[r].treasuryId
      PROVE  requests'[r].nonce < requests'[s].nonce
  <2>1. s \in RequestId /\ s \in (r + 1)..requestCount
    BY <1>3, <1>5 DEF IdsKept, RequestId
  <2> QED
    BY <1>5, <2>1 DEF StorageInv, IdsAndNonces, IdsKept
<1>6. \A r \in RequestId : requests'[r].state # "NONE" <=> r <= requestCount'
  BY DEF StorageInv, IdsAndNonces, IdsKept
<1> QED
  BY <1>1, <1>4, <1>5, <1>6 DEF IdsAndNonces

LEMMA administrationStorage ==
    ASSUME StorageInv, Administration
    PROVE  StorageInv'
<1> USE DEF StorageInv
<1>1. TypeOK'
  <2>1. CASE \E d \in Deployment : registerExtension(d)
    BY <2>1 DEF registerExtension, TypeOK, treasuryVars, requestVars
  <2>2. CASE setExtensionId
    BY <2>2 DEF setExtensionId, TypeOK, treasuryVars, requestVars
  <2>3. ASSUME NEW s \in Account, NEW tee \in Enclave, setTeeAddress(s, tee) PROVE TypeOK'
    BY <2>3 DEF setTeeAddress, TypeOK, treasuryVars, requestVars
  <2>4. ASSUME NEW s \in Account, NEW v \in Verifier, setFdcVerifier(s, v) PROVE TypeOK'
    BY <2>4 DEF setFdcVerifier, TypeOK, treasuryVars, requestVars
  <2>5. ASSUME NEW s \in Account, NEW a \in Account, transferOwnership(s, a) PROVE TypeOK'
    BY <2>5 DEF transferOwnership, TypeOK, treasuryVars, requestVars
  <2>6. ASSUME NEW s \in Account, NEW b \in PauseInput, setPaused(s, b) PROVE TypeOK'
    BY <2>6 DEF setPaused, TypeOK, treasuryVars, requestVars
  <2> QED
    BY <2>1, <2>2, <2>3, <2>4, <2>5, <2>6 DEF Administration
<1>2. UNCHANGED <<treasuryVars, requestVars>>
  BY DEF Administration, registerExtension, setExtensionId, setTeeAddress, setFdcVerifier,
         transferOwnership, setPaused
<1>3. IdsKept
  BY <1>2 DEF IdsKept, treasuryVars, requestVars
<1> QED
  BY <1>1, <1>3, IdsFrame

LEMMA bindTreasuryAddressStorage ==
    ASSUME StorageInv, NEW res \in ResultOf(BindData), bindTreasuryAddress(res)
    PROVE  StorageInv'
<1> USE DEF StorageInv
<1> DEFINE t == res.data.treasuryId
<1>1. t \in TreasuryId /\ res.data.xrplAddress \in XrplAddress
  BY DEF ResultOf, BindData, bindTreasuryAddress
<1>2. treasuries' \in [TreasuryId -> TreasuryRecord]
  <2>1. treasuries[t] \in TreasuryRecord
    BY <1>1 DEF TypeOK
  <2>2. [treasuries[t] EXCEPT !.xrplAddressHash = Keccak(res.data.xrplAddress),
                              !.bound = TRUE] \in TreasuryRecord
    BY <1>1, <2>1, HashTypes DEF TreasuryRecord
  <2> QED
    BY <1>1, <2>2 DEF bindTreasuryAddress, TypeOK
<1>3. TypeOK'
  BY <1>2 DEF bindTreasuryAddress, TypeOK, adminVars, requestVars
<1>4. IdsKept
  BY <1>1, SMTT(60) DEF bindTreasuryAddress, TypeOK, TreasuryRecord, IdsKept, requestVars
<1> QED
  BY <1>3, <1>4, IdsFrame

LEMMA requestPolicyUpdateStorage ==
    ASSUME StorageInv, NEW s \in Account, NEW t \in TreasuryId, NEW p \in Policy,
           requestPolicyUpdate(s, t, p)
    PROVE  StorageInv'
<1> USE DEF StorageInv
<1>1. header(t, 0, 0, 0, NoHash, policyCommitment(p)) \in Header
  BY HashTypes DEF header, Header
<1>2. instructions' \in Seq(Instruction)
  BY <1>1, SendType DEF requestPolicyUpdate, TypeOK, Command, PolicyCommand
<1>3. treasuries' \in [TreasuryId -> TreasuryRecord]
  <2>1. treasuries[t] \in TreasuryRecord
    BY DEF TypeOK
  <2>2. [treasuries[t] EXCEPT !.pendingPolicyCommitment = policyCommitment(p)] \in TreasuryRecord
    BY <2>1, HashTypes DEF TreasuryRecord
  <2> QED
    BY <2>2 DEF requestPolicyUpdate, TypeOK
<1>4. TypeOK'
  BY <1>2, <1>3 DEF requestPolicyUpdate, TypeOK, adminVars, requestVars
<1>5. IdsKept
  BY SMTT(60) DEF requestPolicyUpdate, TypeOK, TreasuryRecord, IdsKept, requestVars
<1> QED
  BY <1>4, <1>5, IdsFrame

LEMMA confirmPolicyStorage ==
    ASSUME StorageInv, NEW res \in ResultOf(ConfirmData), confirmPolicy(res)
    PROVE  StorageInv'
<1> USE DEF StorageInv
<1>1. res.data.treasuryId \in TreasuryId /\ res.data.policy \in Policy
      /\ res.data.commitment \in Commitment
  BY DEF ResultOf, ConfirmData
<1>2. treasuries' \in [TreasuryId -> TreasuryRecord]
  <2>1. treasuries[res.data.treasuryId] \in TreasuryRecord
    BY <1>1 DEF TypeOK
  <2>2. [treasuries[res.data.treasuryId] EXCEPT
            !.pendingPolicyCommitment = NoHash,
            !.policy = res.data.policy,
            !.policyCommitment = res.data.commitment] \in TreasuryRecord
    BY <1>1, <2>1 DEF TreasuryRecord
  <2> QED
    BY <1>1, <2>2 DEF confirmPolicy, adoptPolicy, TypeOK
<1>3. TypeOK'
  BY <1>2 DEF confirmPolicy, adoptPolicy, TypeOK, adminVars, requestVars
<1>4. IdsKept
  BY <1>1, SMTT(60) DEF confirmPolicy, adoptPolicy, TypeOK, TreasuryRecord, IdsKept, requestVars
<1> QED
  BY <1>3, <1>4, IdsFrame

LEMMA setTreasuryPausedStorage ==
    ASSUME StorageInv, NEW s \in Account, NEW t \in TreasuryId, NEW b \in PauseInput,
           setTreasuryPaused(s, t, b)
    PROVE  StorageInv'
<1> USE DEF StorageInv
<1>0. treasuries[t] \in TreasuryRecord
  BY DEF TypeOK
<1>1. treasuries' \in [TreasuryId -> TreasuryRecord]
  <2>1. [treasuries[t] EXCEPT !.paused = b] \in TreasuryRecord
    BY <1>0 DEF TreasuryRecord
  <2> QED
    BY <2>1 DEF setTreasuryPaused, TypeOK
<1>2. TypeOK'
  BY <1>1 DEF setTreasuryPaused, TypeOK, adminVars, requestVars
<1>3. IdsKept
  BY SMTT(60) DEF setTreasuryPaused, TypeOK, TreasuryRecord, IdsKept, requestVars
<1> QED
  BY <1>2, <1>3, IdsFrame

LEMMA OpenedType ==
    ASSUME NEW q \in RequestRecord, NEW t \in TreasuryId, NEW nonce \in Nat,
           NEW expiresAt \in Nat, NEW hash \in PayloadHash, NEW ref \in MemoRef
    PROVE  [q EXCEPT !.treasuryId = t, !.nonce = nonce, !.expiresAt = expiresAt,
                     !.payloadHash = hash, !.memoRef = ref, !.state = "CREATED"] \in RequestRecord
BY DEF RequestRecord, RequestState

LEMMA createPaymentRequestStorage ==
    ASSUME StorageInv, NEW s \in Account, NEW t \in TreasuryId, NEW c \in Ciphertext,
           createPaymentRequest(s, t, c)
    PROVE  StorageInv'
<1> USE DEF StorageInv
<1> DEFINE r == requestCount + 1
           nonce == treasuries[t].nextNonce
           expiresAt == now + treasuries[t].policy.requestTtlSeconds
           ref == memoRef(t, r, nonce)
           opened == [requests[r] EXCEPT !.treasuryId = t, !.nonce = nonce,
                         !.expiresAt = expiresAt, !.payloadHash = Keccak(c),
                         !.memoRef = ref, !.state = "CREATED"]
<1>1. /\ r \in RequestId /\ requests[r] \in RequestRecord
      /\ treasuries[t] \in TreasuryRecord /\ treasuries[t].exists /\ t <= treasuryCount
      /\ nonce \in 1..MaxRequests /\ nonce <= r /\ requestCount \in Nat
  BY SMTT(60) DEF createPaymentRequest, knownTreasury, TypeOK, IdsAndNonces, RequestId, TreasuryId
<1>2. expiresAt \in Nat
  <2>1. treasuries[t].policy \in PolicyType
    BY <1>1 DEF TreasuryRecord, ZeroPolicy, PolicyType
  <2> QED
    BY <2>1 DEF TypeOK, PolicyType, Time
<1>3. ref \in MemoRef /\ Keccak(c) \in PayloadHash
  BY <1>1, HashTypes
<1>4. treasuries[t].policyCommitment \in Commitment \cup {NoHash}
  BY <1>1 DEF TreasuryRecord
<1>5. header(t, r, nonce, expiresAt, ref, treasuries[t].policyCommitment) \in Header
  BY <1>1, <1>2, <1>3, <1>4 DEF header, Header, RequestId
<1>6. instructions' \in Seq(Instruction)
  BY <1>5, SendType DEF createPaymentRequest, TypeOK, Command
<1>7. requests' = [requests EXCEPT ![r] = opened] /\ opened \in RequestRecord
  <2>0. requests[r] \in RequestRecord /\ nonce \in Nat
    BY <1>1
  <2> HIDE DEF StorageInv, nonce, expiresAt, ref, r
  <2>1. opened \in RequestRecord
    BY <1>2, <1>3, <2>0, OpenedType
  <2> USE DEF StorageInv, nonce, expiresAt, ref, r
  <2> QED
    BY <1>1, <2>1 DEF createPaymentRequest, TypeOK
<1>8. [treasuries[t] EXCEPT !.nextNonce = nonce + 1] \in TreasuryRecord
  BY <1>1 DEF TreasuryRecord
<1>9. /\ treasuries' = [treasuries EXCEPT ![t].nextNonce = nonce + 1]
      /\ treasuries' \in [TreasuryId -> TreasuryRecord]
      /\ treasuryCount' = treasuryCount /\ requestCount' = r
  BY <1>8 DEF createPaymentRequest, TypeOK
<1>10. TypeOK'
  BY <1>1, <1>6, <1>7, <1>9, SMTT(60) DEF createPaymentRequest, TypeOK, adminVars, RequestId
<1>11. IdsAndNonces'
  <2>1. /\ requests'[r] = opened
        /\ opened.treasuryId = t /\ opened.nonce = nonce /\ opened.memoRef = ref
        /\ opened.state = "CREATED"
    BY <1>1, <1>7 DEF TypeOK, RequestRecord
  <2>2. \A q \in RequestId \ {r} : requests'[q] = requests[q]
    BY <1>7 DEF TypeOK
  <2>3. /\ \A u \in TreasuryId \ {t} : treasuries'[u] = treasuries[u]
        /\ treasuries'[t].nextNonce = nonce + 1
        /\ treasuries'[t].exists
    BY <1>1, <1>9 DEF TypeOK, TreasuryRecord
  <2>4. \A u \in TreasuryId :
          /\ treasuries'[u].exists <=> u <= treasuryCount'
          /\ treasuries'[u].exists => treasuries'[u].nextNonce \in 1..(requestCount' + 1)
    <3>1. ASSUME NEW u \in TreasuryId, u # t
          PROVE  /\ treasuries'[u].exists <=> u <= treasuryCount'
                 /\ treasuries'[u].exists => treasuries'[u].nextNonce \in 1..(requestCount' + 1)
      BY <1>1, <1>9, <2>3, <3>1 DEF IdsAndNonces
    <3>2. /\ treasuries'[t].exists <=> t <= treasuryCount'
          /\ treasuries'[t].exists => treasuries'[t].nextNonce \in 1..(requestCount' + 1)
      BY <1>1, <1>9, <2>3
    <3> QED
      BY <3>1, <3>2
  <2>5. \A q \in RequestId : requests'[q].state # "NONE" <=> q <= requestCount'
    <3>1. ASSUME NEW q \in RequestId, q # r
          PROVE  requests'[q].state # "NONE" <=> q <= r
      BY <1>1, <2>2, <3>1 DEF IdsAndNonces, RequestId
    <3>2. requests'[r].state # "NONE" /\ r <= requestCount'
      BY <1>1, <1>9, <2>1
    <3>3. requestCount' = r
      BY <1>9
    <3> QED
      BY <3>1, <3>2, <3>3
  <2>6. \A q \in 1..requestCount :
          /\ q \in RequestId \ {r}
          /\ requests[q].state # "NONE"
          /\ requests[q].treasuryId \in TreasuryId
    BY <1>1 DEF IdsAndNonces, TypeOK, RequestId, TreasuryId
  <2>7. ASSUME NEW q \in 1..requestCount, NEW u, u = requests[q].treasuryId
        PROVE  /\ requests'[q] = requests[q]
               /\ u \in 1..treasuryCount'
               /\ requests'[q].nonce \in 1..(treasuries'[u].nextNonce - 1)
               /\ requests'[q].memoRef = memoRef(u, q, requests'[q].nonce)
    BY <1>1, <1>9, <2>2, <2>3, <2>6, <2>7 DEF IdsAndNonces
  <2>8. ASSUME NEW q \in 1..requestCount, NEW p \in (q + 1)..requestCount',
               requests'[p].treasuryId = requests'[q].treasuryId
        PROVE  requests'[q].nonce < requests'[p].nonce
    <3>1. requests'[q] = requests[q] /\ q \in RequestId /\ requests[q].state # "NONE"
      BY <2>2, <2>6
    <3>2. CASE p = r
      BY <3>1, <3>2, <2>1, <2>8, <1>1 DEF IdsAndNonces
    <3>3. CASE p # r
      <4>1. p \in 1..requestCount /\ p \in (q + 1)..requestCount
        BY <3>3, <1>1, <1>9
      <4> QED
        BY <4>1, <3>1, <2>2, <2>6, <2>8 DEF IdsAndNonces
    <3> QED
      BY <3>2, <3>3
  <2>9. /\ requests'[r].treasuryId \in 1..treasuryCount'
        /\ requests'[r].nonce \in 1..(treasuries'[requests'[r].treasuryId].nextNonce - 1)
        /\ requests'[r].memoRef = memoRef(requests'[r].treasuryId, r, requests'[r].nonce)
        /\ \A p \in (r + 1)..requestCount' : FALSE
    BY <1>1, <1>9, <2>1, <2>3, SMTT(60) DEF TypeOK, TreasuryId
  <2>10. \A q \in RequestId : requests'[q].state # "NONE" => q = r \/ q \in 1..requestCount
    BY <2>5, <1>1, <1>9 DEF RequestId
  <2> QED
    BY <2>4, <2>5, <2>7, <2>8, <2>9, <2>10 DEF IdsAndNonces
<1> QED
  BY <1>10, <1>11

\* A release keeps the types and changes nothing of a treasury but reservedDrops.
LEMMA releaseType ==
    ASSUME StorageInv, NEW r \in RequestId, requests[r].state # "NONE", release(r)
    PROVE  /\ treasuries' \in [TreasuryId -> TreasuryRecord]
           /\ \A t \in TreasuryId :
                 /\ treasuries'[t].exists <=> treasuries[t].exists
                 /\ treasuries'[t].nextNonce = treasuries[t].nextNonce
<1> DEFINE t == requests[r].treasuryId
           new == [treasuries[t] EXCEPT !.reservedDrops = @ - requests[r].amountDrops]
<1>1. t \in TreasuryId /\ requests[r].amountDrops \in Nat
  BY DEF StorageInv, IdsAndNonces, TypeOK, RequestRecord, TreasuryId
<1>2. treasuries[t] \in TreasuryRecord
  BY <1>1 DEF StorageInv, TypeOK
<1>3. new \in TreasuryRecord /\ new.nextNonce = treasuries[t].nextNonce
      /\ (new.exists <=> treasuries[t].exists)
  BY <1>1, <1>2 DEF release, TreasuryRecord
<1>4. treasuries' = [treasuries EXCEPT ![t] = new]
  BY <1>1 DEF release, StorageInv, TypeOK
<1> QED
  BY <1>1, <1>3, <1>4 DEF StorageInv, TypeOK

LEMMA submitAuthorizationStorage ==
    ASSUME StorageInv, NEW res \in ResultOf(AuthorizationData), submitAuthorization(res)
    PROVE  StorageInv'
<1> DEFINE r == res.data.requestId
           t == requests[r].treasuryId
           a == res.data.amountDrops
           d == res.data.destinationHash
<1>1. r \in RequestId /\ a \in Nat /\ d \in AddressHash \cup {NoHash}
  BY DEF ResultOf, AuthorizationData
<1>2. /\ requests[r] \in RequestRecord /\ requests[r].state = "CREATED"
      /\ t \in TreasuryId /\ treasuries[t] \in TreasuryRecord
      /\ treasuries[t].reservedDrops \in Nat
  <2>1. requests[r] \in RequestRecord /\ requests[r].state = "CREATED"
    BY <1>1 DEF submitAuthorization, StorageInv, TypeOK
  <2>2. t \in TreasuryId
    BY <1>1, <2>1 DEF StorageInv, TypeOK, IdsAndNonces, TreasuryId
  <2>3. treasuries[t] \in TreasuryRecord
    BY <2>2 DEF StorageInv, TypeOK
  <2> QED
    BY <2>1, <2>2, <2>3 DEF TreasuryRecord
<1> HIDE DEF r, t, a, d
<1>3. [treasuries[t] EXCEPT !.reservedDrops = treasuries[t].reservedDrops + a] \in TreasuryRecord
  BY <1>1, <1>2 DEF TreasuryRecord
<1>4. [requests[r] EXCEPT !.amountDrops = a, !.destinationHash = d, !.state = "AUTHORIZED"]
        \in RequestRecord
  BY <1>1, <1>2 DEF RequestRecord, RequestState
<1>5. /\ treasuries' = [treasuries EXCEPT ![t].reservedDrops = treasuries[t].reservedDrops + a]
      /\ requests' = [requests EXCEPT ![r] =
                        [@ EXCEPT !.amountDrops = a, !.destinationHash = d, !.state = "AUTHORIZED"]]
  BY DEF submitAuthorization, r, t, a, d
<1>6. treasuries' \in [TreasuryId -> TreasuryRecord] /\ requests' \in [RequestId -> RequestRecord]
  BY <1>1, <1>2, <1>3, <1>4, <1>5 DEF StorageInv, TypeOK
<1>7. TypeOK'
  BY <1>6 DEF submitAuthorization, StorageInv, TypeOK, adminVars
<1>8. \A u \in TreasuryId :
         /\ treasuries'[u].exists <=> treasuries[u].exists
         /\ treasuries'[u].nextNonce = treasuries[u].nextNonce
  BY <1>2, <1>5 DEF StorageInv, TypeOK, TreasuryRecord
<1>9. \A q \in RequestId :
         /\ requests'[q].treasuryId = requests[q].treasuryId
         /\ requests'[q].nonce = requests[q].nonce
         /\ requests'[q].memoRef = requests[q].memoRef
         /\ requests'[q].state = "NONE" <=> requests[q].state = "NONE"
  BY <1>1, <1>2, <1>5 DEF StorageInv, TypeOK, RequestRecord
<1>10. IdsKept
  BY <1>8, <1>9 DEF submitAuthorization, IdsKept
<1> QED
  BY <1>7, <1>10, IdsFrame

LEMMA requestSignatureStorage ==
    ASSUME StorageInv, NEW s \in Account, NEW r \in RequestId, requestSignature(s, r)
    PROVE  StorageInv'
<1> DEFINE q == requests[r]
           t == q.treasuryId
<1>1. /\ q \in RequestRecord /\ t \in TreasuryId /\ treasuries[t] \in TreasuryRecord
  BY DEF requestSignature, StorageInv, TypeOK, IdsAndNonces, TreasuryId
<1>2. /\ q.nonce \in Nat /\ q.expiresAt \in Nat /\ q.memoRef \in MemoRef \cup {NoHash}
      /\ treasuries[t].policyCommitment \in Commitment \cup {NoHash} /\ r \in Nat
  BY <1>1 DEF RequestRecord, TreasuryRecord, RequestId
<1>3. header(t, r, q.nonce, q.expiresAt, q.memoRef, treasuries[t].policyCommitment) \in Header
  BY <1>1, <1>2 DEF header, Header
<1>4. instructions' \in Seq(Instruction)
  BY <1>3, SendType DEF requestSignature, StorageInv, TypeOK, Command
<1>5. TypeOK' /\ IdsKept
  BY <1>4 DEF requestSignature, StorageInv, TypeOK, IdsKept, adminVars, treasuryVars, requestVars
<1> QED
  BY <1>5, IdsFrame

\* A step that rewrites, in one existing request, fields other than its identity.
LEMMA RequestMoveStorage ==
    ASSUME StorageInv, NEW r \in RequestId, NEW q \in RequestRecord,
           requests[r].state # "NONE", requests' = [requests EXCEPT ![r] = q],
           q.treasuryId = requests[r].treasuryId, q.nonce = requests[r].nonce,
           q.memoRef = requests[r].memoRef, q.state # "NONE",
           UNCHANGED <<adminVars, treasuryCount, requestCount, instructions, now>>,
           treasuries' \in [TreasuryId -> TreasuryRecord],
           \A t \in TreasuryId :
              /\ treasuries'[t].exists <=> treasuries[t].exists
              /\ treasuries'[t].nextNonce = treasuries[t].nextNonce
    PROVE  StorageInv'
<1>1. TypeOK'
  BY DEF StorageInv, TypeOK, adminVars
<1>2. \A p \in RequestId :
         /\ requests'[p].treasuryId = requests[p].treasuryId
         /\ requests'[p].nonce = requests[p].nonce
         /\ requests'[p].memoRef = requests[p].memoRef
         /\ requests'[p].state = "NONE" <=> requests[p].state = "NONE"
  BY DEF StorageInv, TypeOK
<1>3. IdsKept
  BY <1>2 DEF IdsKept
<1> QED
  BY <1>1, <1>3, IdsFrame

LEMMA submitSignedPaymentStorage ==
    ASSUME StorageInv, NEW res \in ResultOf(SignedData), submitSignedPayment(res)
    PROVE  StorageInv'
<1> DEFINE r == res.data.requestId
           q == [requests[r] EXCEPT !.expectedTxId = res.data.expectedTxId,
                                    !.signedBlobHash = Keccak(res.data.signedTxBlob),
                                    !.state = "SIGNED"]
<1>1. r \in RequestId /\ res.data.expectedTxId \in TxId /\ res.data.signedTxBlob \in Blob
  BY DEF ResultOf, SignedData, submitSignedPayment
<1>2. requests[r] \in RequestRecord /\ requests[r].state = "AUTHORIZED"
  BY <1>1 DEF submitSignedPayment, StorageInv, TypeOK
<1>3. /\ q \in RequestRecord /\ q.treasuryId = requests[r].treasuryId
      /\ q.nonce = requests[r].nonce /\ q.memoRef = requests[r].memoRef /\ q.state = "SIGNED"
  BY <1>1, <1>2, HashTypes DEF RequestRecord, RequestState
<1>4. requests' = [requests EXCEPT ![r] = q] /\ UNCHANGED treasuries
      /\ UNCHANGED <<adminVars, treasuryCount, requestCount, instructions, now>>
  BY DEF submitSignedPayment, treasuryVars
<1> HIDE DEF q, r
<1> QED
  BY <1>1, <1>2, <1>3, <1>4, RequestMoveStorage DEF StorageInv, TypeOK

LEMMA reportBroadcastStorage ==
    ASSUME StorageInv, NEW r \in RequestId, NEW tx \in TxId, reportBroadcast(r, tx)
    PROVE  StorageInv'
<1> DEFINE q == [requests[r] EXCEPT !.xrplTxId = tx, !.state = "BROADCAST"]
<1>1. requests[r] \in RequestRecord /\ requests[r].state = "SIGNED"
  BY DEF reportBroadcast, StorageInv, TypeOK
<1>2. /\ q \in RequestRecord /\ q.treasuryId = requests[r].treasuryId
      /\ q.nonce = requests[r].nonce /\ q.memoRef = requests[r].memoRef /\ q.state = "BROADCAST"
  BY <1>1 DEF RequestRecord, RequestState
<1>3. requests' = [requests EXCEPT ![r] = q] /\ UNCHANGED treasuries
      /\ UNCHANGED <<adminVars, treasuryCount, requestCount, instructions, now>>
  BY DEF reportBroadcast, treasuryVars
<1> HIDE DEF q
<1> QED
  BY <1>1, <1>2, <1>3, RequestMoveStorage DEF StorageInv, TypeOK

LEMMA markSettledStorage ==
    ASSUME StorageInv, NEW v \in Verifier, NEW r \in RequestId, NEW tx \in TxId,
           markSettled(v, r, tx)
    PROVE  StorageInv'
<1> DEFINE q == [requests[r] EXCEPT !.xrplTxId = tx, !.state = "SETTLED"]
<1>1. requests[r] \in RequestRecord /\ requests[r].state # "NONE"
  BY DEF markSettled, StorageInv, TypeOK
<1>2. /\ q \in RequestRecord /\ q.treasuryId = requests[r].treasuryId
      /\ q.nonce = requests[r].nonce /\ q.memoRef = requests[r].memoRef /\ q.state = "SETTLED"
  BY <1>1 DEF RequestRecord, RequestState
<1>3. requests' = [requests EXCEPT ![r] = q] /\ UNCHANGED treasuries
      /\ UNCHANGED <<adminVars, treasuryCount, requestCount, instructions, now>>
  BY DEF markSettled, treasuryVars
<1> HIDE DEF q
<1> QED
  BY <1>1, <1>2, <1>3, RequestMoveStorage DEF StorageInv, TypeOK

\* Cancellation, expiry and refusal: a request closes, with or without a release.
LEMMA ClosingStorage ==
    ASSUME StorageInv, NEW r \in RequestId, requests[r].state # "NONE",
           NEW state \in RequestState \ {"NONE"}, setRequestState(r, state),
           release(r) \/ UNCHANGED treasuries,
           UNCHANGED <<adminVars, treasuryCount, requestCount, instructions, now>>
    PROVE  StorageInv'
<1> DEFINE q == [requests[r] EXCEPT !.state = state]
<1>1. requests[r] \in RequestRecord
  BY DEF StorageInv, TypeOK
<1>2. /\ q \in RequestRecord /\ q.treasuryId = requests[r].treasuryId
      /\ q.nonce = requests[r].nonce /\ q.memoRef = requests[r].memoRef /\ q.state # "NONE"
  BY <1>1 DEF RequestRecord
<1>3. requests' = [requests EXCEPT ![r] = q]
  BY DEF setRequestState, StorageInv, TypeOK
<1>4. /\ treasuries' \in [TreasuryId -> TreasuryRecord]
      /\ \A t \in TreasuryId :
            /\ treasuries'[t].exists <=> treasuries[t].exists
            /\ treasuries'[t].nextNonce = treasuries[t].nextNonce
  BY releaseType DEF StorageInv, TypeOK
<1> HIDE DEF q
<1> QED
  BY <1>2, <1>3, <1>4, RequestMoveStorage

LEMMA closingStorage ==
    ASSUME StorageInv,
           \/ \E s \in Account, r \in RequestId : cancelRequest(s, r)
           \/ \E r \in RequestId : expireRequest(r)
           \/ \E res \in ResultOf(FailureData) : submitFailure(res)
    PROVE  StorageInv'
<1>1. ASSUME NEW s \in Account, NEW r \in RequestId, cancelRequest(s, r) PROVE StorageInv'
  BY <1>1, ClosingStorage DEF cancelRequest, RequestState
<1>2. ASSUME NEW r \in RequestId, expireRequest(r) PROVE StorageInv'
  BY <1>2, ClosingStorage DEF expireRequest, RequestState
<1>3. ASSUME NEW res \in ResultOf(FailureData), submitFailure(res) PROVE StorageInv'
  <2>1. res.data.requestId \in RequestId
    BY DEF ResultOf, FailureData
  <2> QED
    BY <1>3, <2>1, ClosingStorage DEF submitFailure, RequestState
<1> QED
  BY <1>1, <1>2, <1>3

LEMMA TickStorage == StorageInv /\ Tick => StorageInv'
<1> SUFFICES ASSUME StorageInv, Tick PROVE StorageInv'
    OBVIOUS
<1>1. TypeOK' /\ IdsKept
  BY DEF Tick, StorageInv, TypeOK, IdsKept, Time, adminVars, treasuryVars, requestVars
<1> QED
  BY <1>1, IdsFrame

LEMMA StutterStorage == StorageInv /\ UNCHANGED controllerVars => StorageInv'
BY DEF StorageInv, TypeOK, IdsAndNonces, controllerVars, adminVars, treasuryVars, requestVars

\* Every step of the controller preserves the storage invariant.
LEMMA NextStorage == StorageInv /\ [Next]_controllerVars => StorageInv'
<1> SUFFICES ASSUME StorageInv, [Next]_controllerVars PROVE StorageInv'
    OBVIOUS
<1>1. CASE Administration
  BY <1>1, administrationStorage
<1>2. CASE OwnerCalls
  BY <1>2, createTreasuryStorage, requestPolicyUpdateStorage, setTreasuryPausedStorage,
     createPaymentRequestStorage, requestSignatureStorage, closingStorage DEF OwnerCalls
<1>3. CASE ResultCalls
  BY <1>3, bindTreasuryAddressStorage, confirmPolicyStorage, submitAuthorizationStorage,
     submitSignedPaymentStorage, closingStorage DEF ResultCalls
<1>4. CASE AnyoneCalls
  BY <1>4, reportBroadcastStorage, closingStorage DEF AnyoneCalls
<1>5. CASE Tick
  BY <1>5, TickStorage
<1>6. CASE \E v \in Verifier, r \in RequestId, tx \in TxId : markSettled(v, r, tx)
  BY <1>6, markSettledStorage
<1>7. CASE UNCHANGED controllerVars
  BY <1>7, StutterStorage
<1> QED
  BY <1>1, <1>2, <1>3, <1>4, <1>5, <1>6, <1>7 DEF Next, ControllerStep

(***************************************************************************)
(* Whatever results any enclave signs, storage keeps its types, and ids    *)
(* and nonces stay sequential, for any number of accounts, treasuries and  *)
(* requests.                                                               *)
(***************************************************************************)
THEOREM StorageInvariant == Spec => [](TypeOK /\ IdsAndNonces)
<1>1. Init => StorageInv
  BY InitStorage
<1>2. StorageInv /\ [Next]_controllerVars => StorageInv'
  BY NextStorage
<1> QED
  BY <1>1, <1>2, PTL DEF Spec, StorageInv

-----------------------------------------------------------------------------
(* Partial sums *)

\* The natural numbers are well founded: the form in which induction is used here.
LEMMA LeastElement ==
    ASSUME NEW T, T \subseteq Nat, T # {}
    PROVE  \E n \in T : \A m \in T : n <= m
<1> DEFINE R == {ss \in Nat \X Nat : ss[1] < ss[2]}
<1>1. IsWellFoundedOn(R, Nat)
  BY NatLessThanWellFounded, Zenon DEF OpToRel
<1>2. \A m, n \in Nat : m < n => <<m, n>> \in R
  OBVIOUS
<1> HIDE DEF R
<1>3. PICK n \in T : \A m \in T : ~(<<m, n>> \in R)
  BY <1>1, WFMin
<1>4. \A m \in T : n <= m
  <2> TAKE m \in T
  <2>1. ~(m < n)
    BY <1>2, <1>3
  <2> QED
    BY <2>1
<1> QED
  BY <1>4

\* f[n] is the sum of h over 1..n, for n up to N.
PartialSums(f, h, N) == f = [n \in 0..N |-> IF n = 0 THEN 0 ELSE f[n - 1] + h[n]]

LEMMA SumsExist ==
    ASSUME NEW N \in Nat, NEW h \in [1..N -> Int]
    PROVE  \E f \in [0..N -> Int] : PartialSums(f, h, N)
<1> DEFINE Bad == {m \in 0..N : ~ \E f \in [0..m -> Int] : PartialSums(f, h, m)}
<1>1. ASSUME Bad # {} PROVE FALSE
  <2>0. Bad \subseteq Nat
    OBVIOUS
  <2>1. PICK n \in Bad : \A m \in Bad : n <= m
    <3> HIDE DEF Bad
    <3> QED
      BY <1>1, <2>0, LeastElement
  <2>2. n # 0
    <3> DEFINE f == [x \in 0..0 |-> 0]
    <3>1. f \in [0..0 -> Int] /\ PartialSums(f, h, 0)
      BY DEF PartialSums
    <3> QED
      BY <3>1
  <2>3. n - 1 \in 0..N /\ n - 1 \notin Bad
    BY <2>1, <2>2
  <2>4. PICK f \in [0..(n - 1) -> Int] : PartialSums(f, h, n - 1)
    BY <2>3
  <2> DEFINE g == [x \in 0..n |-> IF x = n THEN f[n - 1] + h[n] ELSE f[x]]
  <2>5. g \in [0..n -> Int]
    BY <2>2
  <2>6. ASSUME NEW x \in 0..n
        PROVE  g[x] = IF x = 0 THEN 0 ELSE g[x - 1] + h[x]
    <3>1. CASE x = n
      BY <2>2, <3>1
    <3>2. CASE x # n
      <4>1. x \in 0..(n - 1) /\ (x # 0 => x - 1 \in 0..(n - 1) /\ x - 1 # n)
        BY <3>2
      <4>2. f[x] = IF x = 0 THEN 0 ELSE f[x - 1] + h[x]
        BY <2>4, <4>1 DEF PartialSums
      <4> QED
        BY <3>2, <4>1, <4>2
    <3> QED
      BY <3>1, <3>2
  <2>7. PartialSums(g, h, n)
    BY <2>5, <2>6 DEF PartialSums
  <2> QED
    BY <2>1, <2>5, <2>7
<1> QED
  BY <1>1

LEMMA SumsUnique ==
    ASSUME NEW N \in Nat, NEW h \in [1..N -> Int], NEW f, NEW g,
           PartialSums(f, h, N), PartialSums(g, h, N)
    PROVE  f = g
<1> DEFINE Bad == {n \in 0..N : f[n] # g[n]}
<1>1. ASSUME Bad # {} PROVE FALSE
  <2>0. Bad \subseteq Nat
    OBVIOUS
  <2>1. PICK n \in Bad : \A m \in Bad : n <= m
    <3> HIDE DEF Bad
    <3> QED
      BY <1>1, <2>0, LeastElement
  <2>2. n # 0
    BY <2>1 DEF PartialSums
  <2>3. n - 1 \in 0..N /\ f[n - 1] = g[n - 1]
    BY <2>1, <2>2
  <2>4. f[n] = f[n - 1] + h[n] /\ g[n] = g[n - 1] + h[n]
    BY <2>2 DEF PartialSums
  <2> QED
    BY <2>1, <2>3, <2>4
<1>2. f = [n \in 0..N |-> f[n]] /\ g = [n \in 0..N |-> g[n]]
  BY DEF PartialSums
<1>3. \A n \in 0..N : f[n] = g[n]
  BY <1>1
<1> QED
  BY <1>2, <1>3

\* Changing one summand changes the total by the difference.
SumsOf(f, h, N) == h \in [1..N -> Int] /\ f \in [0..N -> Int] /\ PartialSums(f, h, N)
DifferAt(r, h, k, N) == r \in 1..N /\ \A n \in 1..N : n # r => k[n] = h[n]

LEMMA SumsChange ==
    ASSUME NEW N \in Nat, NEW f, NEW g, NEW h, NEW k, NEW r,
           SumsOf(f, h, N), SumsOf(g, k, N), DifferAt(r, h, k, N)
    PROVE  g[N] = f[N] + (k[r] - h[r])
<1>0. /\ r \in 1..N /\ h \in [1..N -> Int] /\ k \in [1..N -> Int] /\ f \in [0..N -> Int]
      /\ PartialSums(f, h, N) /\ PartialSums(g, k, N)
      /\ \A n \in 1..N : n # r => k[n] = h[n]
  BY DEF SumsOf, DifferAt
<1> DEFINE s == [n \in 0..N |-> IF n < r THEN f[n] ELSE f[n] + (k[r] - h[r])]
<1>1. ASSUME NEW n \in 0..N
      PROVE  s[n] = IF n = 0 THEN 0 ELSE s[n - 1] + k[n]
  <2>1. f[n] = IF n = 0 THEN 0 ELSE f[n - 1] + h[n]
    BY <1>0 DEF PartialSums
  <2>2. /\ r \in Int /\ k[r] \in Int /\ h[r] \in Int
        /\ n # 0 => n - 1 \in 0..N /\ n \in 1..N /\ f[n - 1] \in Int /\ h[n] \in Int
    BY <1>0
  <2>3. CASE n < r
    <3>1. /\ s[n] = f[n]
          /\ n # 0 => s[n - 1] = f[n - 1] /\ k[n] = h[n]
      BY <1>0, <2>2, <2>3
    <3> HIDE DEF s
    <3> QED
      BY <2>1, <2>2, <3>1
  <2>4. CASE n = r
    BY <1>0, <2>1, <2>2, <2>4
  <2>5. CASE n > r
    <3>1. n # 0 /\ n # r /\ ~(n < r) /\ ~(n - 1 < r)
      BY <1>0, <2>5
    <3>2. s[n] = f[n] + (k[r] - h[r]) /\ s[n - 1] = f[n - 1] + (k[r] - h[r]) /\ k[n] = h[n]
      BY <1>0, <2>2, <3>1
    <3> HIDE DEF s
    <3> QED
      BY <2>1, <2>2, <3>1, <3>2
  <2> QED
    BY <2>2, <2>3, <2>4, <2>5
<1>2. PartialSums(s, k, N)
  BY <1>1 DEF PartialSums
<1>3. g = s
  BY <1>0, <1>2, SumsUnique
<1> QED
  BY <1>0, <1>3

\* The recursion that defines Held determines it.
HeldBy(t) == [n \in 1..MaxRequests |-> heldDrops(t, n)]
HeldIsSum == \A t \in TreasuryId : SumsOf(Held(t), HeldBy(t), MaxRequests)

LEMMA HeldSums == TypeOK => HeldIsSum
<1> SUFFICES ASSUME TypeOK, NEW t \in TreasuryId
             PROVE  SumsOf(Held(t), HeldBy(t), MaxRequests)
    BY DEF HeldIsSum
<1>1. HeldBy(t) \in [1..MaxRequests -> Int]
  BY DEF HeldBy, heldDrops, TypeOK, RequestRecord, RequestId
<1>2. PICK f \in [0..MaxRequests -> Int] : PartialSums(f, HeldBy(t), MaxRequests)
  BY <1>1, SumsExist
<1>3. f = [n \in 0..MaxRequests |-> IF n = 0 THEN 0 ELSE f[n - 1] + heldDrops(t, n)]
  BY <1>2 DEF PartialSums, HeldBy
<1>4. Held(t) = [n \in 0..MaxRequests |-> IF n = 0 THEN 0 ELSE Held(t)[n - 1] + heldDrops(t, n)]
  BY <1>3, Zenon DEF Held
<1>5. PartialSums(Held(t), HeldBy(t), MaxRequests)
  BY <1>4 DEF PartialSums, HeldBy
<1>6. Held(t) = f
  BY <1>1, <1>2, <1>5, SumsUnique
<1> QED
  BY <1>1, <1>2, <1>5, <1>6 DEF SumsOf

LEMMA HeldSumsNext == TypeOK' => HeldIsSum'
BY HeldSums, PTL

\* What is held when no request, or only request r, holds another amount than before.
LEMMA HeldSame ==
    ASSUME TypeOK, TypeOK', NEW t \in TreasuryId,
           \A n \in RequestId : heldDrops(t, n)' = heldDrops(t, n)
    PROVE  Held(t)'[MaxRequests] = Held(t)[MaxRequests]
<1>1. HeldBy(t)' = HeldBy(t)
  BY DEF HeldBy, RequestId
<1>2. /\ HeldBy(t) \in [1..MaxRequests -> Int]
      /\ PartialSums(Held(t), HeldBy(t), MaxRequests)
  BY HeldSums DEF HeldIsSum, SumsOf
<1>3. PartialSums(Held(t)', HeldBy(t)', MaxRequests)
  BY HeldSumsNext DEF HeldIsSum, SumsOf
<1> QED
  BY <1>1, <1>2, <1>3, SumsUnique

LEMMA HeldChange ==
    ASSUME TypeOK, TypeOK', NEW t \in TreasuryId, NEW r \in RequestId,
           \A n \in RequestId \ {r} : heldDrops(t, n)' = heldDrops(t, n)
    PROVE  Held(t)'[MaxRequests] = Held(t)[MaxRequests] + (heldDrops(t, r)' - heldDrops(t, r))
<1>1. SumsOf(Held(t), HeldBy(t), MaxRequests) /\ SumsOf(Held(t)', HeldBy(t)', MaxRequests)
  BY HeldSums, HeldSumsNext DEF HeldIsSum
<1>2. \A n \in 1..MaxRequests : HeldBy(t)[n] = heldDrops(t, n) /\ HeldBy(t)'[n] = heldDrops(t, n)'
  BY DEF HeldBy
<1>3. DifferAt(r, HeldBy(t), HeldBy(t)', MaxRequests)
  BY <1>2 DEF RequestId, DifferAt
<1>4. Held(t)'[MaxRequests] = Held(t)[MaxRequests] + (HeldBy(t)'[r] - HeldBy(t)[r])
  BY <1>1, <1>3, SumsChange
<1> QED
  BY <1>2, <1>4 DEF RequestId

-----------------------------------------------------------------------------
(* What each call does to treasuries, requests and instructions *)

NoPolicyDispatched ==
    \/ instructions' = instructions
    \/ \E x \in Instruction : x.command \notin PolicyCommand /\ instructions' = Append(instructions, x)

DispatchesPolicy(t, p) ==
    \E x \in Instruction :
       /\ x.command \in PolicyCommand /\ x.header.treasuryId = t
       /\ x.header.policyCommitment = policyCommitment(p) /\ x.body = p
       /\ instructions' = Append(instructions, x)

SamePolicy(a, b) ==
    /\ a.policy = b.policy
    /\ a.policyCommitment = b.policyCommitment
    /\ a.pendingPolicyCommitment = b.pendingPolicyCommitment
    /\ a.exists <=> b.exists

SameTerms(p, q) ==
    /\ p.treasuryId = q.treasuryId
    /\ p.expiresAt = q.expiresAt
    /\ p.amountDrops = q.amountDrops

OtherTreasuriesKept(t) == \A u \in TreasuryId \ {t} : treasuries'[u] = treasuries[u]
OtherRequestsKept(r) == \A q \in RequestId \ {r} : requests'[q] = requests[q]

\* Administration, requestSignature and the clock.
Idles ==
    /\ UNCHANGED <<treasuries, treasuryCount, requests, requestCount>>
    /\ now' \in {now, now + 1}
    /\ NoPolicyDispatched

\* createTreasury.
OpensTreasury(t, p) ==
    /\ t = treasuryCount + 1 /\ treasuryCount' = t
    /\ validatePolicy(p)
    /\ treasuries'[t].exists
    /\ treasuries'[t].policy = p
    /\ treasuries'[t].policyCommitment = policyCommitment(p)
    /\ treasuries'[t].pendingPolicyCommitment = treasuries[t].pendingPolicyCommitment
    /\ treasuries'[t].reservedDrops = treasuries[t].reservedDrops
    /\ OtherTreasuriesKept(t)
    /\ DispatchesPolicy(t, p)
    /\ UNCHANGED <<requests, requestCount, now>>

\* bindTreasuryAddress and setTreasuryPaused.
EditsTreasury(t) ==
    /\ treasuries[t].exists
    /\ SamePolicy(treasuries'[t], treasuries[t])
    /\ treasuries'[t].reservedDrops = treasuries[t].reservedDrops
    /\ OtherTreasuriesKept(t)
    /\ UNCHANGED <<treasuryCount, requests, requestCount, instructions, now>>

\* requestPolicyUpdate.
PublishesPolicy(t, p) ==
    /\ treasuries[t].exists /\ treasuries'[t].exists
    /\ validatePolicy(p)
    /\ treasuries'[t].policy = treasuries[t].policy
    /\ treasuries'[t].policyCommitment = treasuries[t].policyCommitment
    /\ treasuries'[t].pendingPolicyCommitment = policyCommitment(p)
    /\ treasuries'[t].reservedDrops = treasuries[t].reservedDrops
    /\ OtherTreasuriesKept(t)
    /\ DispatchesPolicy(t, p)
    /\ UNCHANGED <<treasuryCount, requests, requestCount, now>>

\* confirmPolicy.
AdoptsPolicy(t, p) ==
    /\ treasuries[t].exists /\ treasuries'[t].exists
    /\ treasuries[t].pendingPolicyCommitment = policyCommitment(p)
    /\ treasuries'[t].policy = p
    /\ treasuries'[t].policyCommitment = policyCommitment(p)
    /\ treasuries'[t].pendingPolicyCommitment = NoHash
    /\ treasuries'[t].reservedDrops = treasuries[t].reservedDrops
    /\ OtherTreasuriesKept(t)
    /\ UNCHANGED <<treasuryCount, requests, requestCount, instructions, now>>

\* createPaymentRequest.
OpensRequest(r, t) ==
    /\ treasuries[t].exists
    /\ requests[r].state = "NONE"
    /\ requests'[r].state = "CREATED"
    /\ requests'[r].treasuryId = t
    /\ requests'[r].expiresAt = now + treasuries[t].policy.requestTtlSeconds
    /\ requests'[r].amountDrops = requests[r].amountDrops
    /\ requests'[r].signedBlobHash = requests[r].signedBlobHash
    /\ OtherRequestsKept(r)
    /\ SamePolicy(treasuries'[t], treasuries[t])
    /\ treasuries'[t].reservedDrops = treasuries[t].reservedDrops
    /\ OtherTreasuriesKept(t)
    /\ NoPolicyDispatched
    /\ UNCHANGED <<treasuryCount, now>>

\* submitAuthorization.
Reserves(r, t, a) ==
    /\ t = requests[r].treasuryId
    /\ requests[r].state = "CREATED"
    /\ now <= requests[r].expiresAt
    /\ withinPolicy(t, a)
    /\ requests'[r].state = "AUTHORIZED"
    /\ requests'[r].treasuryId = t
    /\ requests'[r].expiresAt = requests[r].expiresAt
    /\ requests'[r].amountDrops = a
    /\ requests'[r].signedBlobHash = requests[r].signedBlobHash
    /\ OtherRequestsKept(r)
    /\ SamePolicy(treasuries'[t], treasuries[t])
    /\ treasuries'[t].reservedDrops = treasuries[t].reservedDrops + a
    /\ OtherTreasuriesKept(t)
    /\ UNCHANGED <<treasuryCount, requestCount, instructions, now>>

\* submitSignedPayment, reportBroadcast and markSettled.
Advances(r) ==
    /\ \/ /\ requests[r].state = "AUTHORIZED" /\ requests'[r].state = "SIGNED"
          /\ now <= requests[r].expiresAt
       \/ /\ requests[r].state = "SIGNED" /\ requests'[r].state = "BROADCAST"
          /\ requests'[r].signedBlobHash = requests[r].signedBlobHash
       \/ /\ requests[r].state \in {"SIGNED", "BROADCAST"} /\ requests'[r].state = "SETTLED"
          /\ requests'[r].signedBlobHash = requests[r].signedBlobHash
    /\ SameTerms(requests'[r], requests[r])
    /\ OtherRequestsKept(r)
    /\ UNCHANGED <<treasuries, treasuryCount, requestCount, instructions, now>>

\* cancelRequest, expireRequest and submitFailure.
Closes(r, t) ==
    /\ t = requests[r].treasuryId
    /\ requests[r].state \in {"CREATED", "AUTHORIZED", "SIGNED", "BROADCAST"}
    /\ requests[r].state \in {"SIGNED", "BROADCAST"} => now > requests[r].expiresAt + SETTLEMENT_GRACE
    /\ requests'[r].state \in {"CANCELLED", "EXPIRED", "FAILED"}
    /\ requests'[r].signedBlobHash = requests[r].signedBlobHash
    /\ SameTerms(requests'[r], requests[r])
    /\ OtherRequestsKept(r)
    /\ SamePolicy(treasuries'[t], treasuries[t])
    /\ treasuries'[t].reservedDrops =
          IF requests[r].state = "CREATED" THEN treasuries[t].reservedDrops
          ELSE treasuries[t].reservedDrops - requests[r].amountDrops
    /\ requests[r].state # "CREATED" => treasuries[t].reservedDrops >= requests[r].amountDrops
    /\ OtherTreasuriesKept(t)
    /\ UNCHANGED <<treasuryCount, requestCount, instructions, now>>

StepKind ==
    \/ Idles
    \/ \E t \in TreasuryId, p \in Policy : OpensTreasury(t, p) \/ PublishesPolicy(t, p) \/ AdoptsPolicy(t, p)
    \/ \E t \in TreasuryId : EditsTreasury(t)
    \/ \E r \in RequestId, t \in TreasuryId : OpensRequest(r, t) \/ Closes(r, t)
    \/ \E r \in RequestId, t \in TreasuryId, a \in Drops : Reserves(r, t, a)
    \/ \E r \in RequestId : Advances(r)

\* The facts about storage that the kinds of step are read off.
LEMMA Storage ==
    ASSUME StorageInv
    PROVE  /\ \A t \in TreasuryId : treasuries[t] \in TreasuryRecord
           /\ \A r \in RequestId : requests[r] \in RequestRecord
           /\ \A r \in RequestId : requests[r].state # "NONE" => requests[r].treasuryId \in TreasuryId
           /\ DOMAIN treasuries = TreasuryId /\ DOMAIN requests = RequestId
           /\ now \in Nat /\ treasuryCount \in Nat /\ requestCount \in Nat
           /\ instructions \in Seq(Instruction)
BY DEF StorageInv, IdsAndNonces, TypeOK, TreasuryId, Time

LEMMA Appended ==
    ASSUME StorageInv, StorageInv', NEW x, instructions' = Append(instructions, x)
    PROVE  x \in Instruction
<1>1. instructions'[Len(instructions')] = x /\ Len(instructions') \in 1..Len(instructions')
  BY Storage
<1> QED
  BY <1>1 DEF StorageInv, TypeOK

LEMMA IdlesKind ==
    ASSUME StorageInv, StorageInv',
           \/ Administration \/ Tick \/ UNCHANGED controllerVars
           \/ \E s \in Account, r \in RequestId : requestSignature(s, r)
    PROVE  Idles
<1>1. CASE Administration
  BY <1>1 DEF Administration, registerExtension, setExtensionId, setTeeAddress, setFdcVerifier,
     transferOwnership, setPaused, treasuryVars, requestVars, Idles, NoPolicyDispatched
<1>2. CASE Tick \/ UNCHANGED controllerVars
  BY <1>2 DEF Tick, controllerVars, treasuryVars, requestVars, Idles, NoPolicyDispatched
<1>3. ASSUME NEW s \in Account, NEW r \in RequestId, requestSignature(s, r)
      PROVE  Idles
  <2> DEFINE q == requests[r]
             x == [command |-> "SIGN_XRPL_PAYMENT",
                   header |-> header(q.treasuryId, r, q.nonce, q.expiresAt, q.memoRef,
                                     treasuries[q.treasuryId].policyCommitment),
                   body |-> NoBody]
  <2>1. instructions' = Append(instructions, x)
    BY <1>3 DEF requestSignature, send
  <2>2. x.command \notin PolicyCommand
    BY DEF PolicyCommand
  <2> HIDE DEF x
  <2>4. x \in Instruction
    BY <2>1, Appended
  <2> QED
    BY <1>3, <2>1, <2>2, <2>4 DEF requestSignature, treasuryVars, requestVars, Idles, NoPolicyDispatched
<1> QED
  BY <1>1, <1>2, <1>3

LEMMA createTreasuryKind ==
    ASSUME StorageInv, StorageInv', NEW s \in Account, NEW p \in Policy, createTreasury(s, p)
    PROVE  StepKind
<1> DEFINE t == treasuryCount + 1
           x == [command |-> "CREATE_TREASURY_KEY",
                 header |-> header(t, 0, 0, 0, NoHash, policyCommitment(p)), body |-> p]
           new == [treasuries[t] EXCEPT !.owner = s, !.policy = p,
                     !.policyCommitment = policyCommitment(p), !.nextNonce = 1, !.exists = TRUE]
<1>1. t \in TreasuryId /\ treasuries[t] \in TreasuryRecord
  BY Storage DEF createTreasury, TreasuryId
<1>2. DispatchesPolicy(t, p)
  <2>1. instructions' = Append(instructions, x)
    BY DEF createTreasury, send
  <2>2. /\ x.command \in PolicyCommand /\ x.header.treasuryId = t
        /\ x.header.policyCommitment = policyCommitment(p) /\ x.body = p
    BY DEF PolicyCommand, header
  <2> HIDE DEF x, t
  <2> QED
    BY <2>1, <2>2, Appended DEF DispatchesPolicy
<1>3. /\ new.exists /\ new.policy = p /\ new.policyCommitment = policyCommitment(p)
      /\ new.pendingPolicyCommitment = treasuries[t].pendingPolicyCommitment
      /\ new.reservedDrops = treasuries[t].reservedDrops
  BY <1>1 DEF TreasuryRecord
<1>4. treasuries' = [treasuries EXCEPT ![t] = new]
  BY DEF createTreasury
<1>5. validatePolicy(p) /\ treasuryCount' = t /\ UNCHANGED <<requests, requestCount, now>>
  BY DEF createTreasury, requestVars
<1>6. t = treasuryCount + 1
  OBVIOUS
<1> HIDE DEF new, t
<1>7. treasuries'[t] = new /\ OtherTreasuriesKept(t)
  BY <1>1, <1>4, Storage DEF OtherTreasuriesKept
<1>8. OpensTreasury(t, p)
  BY <1>2, <1>3, <1>5, <1>6, <1>7 DEF OpensTreasury
<1> QED
  BY <1>1, <1>8 DEF StepKind

LEMMA requestPolicyUpdateKind ==
    ASSUME StorageInv, StorageInv', NEW s \in Account, NEW t \in TreasuryId, NEW p \in Policy,
           requestPolicyUpdate(s, t, p)
    PROVE  StepKind
<1> DEFINE x == [command |-> "REGISTER_POLICY",
                 header |-> header(t, 0, 0, 0, NoHash, policyCommitment(p)), body |-> p]
           new == [treasuries[t] EXCEPT !.pendingPolicyCommitment = policyCommitment(p)]
<1>1. treasuries[t] \in TreasuryRecord /\ treasuries[t].exists
  BY Storage DEF requestPolicyUpdate, knownTreasury
<1>2. DispatchesPolicy(t, p)
  <2>1. instructions' = Append(instructions, x)
    BY DEF requestPolicyUpdate, send
  <2>2. /\ x.command \in PolicyCommand /\ x.header.treasuryId = t
        /\ x.header.policyCommitment = policyCommitment(p) /\ x.body = p
    BY DEF PolicyCommand, header
  <2> HIDE DEF x
  <2> QED
    BY <2>1, <2>2, Appended DEF DispatchesPolicy
<1>3. /\ new.exists /\ new.policy = treasuries[t].policy
      /\ new.policyCommitment = treasuries[t].policyCommitment
      /\ new.pendingPolicyCommitment = policyCommitment(p)
      /\ new.reservedDrops = treasuries[t].reservedDrops
  BY <1>1 DEF TreasuryRecord
<1>4. treasuries' = [treasuries EXCEPT ![t] = new]
  BY Storage DEF requestPolicyUpdate
<1>5. validatePolicy(p) /\ UNCHANGED <<treasuryCount, requests, requestCount, now>>
  BY DEF requestPolicyUpdate, requestVars
<1> HIDE DEF new
<1>6. treasuries'[t] = new /\ OtherTreasuriesKept(t)
  BY <1>4, Storage DEF OtherTreasuriesKept
<1>7. PublishesPolicy(t, p)
  BY <1>1, <1>2, <1>3, <1>5, <1>6 DEF PublishesPolicy
<1> QED
  BY <1>7 DEF StepKind

LEMMA confirmPolicyKind ==
    ASSUME StorageInv, StorageInv', NEW res \in ResultOf(ConfirmData), confirmPolicy(res)
    PROVE  StepKind
<1> DEFINE t == res.data.treasuryId
           p == res.data.policy
           new == [treasuries[t] EXCEPT !.pendingPolicyCommitment = NoHash, !.policy = p,
                                        !.policyCommitment = policyCommitment(p)]
<1>1. t \in TreasuryId /\ p \in Policy
  BY DEF ResultOf, ConfirmData
<1>2. /\ treasuries[t] \in TreasuryRecord /\ treasuries[t].exists
      /\ treasuries[t].pendingPolicyCommitment = policyCommitment(p)
      /\ treasuries' = [treasuries EXCEPT ![t] = new]
      /\ UNCHANGED <<treasuryCount, requests, requestCount, instructions, now>>
  BY <1>1, Storage DEF confirmPolicy, knownTreasury, adoptPolicy, requestVars
<1>3. /\ new.exists /\ new.policy = p /\ new.policyCommitment = policyCommitment(p)
      /\ new.pendingPolicyCommitment = NoHash /\ new.reservedDrops = treasuries[t].reservedDrops
  BY <1>2 DEF TreasuryRecord
<1> HIDE DEF new, t, p
<1>4. treasuries'[t] = new /\ OtherTreasuriesKept(t)
  BY <1>1, <1>2, Storage DEF OtherTreasuriesKept
<1>5. AdoptsPolicy(t, p)
  BY <1>2, <1>3, <1>4 DEF AdoptsPolicy
<1> QED
  BY <1>1, <1>5 DEF StepKind

LEMMA editTreasuryKind ==
    ASSUME StorageInv, StorageInv',
           \/ \E res \in ResultOf(BindData) : bindTreasuryAddress(res)
           \/ \E s \in Account, t \in TreasuryId, b \in PauseInput : setTreasuryPaused(s, t, b)
    PROVE  StepKind
<1>1. ASSUME NEW res \in ResultOf(BindData), bindTreasuryAddress(res)
      PROVE  StepKind
  <2> DEFINE t == res.data.treasuryId
             new == [treasuries[t] EXCEPT !.xrplAddressHash = Keccak(res.data.xrplAddress), !.bound = TRUE]
  <2>1. t \in TreasuryId
    BY DEF ResultOf, BindData
  <2>2. /\ treasuries[t] \in TreasuryRecord /\ treasuries[t].exists
        /\ treasuries' = [treasuries EXCEPT ![t] = new]
        /\ UNCHANGED <<treasuryCount, requests, requestCount, instructions, now>>
    BY <1>1, <2>1, Storage DEF bindTreasuryAddress, knownTreasury, requestVars
  <2>3. SamePolicy(new, treasuries[t]) /\ new.reservedDrops = treasuries[t].reservedDrops
    BY <2>2 DEF TreasuryRecord, SamePolicy
  <2> HIDE DEF new, t
  <2>4. treasuries'[t] = new /\ OtherTreasuriesKept(t)
    BY <2>1, <2>2, Storage DEF OtherTreasuriesKept
  <2> QED
    BY <2>1, <2>2, <2>3, <2>4 DEF EditsTreasury, StepKind
<1>2. ASSUME NEW s \in Account, NEW t \in TreasuryId, NEW b \in PauseInput, setTreasuryPaused(s, t, b)
      PROVE  StepKind
  <2> DEFINE new == [treasuries[t] EXCEPT !.paused = b]
  <2>2. /\ treasuries[t] \in TreasuryRecord /\ treasuries[t].exists
        /\ treasuries' = [treasuries EXCEPT ![t] = new]
        /\ UNCHANGED <<treasuryCount, requests, requestCount, instructions, now>>
    BY <1>2, Storage DEF setTreasuryPaused, knownTreasury, requestVars
  <2>3. SamePolicy(new, treasuries[t]) /\ new.reservedDrops = treasuries[t].reservedDrops
    BY <2>2 DEF TreasuryRecord, SamePolicy
  <2> HIDE DEF new
  <2>4. treasuries'[t] = new /\ OtherTreasuriesKept(t)
    BY <2>2, Storage DEF OtherTreasuriesKept
  <2> QED
    BY <2>2, <2>3, <2>4 DEF EditsTreasury, StepKind
<1> QED
  BY <1>1, <1>2

LEMMA createPaymentRequestKind ==
    ASSUME StorageInv, StorageInv', NEW s \in Account, NEW t \in TreasuryId, NEW c \in Ciphertext,
           createPaymentRequest(s, t, c)
    PROVE  StepKind
<1> DEFINE r == requestCount + 1
           nonce == treasuries[t].nextNonce
           expiresAt == now + treasuries[t].policy.requestTtlSeconds
           ref == memoRef(t, r, nonce)
           x == [command |-> "AUTHORIZE_PAYMENT",
                 header |-> header(t, r, nonce, expiresAt, ref, treasuries[t].policyCommitment),
                 body |-> c]
           new == [treasuries[t] EXCEPT !.nextNonce = nonce + 1]
           q == [requests[r] EXCEPT !.treasuryId = t, !.nonce = nonce, !.expiresAt = expiresAt,
                   !.payloadHash = Keccak(c), !.memoRef = ref, !.state = "CREATED"]
<1>1. /\ r \in RequestId /\ requests[r] \in RequestRecord
      /\ treasuries[t] \in TreasuryRecord /\ treasuries[t].exists
  BY Storage DEF createPaymentRequest, knownTreasury, RequestId
<1>2. requests[r].state = "NONE"
  <2>1. ~(r <= requestCount)
    BY Storage
  <2> QED
    BY <1>1, <2>1 DEF StorageInv, IdsAndNonces
<1>3. NoPolicyDispatched
  <2>1. instructions' = Append(instructions, x)
    BY DEF createPaymentRequest, send
  <2>2. x.command \notin PolicyCommand
    BY DEF PolicyCommand
  <2> HIDE DEF x
  <2> QED
    BY <2>1, <2>2, Appended DEF NoPolicyDispatched
<1>4. SamePolicy(new, treasuries[t]) /\ new.reservedDrops = treasuries[t].reservedDrops
  BY <1>1 DEF TreasuryRecord, SamePolicy
<1>5. /\ q.state = "CREATED" /\ q.treasuryId = t /\ q.expiresAt = expiresAt
      /\ q.amountDrops = requests[r].amountDrops /\ q.signedBlobHash = requests[r].signedBlobHash
  BY <1>1 DEF RequestRecord
<1>6. /\ treasuries' = [treasuries EXCEPT ![t] = new] /\ requests' = [requests EXCEPT ![r] = q]
      /\ UNCHANGED <<treasuryCount, now>>
  BY Storage DEF createPaymentRequest
<1> HIDE DEF new, q, r
<1>7. treasuries'[t] = new /\ OtherTreasuriesKept(t) /\ requests'[r] = q /\ OtherRequestsKept(r)
  BY <1>1, <1>6, Storage DEF OtherTreasuriesKept, OtherRequestsKept
<1>8. OpensRequest(r, t)
  BY <1>1, <1>2, <1>3, <1>4, <1>5, <1>6, <1>7 DEF OpensRequest
<1> QED
  BY <1>1, <1>8 DEF StepKind

LEMMA submitAuthorizationKind ==
    ASSUME StorageInv, StorageInv', NEW res \in ResultOf(AuthorizationData), submitAuthorization(res)
    PROVE  StepKind
<1> DEFINE r == res.data.requestId
           a == res.data.amountDrops
           t == requests[r].treasuryId
           new == [treasuries[t] EXCEPT !.reservedDrops = treasuries[t].reservedDrops + a]
           q == [requests[r] EXCEPT !.amountDrops = a, !.destinationHash = res.data.destinationHash,
                                    !.state = "AUTHORIZED"]
<1>1. r \in RequestId /\ a \in Drops
  BY DEF ResultOf, AuthorizationData
<1>2. /\ requests[r] \in RequestRecord /\ requests[r].state = "CREATED"
      /\ t \in TreasuryId /\ treasuries[t] \in TreasuryRecord
  <2>1. requests[r].state = "CREATED"
    BY DEF submitAuthorization
  <2> QED
    BY <1>1, <2>1, Storage
<1>3. /\ now <= requests[r].expiresAt /\ withinPolicy(t, a)
      /\ treasuries' = [treasuries EXCEPT ![t] = new] /\ requests' = [requests EXCEPT ![r] = q]
      /\ UNCHANGED <<treasuryCount, requestCount, instructions, now>>
  BY Storage DEF submitAuthorization
<1>4. SamePolicy(new, treasuries[t]) /\ new.reservedDrops = treasuries[t].reservedDrops + a
  BY <1>2 DEF TreasuryRecord, SamePolicy
<1>5. /\ q.state = "AUTHORIZED" /\ q.treasuryId = t /\ q.expiresAt = requests[r].expiresAt
      /\ q.amountDrops = a /\ q.signedBlobHash = requests[r].signedBlobHash
  BY <1>2 DEF RequestRecord
<1>6. t = requests[r].treasuryId
  OBVIOUS
<1> HIDE DEF new, q, r, t, a
<1>7. treasuries'[t] = new /\ OtherTreasuriesKept(t) /\ requests'[r] = q /\ OtherRequestsKept(r)
  BY <1>1, <1>2, <1>3, Storage DEF OtherTreasuriesKept, OtherRequestsKept
<1>8. Reserves(r, t, a)
  BY <1>2, <1>3, <1>4, <1>5, <1>6, <1>7 DEF Reserves
<1> QED
  BY <1>1, <1>2, <1>8 DEF StepKind

LEMMA advanceKind ==
    ASSUME StorageInv, StorageInv',
           \/ \E res \in ResultOf(SignedData) : submitSignedPayment(res)
           \/ \E r \in RequestId, tx \in TxId : reportBroadcast(r, tx)
           \/ \E v \in Verifier, r \in RequestId, tx \in TxId : markSettled(v, r, tx)
    PROVE  StepKind
<1>0. ASSUME NEW r \in RequestId, NEW q, requests' = [requests EXCEPT ![r] = q]
      PROVE  requests'[r] = q /\ OtherRequestsKept(r)
  BY <1>0, Storage DEF OtherRequestsKept
<1>1. ASSUME NEW res \in ResultOf(SignedData), submitSignedPayment(res)
      PROVE  StepKind
  <2> DEFINE r == res.data.requestId
             q == [requests[r] EXCEPT !.expectedTxId = res.data.expectedTxId,
                     !.signedBlobHash = Keccak(res.data.signedTxBlob), !.state = "SIGNED"]
  <2>1. r \in RequestId /\ requests[r] \in RequestRecord
    BY Storage DEF ResultOf, SignedData
  <2>2. /\ requests[r].state = "AUTHORIZED" /\ now <= requests[r].expiresAt
        /\ requests' = [requests EXCEPT ![r] = q]
        /\ UNCHANGED <<treasuries, treasuryCount, requestCount, instructions, now>>
    BY <1>1 DEF submitSignedPayment, treasuryVars
  <2>3. q.state = "SIGNED" /\ SameTerms(q, requests[r])
    BY <2>1 DEF RequestRecord, SameTerms
  <2> HIDE DEF q, r
  <2> QED
    BY <1>0, <2>1, <2>2, <2>3 DEF Advances, StepKind
<1>2. ASSUME NEW r \in RequestId, NEW tx \in TxId, reportBroadcast(r, tx)
      PROVE  StepKind
  <2> DEFINE q == [requests[r] EXCEPT !.xrplTxId = tx, !.state = "BROADCAST"]
  <2>1. /\ requests[r].state = "SIGNED" /\ requests' = [requests EXCEPT ![r] = q]
        /\ UNCHANGED <<treasuries, treasuryCount, requestCount, instructions, now>>
    BY <1>2 DEF reportBroadcast, treasuryVars
  <2>2. /\ q.state = "BROADCAST" /\ SameTerms(q, requests[r])
        /\ q.signedBlobHash = requests[r].signedBlobHash
    BY Storage DEF RequestRecord, SameTerms
  <2> HIDE DEF q
  <2> QED
    BY <1>0, <2>1, <2>2, ZenonT(60) DEF Advances, StepKind
<1>3. ASSUME NEW v \in Verifier, NEW r \in RequestId, NEW tx \in TxId, markSettled(v, r, tx)
      PROVE  StepKind
  <2> DEFINE q == [requests[r] EXCEPT !.xrplTxId = tx, !.state = "SETTLED"]
  <2>1. /\ requests[r].state \in {"SIGNED", "BROADCAST"} /\ requests' = [requests EXCEPT ![r] = q]
        /\ UNCHANGED <<treasuries, treasuryCount, requestCount, instructions, now>>
    BY <1>3 DEF markSettled, treasuryVars
  <2>2. /\ q.state = "SETTLED" /\ SameTerms(q, requests[r])
        /\ q.signedBlobHash = requests[r].signedBlobHash
    BY Storage DEF RequestRecord, SameTerms
  <2> HIDE DEF q
  <2> QED
    BY <1>0, <2>1, <2>2, ZenonT(60) DEF Advances, StepKind
<1> QED
  BY <1>1, <1>2, <1>3

LEMMA CloseKind ==
    ASSUME StorageInv, StorageInv', NEW r \in RequestId,
           requests[r].state \in {"CREATED", "AUTHORIZED", "SIGNED", "BROADCAST"},
           requests[r].state \in {"SIGNED", "BROADCAST"} => now > requests[r].expiresAt + SETTLEMENT_GRACE,
           NEW state \in {"CANCELLED", "EXPIRED", "FAILED"}, setRequestState(r, state),
           IF requests[r].state # "CREATED" THEN release(r) ELSE UNCHANGED treasuries,
           UNCHANGED <<treasuryCount, requestCount, instructions, now>>
    PROVE  StepKind
<1> DEFINE t == requests[r].treasuryId
           q == [requests[r] EXCEPT !.state = state]
           left == IF requests[r].state = "CREATED" THEN treasuries[t].reservedDrops
                   ELSE treasuries[t].reservedDrops - requests[r].amountDrops
           new == [treasuries[t] EXCEPT !.reservedDrops = left]
<1>1. requests[r] \in RequestRecord /\ t \in TreasuryId /\ treasuries[t] \in TreasuryRecord
  BY Storage
<1>2. requests'[r] = q /\ OtherRequestsKept(r)
  BY Storage DEF setRequestState, OtherRequestsKept
<1>3. /\ q.state = state /\ SameTerms(q, requests[r])
      /\ q.signedBlobHash = requests[r].signedBlobHash
  BY <1>1 DEF RequestRecord, SameTerms
<1>4. SamePolicy(new, treasuries[t]) /\ new.reservedDrops = left
  BY <1>1 DEF TreasuryRecord, SamePolicy
<1>5. treasuries' = [treasuries EXCEPT ![t] = new]
  <2>1. CASE requests[r].state = "CREATED"
    <3>1. new = treasuries[t]
      BY <1>1, <2>1 DEF TreasuryRecord
    <3>2. treasuries' = treasuries
      BY <2>1
    <3> HIDE DEF new, t
    <3> QED
      BY <1>1, <3>1, <3>2 DEF StorageInv, TypeOK
  <2>2. CASE requests[r].state # "CREATED"
    BY <2>2, Storage DEF release
  <2> QED
    BY <2>1, <2>2
<1>6. requests[r].state # "CREATED" => treasuries[t].reservedDrops >= requests[r].amountDrops
  BY DEF release
<1>7. t = requests[r].treasuryId
  OBVIOUS
<1>8. left = IF requests[r].state = "CREATED" THEN treasuries[t].reservedDrops
             ELSE treasuries[t].reservedDrops - requests[r].amountDrops
  OBVIOUS
<1> HIDE DEF new, q, t, left
<1>9. treasuries'[t] = new /\ OtherTreasuriesKept(t)
  BY <1>1, <1>5, Storage DEF OtherTreasuriesKept
<1>10. Closes(r, t)
  BY <1>2, <1>3, <1>4, <1>6, <1>7, <1>8, <1>9 DEF Closes
<1> QED
  BY <1>1, <1>10 DEF StepKind

LEMMA closingKind ==
    ASSUME StorageInv, StorageInv',
           \/ \E s \in Account, r \in RequestId : cancelRequest(s, r)
           \/ \E r \in RequestId : expireRequest(r)
           \/ \E res \in ResultOf(FailureData) : submitFailure(res)
    PROVE  StepKind
<1>1. ASSUME NEW s \in Account, NEW r \in RequestId, cancelRequest(s, r) PROVE StepKind
  BY <1>1, CloseKind DEF cancelRequest
<1>2. ASSUME NEW r \in RequestId, expireRequest(r) PROVE StepKind
  BY <1>2, CloseKind DEF expireRequest, expirableAt
<1>3. ASSUME NEW res \in ResultOf(FailureData), submitFailure(res) PROVE StepKind
  <2>1. res.data.requestId \in RequestId
    BY DEF ResultOf, FailureData
  <2> QED
    BY <1>3, <2>1, CloseKind DEF submitFailure
<1> QED
  BY <1>1, <1>2, <1>3

\* Every step of the controller, or of a verifier that settles, is of one of the kinds.
LEMMA StepKinds ==
    ASSUME StorageInv, StorageInv', [Next]_controllerVars
    PROVE  StepKind
<1>1. CASE Administration \/ Tick \/ UNCHANGED controllerVars
  BY <1>1, IdlesKind DEF StepKind
<1>2. CASE OwnerCalls
  BY <1>2, createTreasuryKind, requestPolicyUpdateKind, editTreasuryKind,
     createPaymentRequestKind, IdlesKind, closingKind DEF OwnerCalls, StepKind
<1>3. CASE ResultCalls
  BY <1>3, editTreasuryKind, confirmPolicyKind, submitAuthorizationKind, advanceKind, closingKind
     DEF ResultCalls
<1>4. CASE AnyoneCalls
  BY <1>4, advanceKind, closingKind DEF AnyoneCalls
<1>5. CASE \E v \in Verifier, r \in RequestId, tx \in TxId : markSettled(v, r, tx)
  BY <1>5, advanceKind
<1> QED
  BY <1>1, <1>2, <1>3, <1>4, <1>5 DEF Next, ControllerStep

-----------------------------------------------------------------------------
(* The budget *)

BudgetInv == StorageInv /\ BudgetConservation

LEMMA InitBudget == Init => BudgetInv
<1> SUFFICES ASSUME Init, NEW t \in TreasuryId
             PROVE  treasuries[t].reservedDrops = Held(t)[MaxRequests]
    BY InitStorage DEF BudgetInv, BudgetConservation
<1>1. TypeOK
  BY InitStorage DEF StorageInv
<1>2. SumsOf(Held(t), HeldBy(t), MaxRequests)
  BY <1>1, HeldSums DEF HeldIsSum
<1> DEFINE zero == [n \in 0..MaxRequests |-> 0]
<1>3. \A n \in 1..MaxRequests : HeldBy(t)[n] = 0
  BY DEF HeldBy, heldDrops, Init, BlankRequest, Holding, RequestId
<1>4. PartialSums(zero, HeldBy(t), MaxRequests)
  BY <1>3 DEF PartialSums
<1>5. Held(t) = zero
  BY <1>2, <1>4, SumsUnique DEF SumsOf
<1> QED
  BY <1>5 DEF Init, BlankTreasury

LEMMA StepBudget ==
    ASSUME BudgetInv, StorageInv', StepKind
    PROVE  BudgetConservation'
<1> SUFFICES ASSUME NEW u \in TreasuryId
             PROVE  treasuries'[u].reservedDrops = Held(u)'[MaxRequests]
    BY DEF BudgetConservation
<1>0. /\ TypeOK /\ TypeOK' /\ treasuries[u].reservedDrops = Held(u)[MaxRequests]
      /\ treasuries[u].reservedDrops \in Nat
      /\ \A r \in RequestId : requests[r].amountDrops \in Nat
  BY DEF BudgetInv, BudgetConservation, StorageInv, TypeOK, TreasuryRecord, RequestRecord
<1>1. ASSUME treasuries'[u].reservedDrops = treasuries[u].reservedDrops,
             \A n \in RequestId : heldDrops(u, n)' = heldDrops(u, n)
      PROVE  treasuries'[u].reservedDrops = Held(u)'[MaxRequests]
  BY <1>0, <1>1, HeldSame
<1>2. ASSUME requests' = requests
      PROVE  \A n \in RequestId : heldDrops(u, n)' = heldDrops(u, n)
  BY <1>2 DEF heldDrops
<1>3. CASE Idles
  BY <1>1, <1>2, <1>3 DEF Idles
<1>4. ASSUME NEW t \in TreasuryId, NEW p \in Policy,
             OpensTreasury(t, p) \/ PublishesPolicy(t, p) \/ AdoptsPolicy(t, p) \/ EditsTreasury(t)
      PROVE  treasuries'[u].reservedDrops = Held(u)'[MaxRequests]
  <2>1. requests' = requests /\ treasuries'[u].reservedDrops = treasuries[u].reservedDrops
    BY <1>4 DEF OpensTreasury, PublishesPolicy, AdoptsPolicy, EditsTreasury, OtherTreasuriesKept
  <2> QED
    BY <1>1, <1>2, <2>1
<1>5. ASSUME NEW t \in TreasuryId, EditsTreasury(t)
      PROVE  treasuries'[u].reservedDrops = Held(u)'[MaxRequests]
  BY <1>1, <1>2, <1>5 DEF EditsTreasury, OtherTreasuriesKept
<1>6. ASSUME NEW r \in RequestId, NEW t \in TreasuryId, OpensRequest(r, t)
      PROVE  treasuries'[u].reservedDrops = Held(u)'[MaxRequests]
  <2>1. treasuries'[u].reservedDrops = treasuries[u].reservedDrops
    BY <1>6 DEF OpensRequest, OtherTreasuriesKept
  <2>2. heldDrops(u, r)' = 0 /\ heldDrops(u, r) = 0
    BY <1>6 DEF OpensRequest, heldDrops, Holding
  <2>3. \A n \in RequestId \ {r} : heldDrops(u, n)' = heldDrops(u, n)
    BY <1>6 DEF OpensRequest, OtherRequestsKept, heldDrops
  <2> QED
    BY <1>1, <2>1, <2>2, <2>3
<1>7. ASSUME NEW r \in RequestId, Advances(r)
      PROVE  treasuries'[u].reservedDrops = Held(u)'[MaxRequests]
  <2>1. heldDrops(u, r)' = heldDrops(u, r)
    BY <1>7 DEF Advances, SameTerms, heldDrops, Holding
  <2>2. \A n \in RequestId \ {r} : heldDrops(u, n)' = heldDrops(u, n)
    BY <1>7 DEF Advances, OtherRequestsKept, heldDrops
  <2>3. treasuries'[u].reservedDrops = treasuries[u].reservedDrops
    BY <1>7 DEF Advances
  <2> QED
    BY <1>1, <2>1, <2>2, <2>3
<1>8. ASSUME NEW r \in RequestId, NEW t \in TreasuryId, NEW a \in Drops, Reserves(r, t, a)
      PROVE  treasuries'[u].reservedDrops = Held(u)'[MaxRequests]
  <2>1. \A n \in RequestId \ {r} : heldDrops(u, n)' = heldDrops(u, n)
    BY <1>8 DEF Reserves, OtherRequestsKept, heldDrops
  <2>2. heldDrops(u, r) = 0 /\ heldDrops(u, r)' = (IF t = u THEN a ELSE 0)
    BY <1>8 DEF Reserves, heldDrops, Holding
  <2>3. treasuries'[u].reservedDrops =
           IF t = u THEN treasuries[u].reservedDrops + a ELSE treasuries[u].reservedDrops
    BY <1>8 DEF Reserves, OtherTreasuriesKept
  <2>4. Held(u)'[MaxRequests] = Held(u)[MaxRequests] + (heldDrops(u, r)' - heldDrops(u, r))
    BY <1>0, <2>1, HeldChange
  <2>5. a \in Nat
    OBVIOUS
  <2> QED
    BY <1>0, <2>2, <2>3, <2>4, <2>5
<1>9. ASSUME NEW r \in RequestId, NEW t \in TreasuryId, Closes(r, t)
      PROVE  treasuries'[u].reservedDrops = Held(u)'[MaxRequests]
  <2>1. \A n \in RequestId \ {r} : heldDrops(u, n)' = heldDrops(u, n)
    BY <1>9 DEF Closes, OtherRequestsKept, heldDrops
  <2>2. /\ heldDrops(u, r)' = 0
        /\ heldDrops(u, r) = IF t = u /\ requests[r].state # "CREATED" THEN requests[r].amountDrops ELSE 0
    BY <1>9 DEF Closes, heldDrops, Holding
  <2>3. treasuries'[u].reservedDrops =
           IF t = u /\ requests[r].state # "CREATED"
           THEN treasuries[u].reservedDrops - requests[r].amountDrops
           ELSE treasuries[u].reservedDrops
    BY <1>9 DEF Closes, OtherTreasuriesKept
  <2>4. Held(u)'[MaxRequests] = Held(u)[MaxRequests] + (heldDrops(u, r)' - heldDrops(u, r))
    BY <1>0, <2>1, HeldChange
  <2> QED
    BY <1>0, <2>2, <2>3, <2>4
<1> QED
  BY <1>3, <1>4, <1>5, <1>6, <1>7, <1>8, <1>9 DEF StepKind

LEMMA NextBudget == BudgetInv /\ [Next]_controllerVars => BudgetInv'
<1> SUFFICES ASSUME BudgetInv, [Next]_controllerVars PROVE BudgetInv'
    OBVIOUS
<1>1. StorageInv'
  BY NextStorage DEF BudgetInv
<1>2. StepKind
  BY <1>1, StepKinds DEF BudgetInv
<1> QED
  BY <1>1, <1>2, StepBudget DEF BudgetInv

(***************************************************************************)
(* reservedDrops is exactly the sum of what the treasury's AUTHORIZED,     *)
(* SIGNED, BROADCAST and SETTLED requests hold, for any number of them:    *)
(* submitAuthorization, cancelRequest, expireRequest and submitFailure     *)
(* together never leak, release twice or charge another treasury.          *)
(***************************************************************************)
THEOREM BudgetIsConserved == Spec => []BudgetConservation
<1>1. BudgetInv => BudgetConservation
  BY DEF BudgetInv
<1> QED
  BY <1>1, InitBudget, NextBudget, PTL DEF Spec

-----------------------------------------------------------------------------
(* Published payments *)

\* A blob is published once, by submitSignedPayment.
BlobIsSigned ==
    \A r \in RequestId : requests[r].signedBlobHash # NoHash
                         => requests[r].state \notin {"NONE", "CREATED", "AUTHORIZED"}

PublishedInv == StorageInv /\ BlobIsSigned /\ PublishedStaysReserved

LEMMA InitPublished == Init => PublishedInv
BY InitStorage DEF Init, BlankRequest, PublishedInv, BlobIsSigned, PublishedStaysReserved

LEMMA StepPublished ==
    ASSUME PublishedInv, StorageInv', StepKind
    PROVE  BlobIsSigned' /\ PublishedStaysReserved'
<1>0. /\ now \in Nat /\ \A r \in RequestId : requests[r].expiresAt \in Nat
      /\ now' \in Nat /\ now' >= now
  BY Storage, SMTT(60) DEF PublishedInv, RequestRecord, StepKind, Idles, OpensTreasury, PublishesPolicy,
     AdoptsPolicy, EditsTreasury, OpensRequest, Closes, Reserves, Advances
<1> SUFFICES ASSUME NEW u \in RequestId
             PROVE  /\ requests'[u].signedBlobHash # NoHash
                       => requests'[u].state \notin {"NONE", "CREATED", "AUTHORIZED"}
                    /\ requests'[u].signedBlobHash # NoHash /\ now' <= requests'[u].expiresAt + SETTLEMENT_GRACE
                       => requests'[u].state \in {"SIGNED", "BROADCAST", "SETTLED"}
    BY DEF BlobIsSigned, PublishedStaysReserved
<1>1. CASE requests'[u] = requests[u]
  BY <1>0, <1>1 DEF PublishedInv, BlobIsSigned, PublishedStaysReserved
<1>2. CASE \E t \in TreasuryId : OpensRequest(u, t) \/ \E a \in Drops : Reserves(u, t, a)
  BY <1>2 DEF OpensRequest, Reserves, PublishedInv, BlobIsSigned
<1>3. CASE Advances(u)
  BY <1>3 DEF Advances
<1>4. CASE \E t \in TreasuryId : Closes(u, t)
  BY <1>0, <1>4 DEF Closes, SameTerms, PublishedInv, BlobIsSigned
<1> QED
  <2>1. ASSUME NEW r \in RequestId, OtherRequestsKept(r), r # u PROVE requests'[u] = requests[u]
    BY <2>1 DEF OtherRequestsKept
  <2>2. \/ requests'[u] = requests[u]
        \/ \E t \in TreasuryId : OpensRequest(u, t) \/ \E a \in Drops : Reserves(u, t, a)
        \/ Advances(u)
        \/ \E t \in TreasuryId : Closes(u, t)
    <3>1. CASE UNCHANGED requests
      BY <3>1
    <3>2. ASSUME NEW r \in RequestId, NEW t \in TreasuryId, OpensRequest(r, t) \/ Closes(r, t)
          PROVE  requests'[u] = requests[u] \/ OpensRequest(u, t) \/ Closes(u, t)
      <4>1. OtherRequestsKept(r)
        BY <3>2 DEF OpensRequest, Closes
      <4> QED
        BY <2>1, <3>2, <4>1
    <3>3. ASSUME NEW r \in RequestId, NEW t \in TreasuryId, NEW a \in Drops, Reserves(r, t, a)
          PROVE  requests'[u] = requests[u] \/ Reserves(u, t, a)
      <4>1. OtherRequestsKept(r)
        BY <3>3 DEF Reserves
      <4> QED
        BY <2>1, <3>3, <4>1
    <3>4. CASE \E r \in RequestId : Advances(r)
      BY <2>1, <3>4, Zenon DEF Advances
    <3>5. UNCHANGED requests
          \/ (\E r \in RequestId, t \in TreasuryId : OpensRequest(r, t) \/ Closes(r, t))
          \/ (\E r \in RequestId, t \in TreasuryId, a \in Drops : Reserves(r, t, a))
          \/ (\E r \in RequestId : Advances(r))
      BY DEF StepKind, Idles, OpensTreasury, PublishesPolicy, AdoptsPolicy, EditsTreasury
    <3> QED
      BY <3>1, <3>2, <3>3, <3>4, <3>5
  <2> QED
    BY <1>1, <1>2, <1>3, <1>4, <2>2

LEMMA NextPublished == PublishedInv /\ [Next]_controllerVars => PublishedInv'
<1> SUFFICES ASSUME PublishedInv, [Next]_controllerVars PROVE PublishedInv'
    OBVIOUS
<1>1. StorageInv'
  BY NextStorage DEF PublishedInv
<1>2. StepKind
  BY <1>1, StepKinds DEF PublishedInv
<1> QED
  BY <1>1, <1>2, StepPublished DEF PublishedInv

(***************************************************************************)
(* No cancellation, refusal or expiry frees the budget of a payment whose  *)
(* blob submitSignedPayment has published before expiresAt plus the        *)
(* settlement grace has passed.                                            *)
(***************************************************************************)
THEOREM PublishedIsReserved == Spec => []PublishedStaysReserved
<1>1. PublishedInv => PublishedStaysReserved
  BY DEF PublishedInv
<1> QED
  BY <1>1, InitPublished, NextPublished, PTL DEF Spec

-----------------------------------------------------------------------------
(* Policies *)

UnopenedIsBlank ==
    /\ \A t \in TreasuryId : ~treasuries[t].exists =>
          treasuries[t].reservedDrops = 0 /\ treasuries[t].pendingPolicyCommitment = NoHash
    /\ \A r \in RequestId : requests[r].state = "NONE" => requests[r].amountDrops = 0

\* createTreasury and requestPolicyUpdate dispatch valid policies only.
DispatchedPoliciesValid ==
    \A i \in 1..Len(instructions) : instructions[i].command \in PolicyCommand =>
       /\ instructions[i].body \in Policy
       /\ validatePolicy(instructions[i].body)
       /\ instructions[i].header.policyCommitment = policyCommitment(instructions[i].body)

PolicyInv ==
    /\ StorageInv
    /\ UnopenedIsBlank
    /\ DispatchedPoliciesValid
    /\ NewestPolicyWins
    /\ LivePolicyPublished
    /\ AmountWithinPublishedCap
    /\ ReservedWithinPublishedCap

LEMMA InitPolicy == Init => PolicyInv
<1> SUFFICES ASSUME Init PROVE PolicyInv
    OBVIOUS
<1>1. treasuryCount = 0 /\ Len(instructions) = 0
  BY DEF Init
<1>2. UnopenedIsBlank /\ AmountWithinPublishedCap
  BY DEF Init, BlankTreasury, BlankRequest, UnopenedIsBlank, AmountWithinPublishedCap
<1>3. NewestPolicyWins /\ LivePolicyPublished /\ ReservedWithinPublishedCap /\ DispatchedPoliciesValid
  BY <1>1 DEF NewestPolicyWins, LivePolicyPublished, ReservedWithinPublishedCap, DispatchedPoliciesValid
<1> QED
  BY <1>2, <1>3, InitStorage DEF PolicyInv

\* Instructions are never removed or rewritten.
LEMMA InstructionsGrow ==
    ASSUME StorageInv, StepKind
    PROVE  /\ Len(instructions) \in Nat /\ Len(instructions') \in {Len(instructions), Len(instructions) + 1}
           /\ \A i \in 1..Len(instructions) : instructions'[i] = instructions[i]
<1>1. instructions \in Seq(Instruction)
  BY Storage
<1>2. instructions' = instructions \/ \E x \in Instruction : instructions' = Append(instructions, x)
  BY SMTT(60) DEF StepKind, Idles, OpensTreasury, PublishesPolicy, AdoptsPolicy, EditsTreasury, OpensRequest,
     Closes, Reserves, Advances, NoPolicyDispatched, DispatchesPolicy
<1> QED
  BY <1>1, <1>2

LEMMA PublishedPolicyStays ==
    ASSUME StorageInv, StepKind, NEW t, NEW i \in 1..Len(instructions), PolicyInstruction(i, t)
    PROVE  /\ i \in 1..Len(instructions') /\ PolicyInstruction(i, t)'
           /\ instructions'[i] = instructions[i]
BY InstructionsGrow DEF PolicyInstruction

LEMMA NoPolicyKeepsNewest ==
    ASSUME StorageInv, NoPolicyDispatched, NEW j \in 1..Len(instructions'),
           instructions'[j].command \in PolicyCommand
    PROVE  j \in 1..Len(instructions) /\ instructions'[j] = instructions[j]
<1>1. instructions \in Seq(Instruction)
  BY Storage
<1>2. CASE instructions' = instructions
  BY <1>2
<1>3. ASSUME NEW x \in Instruction, x.command \notin PolicyCommand, instructions' = Append(instructions, x)
      PROVE  j \in 1..Len(instructions) /\ instructions'[j] = instructions[j]
  <2>1. Len(instructions') = Len(instructions) + 1 /\ instructions'[Len(instructions) + 1] = x
    BY <1>1, <1>3
  <2>2. j # Len(instructions) + 1
    BY <1>3, <2>1
  <2> QED
    BY <1>1, <1>3, <2>1, <2>2
<1> QED
  BY <1>2, <1>3 DEF NoPolicyDispatched

\* A step that dispatches no policy and moves none.
PoliciesKept ==
    /\ NoPolicyDispatched
    /\ treasuryCount' = treasuryCount
    /\ \A t \in TreasuryId : SamePolicy(treasuries'[t], treasuries[t])

LEMMA PolicyFrame ==
    ASSUME PolicyInv, StorageInv', StepKind, PoliciesKept
    PROVE  DispatchedPoliciesValid' /\ NewestPolicyWins' /\ LivePolicyPublished'
<1>0. StorageInv /\ \A t \in 1..treasuryCount : t \in TreasuryId
  BY DEF PolicyInv, StorageInv, TypeOK, TreasuryId
<1>1. DispatchedPoliciesValid'
  BY <1>0, NoPolicyKeepsNewest DEF PolicyInv, DispatchedPoliciesValid, PoliciesKept, validatePolicy
<1>2. ASSUME NEW t \in 1..treasuryCount'
      PROVE  /\ t \in 1..treasuryCount /\ t \in TreasuryId
             /\ SamePolicy(treasuries'[t], treasuries[t])
  BY <1>0, <1>2 DEF PoliciesKept
<1>3. NewestPolicyWins'
  <2> SUFFICES ASSUME NEW t \in 1..treasuryCount'
               PROVE  \E i \in 1..Len(instructions') :
                         /\ PolicyInstruction(i, t)'
                         /\ \A j \in (i + 1)..Len(instructions') : ~PolicyInstruction(j, t)'
                         /\ instructions'[i].header.policyCommitment =
                               IF treasuries'[t].pendingPolicyCommitment = NoHash
                               THEN treasuries'[t].policyCommitment
                               ELSE treasuries'[t].pendingPolicyCommitment
      BY DEF NewestPolicyWins
  <2>1. PICK i \in 1..Len(instructions) :
           /\ PolicyInstruction(i, t)
           /\ \A j \in (i + 1)..Len(instructions) : ~PolicyInstruction(j, t)
           /\ instructions[i].header.policyCommitment =
                 IF treasuries[t].pendingPolicyCommitment = NoHash
                 THEN treasuries[t].policyCommitment
                 ELSE treasuries[t].pendingPolicyCommitment
    BY <1>2 DEF PolicyInv, NewestPolicyWins
  <2>2. /\ i \in 1..Len(instructions') /\ PolicyInstruction(i, t)'
        /\ instructions'[i] = instructions[i]
    BY <1>0, <2>1, PublishedPolicyStays
  <2>3. ASSUME NEW j \in (i + 1)..Len(instructions'), PolicyInstruction(j, t)' PROVE FALSE
    <3>1. j \in 1..Len(instructions') /\ instructions'[j].command \in PolicyCommand
      BY <2>3 DEF PolicyInstruction
    <3>2. j \in 1..Len(instructions) /\ instructions'[j] = instructions[j]
      BY <1>0, <3>1, NoPolicyKeepsNewest DEF PoliciesKept
    <3>3. j \in (i + 1)..Len(instructions) /\ PolicyInstruction(j, t)
      BY <2>3, <3>2 DEF PolicyInstruction
    <3> QED
      BY <2>1, <3>3
  <2> QED
    BY <1>2, <2>1, <2>2, <2>3 DEF SamePolicy
<1>4. LivePolicyPublished'
  <2> SUFFICES ASSUME NEW t \in 1..treasuryCount'
               PROVE  /\ validatePolicy(treasuries'[t].policy)
                      /\ treasuries'[t].policyCommitment = policyCommitment(treasuries'[t].policy)
                      /\ \E i \in 1..Len(instructions') :
                            PolicyInstruction(i, t)' /\ instructions'[i].body = treasuries'[t].policy
      BY DEF LivePolicyPublished, validatePolicy
  <2>1. PICK i \in 1..Len(instructions) : PolicyInstruction(i, t) /\ instructions[i].body = treasuries[t].policy
    BY <1>2 DEF PolicyInv, LivePolicyPublished
  <2> QED
    BY <1>0, <1>2, <2>1, PublishedPolicyStays DEF PolicyInv, LivePolicyPublished, SamePolicy
<1> QED
  BY <1>1, <1>3, <1>4

\* The instruction that publishes policy p for treasury t is the newest one.
LEMMA DispatchedPolicy ==
    ASSUME StorageInv, NEW t, NEW p, DispatchesPolicy(t, p), NEW n, n = Len(instructions) + 1
    PROVE  /\ Len(instructions) \in Nat /\ Len(instructions') = n
           /\ instructions'[n].command \in PolicyCommand /\ instructions'[n].header.treasuryId = t
           /\ instructions'[n].header.policyCommitment = policyCommitment(p)
           /\ instructions'[n].body = p
           /\ \A i \in 1..Len(instructions) : instructions'[i] = instructions[i]
<1>1. PICK x \in Instruction :
         /\ x.command \in PolicyCommand /\ x.header.treasuryId = t
         /\ x.header.policyCommitment = policyCommitment(p) /\ x.body = p
         /\ instructions' = Append(instructions, x)
  BY DEF DispatchesPolicy
<1>2. instructions \in Seq(Instruction)
  BY Storage
<1>3. /\ Len(instructions) \in Nat /\ Len(instructions') = n /\ instructions'[n] = x
      /\ \A i \in 1..Len(instructions) : instructions'[i] = instructions[i]
  BY <1>1, <1>2
<1> QED
  BY <1>1, <1>3

\* createTreasury and requestPolicyUpdate.
LEMMA PolicyPublished ==
    ASSUME PolicyInv, StorageInv', NEW t \in TreasuryId, NEW p \in Policy,
           OpensTreasury(t, p) \/ PublishesPolicy(t, p)
    PROVE  DispatchedPoliciesValid' /\ NewestPolicyWins' /\ LivePolicyPublished'
<1>2. PICK n : n = Len(instructions) + 1
  OBVIOUS
<1>0. /\ StorageInv /\ DispatchesPolicy(t, p) /\ validatePolicy(p)
      /\ StepKind
  BY DEF PolicyInv, OpensTreasury, PublishesPolicy, StepKind
<1>1. /\ Len(instructions) \in Nat /\ Len(instructions') = n
      /\ instructions'[n].command \in PolicyCommand /\ instructions'[n].header.treasuryId = t
      /\ instructions'[n].header.policyCommitment = policyCommitment(p)
      /\ instructions'[n].body = p
      /\ \A i \in 1..Len(instructions) : instructions'[i] = instructions[i]
  BY <1>0, <1>2, DispatchedPolicy
<1>3. n \in 1..Len(instructions') /\ PolicyInstruction(n, t)'
  BY <1>1, <1>2 DEF PolicyInstruction
<1>4. ASSUME NEW u \in 1..treasuryCount', u # t
      PROVE  u \in 1..treasuryCount /\ u \in TreasuryId /\ treasuries'[u] = treasuries[u]
  <2>1. u \in TreasuryId
    BY <1>4 DEF StorageInv, TypeOK, TreasuryId
  <2>2. u \in 1..treasuryCount
    BY <1>4, <1>0, Storage DEF OpensTreasury, PublishesPolicy
  <2> QED
    BY <1>4, <2>1, <2>2 DEF OpensTreasury, PublishesPolicy, OtherTreasuriesKept
<1>5. DispatchedPoliciesValid'
  <2> SUFFICES ASSUME NEW i \in 1..Len(instructions'), instructions'[i].command \in PolicyCommand
               PROVE  /\ instructions'[i].body \in Policy
                      /\ validatePolicy(instructions'[i].body)
                      /\ instructions'[i].header.policyCommitment = policyCommitment(instructions'[i].body)
      BY DEF DispatchedPoliciesValid, validatePolicy
  <2>1. CASE i = n
    BY <1>0, <1>1, <2>1
  <2>2. CASE i # n
    <3>1. i \in 1..Len(instructions)
      BY <1>1, <1>2, <2>2
    <3> QED
      BY <1>1, <3>1 DEF PolicyInv, DispatchedPoliciesValid
  <2> QED
    BY <2>1, <2>2
<1>6. NewestPolicyWins'
  <2> SUFFICES ASSUME NEW u \in 1..treasuryCount'
               PROVE  \E i \in 1..Len(instructions') :
                         /\ PolicyInstruction(i, u)'
                         /\ \A j \in (i + 1)..Len(instructions') : ~PolicyInstruction(j, u)'
                         /\ instructions'[i].header.policyCommitment =
                               IF treasuries'[u].pendingPolicyCommitment = NoHash
                               THEN treasuries'[u].policyCommitment
                               ELSE treasuries'[u].pendingPolicyCommitment
      BY DEF NewestPolicyWins
  <2>1. CASE u = t
    <3>1. policyCommitment(p) =
             IF treasuries'[t].pendingPolicyCommitment = NoHash
             THEN treasuries'[t].policyCommitment
             ELSE treasuries'[t].pendingPolicyCommitment
      <4>1. CASE OpensTreasury(t, p)
        <5>1. ~treasuries[t].exists
          BY <1>0, <4>1, Storage DEF OpensTreasury, StorageInv, IdsAndNonces
        <5>2. treasuries[t].pendingPolicyCommitment = NoHash
          BY <5>1 DEF PolicyInv, UnopenedIsBlank
        <5> QED
          BY <4>1, <5>2 DEF OpensTreasury
      <4>2. CASE PublishesPolicy(t, p)
        <5>1. policyCommitment(p) # NoHash
          BY HashTypes
        <5> QED
          BY <4>2, <5>1 DEF PublishesPolicy
      <4> QED
        BY <4>1, <4>2
    <3>2. \A j \in (n + 1)..Len(instructions') : FALSE
      BY <1>1, <1>2
    <3> QED
      BY <1>1, <1>3, <2>1, <3>1, <3>2
  <2>2. CASE u # t
    <3>1. PICK i \in 1..Len(instructions) :
             /\ PolicyInstruction(i, u)
             /\ \A j \in (i + 1)..Len(instructions) : ~PolicyInstruction(j, u)
             /\ instructions[i].header.policyCommitment =
                   IF treasuries[u].pendingPolicyCommitment = NoHash
                   THEN treasuries[u].policyCommitment
                   ELSE treasuries[u].pendingPolicyCommitment
      BY <1>4, <2>2 DEF PolicyInv, NewestPolicyWins
    <3>2. /\ i \in 1..Len(instructions') /\ PolicyInstruction(i, u)'
          /\ instructions'[i] = instructions[i]
      BY <1>0, <3>1, PublishedPolicyStays
    <3>3. ASSUME NEW j \in (i + 1)..Len(instructions'), PolicyInstruction(j, u)' PROVE FALSE
      <4>1. j # n
        BY <1>1, <2>2, <3>3 DEF PolicyInstruction
      <4>2. j \in (i + 1)..Len(instructions) /\ j \in 1..Len(instructions)
        BY <1>1, <1>2, <3>3, <4>1
      <4>3. PolicyInstruction(j, u)
        BY <1>1, <3>3, <4>2 DEF PolicyInstruction
      <4> QED
        BY <3>1, <4>2, <4>3
    <3> QED
      BY <1>4, <2>2, <3>1, <3>2, <3>3
  <2> QED
    BY <2>1, <2>2
<1>7. LivePolicyPublished'
  <2> SUFFICES ASSUME NEW u \in 1..treasuryCount'
               PROVE  /\ validatePolicy(treasuries'[u].policy)
                      /\ treasuries'[u].policyCommitment = policyCommitment(treasuries'[u].policy)
                      /\ \E i \in 1..Len(instructions') :
                            PolicyInstruction(i, u)' /\ instructions'[i].body = treasuries'[u].policy
      BY DEF LivePolicyPublished, validatePolicy
  <2>1. CASE u = t /\ OpensTreasury(t, p)
    BY <1>0, <1>1, <1>3, <2>1 DEF OpensTreasury
  <2>2. CASE u # t \/ PublishesPolicy(t, p)
    <3>1. /\ u \in 1..treasuryCount
          /\ treasuries'[u].policy = treasuries[u].policy
          /\ treasuries'[u].policyCommitment = treasuries[u].policyCommitment
      BY <1>4, <2>2 DEF PublishesPolicy
    <3>2. PICK i \in 1..Len(instructions) : PolicyInstruction(i, u) /\ instructions[i].body = treasuries[u].policy
      BY <3>1 DEF PolicyInv, LivePolicyPublished
    <3> QED
      BY <1>0, <3>1, <3>2, PublishedPolicyStays DEF PolicyInv, LivePolicyPublished
  <2> QED
    BY <2>1, <2>2
<1> QED
  BY <1>5, <1>6, <1>7

\* confirmPolicy: the policy with the pending commitment is the one dispatched last.
LEMMA PolicyAdopted ==
    ASSUME PolicyInv, StorageInv', NEW t \in TreasuryId, NEW p \in Policy, AdoptsPolicy(t, p)
    PROVE  DispatchedPoliciesValid' /\ NewestPolicyWins' /\ LivePolicyPublished'
<1>0. StorageInv /\ instructions' = instructions /\ treasuryCount' = treasuryCount
  BY DEF PolicyInv, AdoptsPolicy
<1>1. \A u \in 1..treasuryCount : u # t => treasuries'[u] = treasuries[u]
  BY <1>0 DEF AdoptsPolicy, OtherTreasuriesKept, StorageInv, TypeOK, TreasuryId
<1>2. t \in 1..treasuryCount
  BY <1>0, Storage DEF AdoptsPolicy, StorageInv, IdsAndNonces, TreasuryId
<1>3. policyCommitment(p) # NoHash
  BY HashTypes
<1>4. PICK i \in 1..Len(instructions) :
         /\ PolicyInstruction(i, t)
         /\ \A j \in (i + 1)..Len(instructions) : ~PolicyInstruction(j, t)
         /\ instructions[i].header.policyCommitment = policyCommitment(p)
  BY <1>2, <1>3 DEF PolicyInv, NewestPolicyWins, AdoptsPolicy
<1>5. instructions[i].body = p /\ validatePolicy(p)
  <2>1. /\ validatePolicy(instructions[i].body)
        /\ policyCommitment(instructions[i].body) = policyCommitment(p)
    BY <1>4 DEF PolicyInv, DispatchedPoliciesValid, PolicyInstruction
  <2> QED
    BY <2>1, KeccakInjective DEF policyCommitment
<1>6. DispatchedPoliciesValid'
  BY <1>0 DEF PolicyInv, DispatchedPoliciesValid, validatePolicy
<1>7. NewestPolicyWins'
  <2>0. /\ instructions' = instructions /\ treasuryCount' = treasuryCount
        /\ \A j, u : PolicyInstruction(j, u)' = PolicyInstruction(j, u)
    BY <1>0 DEF PolicyInstruction
  <2> SUFFICES ASSUME NEW u \in 1..treasuryCount
               PROVE  \E k \in 1..Len(instructions) :
                         /\ PolicyInstruction(k, u)
                         /\ \A j \in (k + 1)..Len(instructions) : ~PolicyInstruction(j, u)
                         /\ instructions[k].header.policyCommitment =
                               IF treasuries'[u].pendingPolicyCommitment = NoHash
                               THEN treasuries'[u].policyCommitment
                               ELSE treasuries'[u].pendingPolicyCommitment
    BY <2>0, Zenon DEF NewestPolicyWins
  <2>1. CASE u = t
    <3>1. /\ treasuries'[u].policyCommitment = policyCommitment(p)
          /\ treasuries'[u].pendingPolicyCommitment = NoHash
      BY <2>1 DEF AdoptsPolicy
    <3> QED
      BY <1>4, <2>1, <3>1
  <2>2. CASE u # t
    <3>1. treasuries'[u] = treasuries[u]
      BY <1>1, <2>2
    <3> QED
      BY <3>1, Zenon DEF PolicyInv, NewestPolicyWins
  <2> QED
    BY <2>1, <2>2
<1>8. LivePolicyPublished'
  BY <1>0, <1>1, <1>4, <1>5 DEF PolicyInv, LivePolicyPublished, AdoptsPolicy, PolicyInstruction, validatePolicy
<1> QED
  BY <1>6, <1>7, <1>8

LEMMA StepUnopened ==
    ASSUME PolicyInv, StorageInv', StepKind
    PROVE  UnopenedIsBlank'
<1>1. ASSUME NEW t \in TreasuryId, ~treasuries'[t].exists
      PROVE  treasuries'[t].reservedDrops = 0 /\ treasuries'[t].pendingPolicyCommitment = NoHash
  <2>1. treasuries'[t] = treasuries[t] \/ SamePolicy(treasuries'[t], treasuries[t])
    BY <1>1 DEF StepKind, Idles, OpensTreasury, PublishesPolicy, AdoptsPolicy, EditsTreasury,
       OpensRequest, Closes, Reserves, Advances, OtherTreasuriesKept
  <2>2. ~treasuries[t].exists
    BY <1>1, <2>1 DEF SamePolicy
  <2>3. \A r \in RequestId : requests[r].state # "NONE" => requests[r].treasuryId # t
    BY <2>2 DEF PolicyInv, StorageInv, IdsAndNonces
  <2>4. treasuries'[t].reservedDrops = treasuries[t].reservedDrops
    BY <1>1, <2>2, <2>3, SMTT(60) DEF StepKind, Idles, OpensTreasury, PublishesPolicy, AdoptsPolicy,
       EditsTreasury, OpensRequest, Closes, Reserves, Advances, OtherTreasuriesKept
  <2> QED
    BY <2>1, <2>2, <2>4 DEF PolicyInv, UnopenedIsBlank, SamePolicy
<1>2. ASSUME NEW r \in RequestId, requests'[r].state = "NONE"
      PROVE  requests'[r].amountDrops = 0
  <2>1. requests'[r] = requests[r]
    BY <1>2 DEF StepKind, Idles, OpensTreasury, PublishesPolicy, AdoptsPolicy, EditsTreasury,
       OpensRequest, Closes, Reserves, Advances, OtherRequestsKept
  <2> QED
    BY <1>2, <2>1 DEF PolicyInv, UnopenedIsBlank
<1> QED
  BY <1>1, <1>2 DEF UnopenedIsBlank

LEMMA StepAmount ==
    ASSUME PolicyInv, StorageInv', StepKind
    PROVE  AmountWithinPublishedCap'
<1> SUFFICES ASSUME NEW r \in RequestId, requests'[r].amountDrops # 0
             PROVE  \E i \in 1..Len(instructions') :
                       /\ PolicyInstruction(i, requests[r].treasuryId)'
                       /\ requests'[r].amountDrops <= instructions'[i].body.maxPerPaymentDrops
    BY DEF AmountWithinPublishedCap, PolicyInstruction
<1>0. StorageInv
  BY DEF PolicyInv
<1>1. CASE /\ requests'[r].amountDrops = requests[r].amountDrops
           /\ requests'[r].treasuryId = requests[r].treasuryId
  <2>1. PICK i \in 1..Len(instructions) :
           /\ PolicyInstruction(i, requests[r].treasuryId)
           /\ requests[r].amountDrops <= instructions[i].body.maxPerPaymentDrops
    BY <1>1 DEF PolicyInv, AmountWithinPublishedCap
  <2>2. /\ i \in 1..Len(instructions') /\ instructions'[i] = instructions[i]
    BY <1>0, <2>1, InstructionsGrow
  <2> QED
    BY <1>1, <2>1, <2>2 DEF PolicyInstruction
<1>2. ASSUME NEW t \in TreasuryId, NEW a \in Drops, Reserves(r, t, a)
      PROVE  \E i \in 1..Len(instructions') :
                /\ PolicyInstruction(i, requests[r].treasuryId)'
                /\ requests'[r].amountDrops <= instructions'[i].body.maxPerPaymentDrops
  <2>1. t \in 1..treasuryCount
    BY <1>0, <1>2 DEF Reserves, StorageInv, IdsAndNonces
  <2>2. PICK i \in 1..Len(instructions) : PolicyInstruction(i, t) /\ instructions[i].body = treasuries[t].policy
    BY <2>1 DEF PolicyInv, LivePolicyPublished
  <2>3. i \in 1..Len(instructions') /\ instructions'[i] = instructions[i]
    BY <1>0, <2>2, InstructionsGrow
  <2>4. requests'[r].treasuryId = t /\ requests'[r].amountDrops <= treasuries[t].policy.maxPerPaymentDrops
    BY <1>2 DEF Reserves, withinPolicy
  <2> QED
    BY <2>2, <2>3, <2>4 DEF PolicyInstruction
<1>3. ASSUME NEW t \in TreasuryId, OpensRequest(r, t)
      PROVE  FALSE
  BY <1>3 DEF OpensRequest, PolicyInv, UnopenedIsBlank
<1> QED
  BY <1>1, <1>2, <1>3, ZenonT(60) DEF StepKind, Idles, OpensTreasury, PublishesPolicy, AdoptsPolicy,
     EditsTreasury, OpensRequest, Closes, Reserves, Advances, OtherRequestsKept, SameTerms

LEMMA StepReserved ==
    ASSUME PolicyInv, StorageInv', StepKind
    PROVE  ReservedWithinPublishedCap'
<1> SUFFICES ASSUME NEW t \in 1..treasuryCount'
             PROVE  \E i \in 1..Len(instructions') :
                       /\ PolicyInstruction(i, t)'
                       /\ treasuries'[t].reservedDrops <= instructions'[i].body.maxTotalDrops
    BY DEF ReservedWithinPublishedCap, PolicyInstruction
<1>0. StorageInv /\ t \in TreasuryId
  BY DEF PolicyInv, StorageInv, TypeOK, TreasuryId
<1>1. CASE t \in 1..treasuryCount /\ treasuries'[t].reservedDrops <= treasuries[t].reservedDrops
  <2>1. PICK i \in 1..Len(instructions) :
           PolicyInstruction(i, t) /\ treasuries[t].reservedDrops <= instructions[i].body.maxTotalDrops
    BY <1>1 DEF PolicyInv, ReservedWithinPublishedCap
  <2>2. i \in 1..Len(instructions') /\ instructions'[i] = instructions[i]
    BY <1>0, <2>1, InstructionsGrow
  <2>3. /\ treasuries'[t].reservedDrops \in Nat /\ treasuries[t].reservedDrops \in Nat
        /\ instructions[i].body.maxTotalDrops \in Nat
    <3>1. instructions[i].body \in Policy
      BY <2>1 DEF PolicyInv, DispatchedPoliciesValid, PolicyInstruction
    <3>2. treasuries'[t].reservedDrops \in Nat /\ treasuries[t].reservedDrops \in Nat
      BY <1>0 DEF StorageInv, TypeOK, TreasuryRecord
    <3> QED
      BY <3>1, <3>2 DEF PolicyType
  <2>4. treasuries'[t].reservedDrops <= instructions'[i].body.maxTotalDrops
    BY <1>1, <2>1, <2>2, <2>3
  <2> QED
    BY <2>1, <2>2, <2>4 DEF PolicyInstruction
<1>2. ASSUME NEW r \in RequestId, NEW a \in Drops, Reserves(r, t, a)
      PROVE  \E i \in 1..Len(instructions') :
                /\ PolicyInstruction(i, t)'
                /\ treasuries'[t].reservedDrops <= instructions'[i].body.maxTotalDrops
  <2>1. t \in 1..treasuryCount
    BY <1>0, <1>2 DEF Reserves, StorageInv, IdsAndNonces
  <2>2. PICK i \in 1..Len(instructions) : PolicyInstruction(i, t) /\ instructions[i].body = treasuries[t].policy
    BY <2>1 DEF PolicyInv, LivePolicyPublished
  <2>3. i \in 1..Len(instructions') /\ instructions'[i] = instructions[i]
    BY <1>0, <2>2, InstructionsGrow
  <2>4. treasuries'[t].reservedDrops <= treasuries[t].policy.maxTotalDrops
    BY <1>2 DEF Reserves, withinPolicy
  <2> QED
    BY <2>2, <2>3, <2>4 DEF PolicyInstruction
<1>3. ASSUME NEW p \in Policy, OpensTreasury(t, p)
      PROVE  \E i \in 1..Len(instructions') :
                /\ PolicyInstruction(i, t)'
                /\ treasuries'[t].reservedDrops <= instructions'[i].body.maxTotalDrops
  <2>1. ~treasuries[t].exists
    BY <1>0, <1>3, Storage DEF OpensTreasury, StorageInv, IdsAndNonces
  <2>2. treasuries'[t].reservedDrops = 0
    BY <1>0, <1>3, <2>1 DEF OpensTreasury, PolicyInv, UnopenedIsBlank
  <2>3. PICK n : n = Len(instructions) + 1
    OBVIOUS
  <2>4. /\ Len(instructions) \in Nat /\ Len(instructions') = n /\ instructions'[n].body = p
        /\ instructions'[n].command \in PolicyCommand /\ instructions'[n].header.treasuryId = t
    BY <1>0, <1>3, <2>3, DispatchedPolicy DEF OpensTreasury
  <2>5. n \in 1..Len(instructions') /\ 0 <= p.maxTotalDrops
    BY <2>3, <2>4 DEF PolicyType
  <2> QED
    BY <2>2, <2>4, <2>5 DEF PolicyInstruction
<1>4. treasuries[t].reservedDrops \in Nat /\ \A r \in RequestId : requests[r].amountDrops \in Nat
  BY <1>0 DEF StorageInv, TypeOK, TreasuryRecord, RequestRecord
<1>5. CASE \E u \in TreasuryId, p \in Policy : OpensTreasury(u, p)
  <2>1. PICK u \in TreasuryId, p \in Policy : OpensTreasury(u, p)
    BY <1>5
  <2>2. CASE u = t
    BY <1>3, <2>1, <2>2
  <2>3. CASE u # t
    <3>1. t \in 1..treasuryCount
      BY <1>0, <2>1, <2>3, Storage DEF OpensTreasury
    <3> QED
      BY <1>0, <1>1, <1>4, <2>1, <2>3, <3>1 DEF OpensTreasury, OtherTreasuriesKept
  <2> QED
    BY <2>2, <2>3
<1>6. CASE ~ \E u \in TreasuryId, p \in Policy : OpensTreasury(u, p)
  <2>1. treasuryCount' = treasuryCount
    BY <1>6 DEF StepKind, Idles, PublishesPolicy, AdoptsPolicy, EditsTreasury, OpensRequest, Closes,
       Reserves, Advances
  <2>2. CASE \E r \in RequestId, a \in Drops : Reserves(r, t, a)
    BY <1>2, <2>2
  <2>3. CASE ~ \E r \in RequestId, a \in Drops : Reserves(r, t, a)
    <3>1. treasuries'[t].reservedDrops <= treasuries[t].reservedDrops
      BY <1>0, <1>4, <1>6, <2>3 DEF StepKind, Idles, PublishesPolicy, AdoptsPolicy, EditsTreasury,
         OpensRequest, Closes, Reserves, Advances, OtherTreasuriesKept
    <3> QED
      BY <1>1, <2>1, <3>1
  <2> QED
    BY <2>2, <2>3
<1> QED
  BY <1>5, <1>6

LEMMA StepPolicy ==
    ASSUME PolicyInv, StorageInv', StepKind
    PROVE  DispatchedPoliciesValid' /\ NewestPolicyWins' /\ LivePolicyPublished'
<1>1. CASE \E t \in TreasuryId, p \in Policy : OpensTreasury(t, p) \/ PublishesPolicy(t, p)
  BY <1>1, PolicyPublished
<1>2. CASE \E t \in TreasuryId, p \in Policy : AdoptsPolicy(t, p)
  BY <1>2, PolicyAdopted
<1>3. CASE \/ Idles \/ \E t \in TreasuryId : EditsTreasury(t)
           \/ \E r \in RequestId, t \in TreasuryId : OpensRequest(r, t) \/ Closes(r, t)
           \/ \E r \in RequestId, t \in TreasuryId, a \in Drops : Reserves(r, t, a)
           \/ \E r \in RequestId : Advances(r)
  <2>1. PoliciesKept
    BY <1>3 DEF PoliciesKept, SamePolicy, NoPolicyDispatched, Idles, EditsTreasury, OpensRequest,
       Closes, Reserves, Advances, OtherTreasuriesKept
  <2> QED
    BY <2>1, PolicyFrame
<1> QED
  BY <1>1, <1>2, <1>3 DEF StepKind

LEMMA NextPolicy == PolicyInv /\ [Next]_controllerVars => PolicyInv'
<1> SUFFICES ASSUME PolicyInv, [Next]_controllerVars PROVE PolicyInv'
    OBVIOUS
<1>1. StorageInv'
  BY NextStorage DEF PolicyInv
<1>2. StepKind
  BY <1>1, StepKinds DEF PolicyInv
<1> QED
  BY <1>1, <1>2, StepUnopened, StepAmount, StepReserved, StepPolicy DEF PolicyInv

(***************************************************************************)
(* confirmPolicy: of the policies dispatched for a treasury the newest is  *)
(* pending or live, whatever acknowledgements are replayed.                *)
(***************************************************************************)
THEOREM NewestPolicyPrevails == Spec => []NewestPolicyWins
<1>1. PolicyInv => NewestPolicyWins
  BY DEF PolicyInv
<1> QED
  BY <1>1, InitPolicy, NextPolicy, PTL DEF Spec

(***************************************************************************)
(* No enclave installs limits of its own choosing: the live policy is one  *)
(* that passed _validatePolicy and that the treasury's owner dispatched.   *)
(***************************************************************************)
THEOREM LivePolicyIsPublished == Spec => []LivePolicyPublished
<1>1. PolicyInv => LivePolicyPublished
  BY DEF PolicyInv
<1> QED
  BY <1>1, InitPolicy, NextPolicy, PTL DEF Spec

(***************************************************************************)
(* submitAuthorization: whatever amount an enclave signs, what it reserves *)
(* is within the per-payment cap of a policy published for that treasury.  *)
(***************************************************************************)
THEOREM AmountIsWithinPublishedCap == Spec => []AmountWithinPublishedCap
<1>1. PolicyInv => AmountWithinPublishedCap
  BY DEF PolicyInv
<1> QED
  BY <1>1, InitPolicy, NextPolicy, PTL DEF Spec

(***************************************************************************)
(* What a treasury has reserved, over any number of payments and policy    *)
(* updates in flight, is within the cumulative cap of one published policy.*)
(***************************************************************************)
THEOREM ReservedIsWithinPublishedCap == Spec => []ReservedWithinPublishedCap
<1>1. PolicyInv => ReservedWithinPublishedCap
  BY DEF PolicyInv
<1> QED
  BY <1>1, InitPolicy, NextPolicy, PTL DEF Spec
=============================================================================
