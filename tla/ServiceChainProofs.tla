------------------------- MODULE ServiceChainProofs -------------------------
(***************************************************************************)
(* The two modules that run the controller with the log of its events, the *)
(* settlement window and the result relay.                                 *)
(*                                                                         *)
(* The window: when the budget of a published payment is released the      *)
(* payment is dead, for any windows, pace, skew and grace period that      *)
(* satisfy WindowAssumption.  The argument is about one quantity: when, at *)
(* the slowest pace, the ledger a payment must be in by will have closed.  *)
(* Closing ledgers never moves it later, and when the payment was signed   *)
(* no later than the request's deadline it lies within the grace period.   *)
(*                                                                         *)
(* The relay: what it handles, sends and records was announced by the      *)
(* controller, because the log and the instructions only grow and an event *)
(* that dispatches names an instruction that is there.                     *)
(***************************************************************************)
EXTENDS SettlementWindow, ResultRelay, SequenceTheorems, WellFoundedInduction, TLAPS

USE ConstantsAssumption, WindowAssumption

\* The fields of struct PaymentRequest, and a value that has them all.
Fields == {"treasuryId", "nonce", "expiresAt", "payloadHash", "memoRef", "amountDrops",
           "destinationHash", "expectedTxId", "signedBlobHash", "xrplTxId", "state"}
Complete(q) == q = [f \in Fields |-> q[f]]

RequestsComplete ==
    /\ requests = [r \in RequestId |-> requests[r]]
    /\ \A r \in RequestId : Complete(requests[r]) /\ requests[r].expiresAt \in Nat

ClocksAgree ==
    /\ now \in 0..MaxTime
    /\ closedAt \in 0..now
    /\ now <= closedAt + CloseSeconds
    /\ ledger \in Nat /\ ledger >= 1 /\ ledger <= closedAt + 1
    /\ readLedger \in [RequestId -> 0..ledger]

BlobsSigned ==
    /\ landed \subseteq blobs
    /\ \A b \in blobs : /\ b.request \in RequestId /\ b.lastLedger \in Int
                        /\ readLedger[b.request] # 0 /\ b.lastLedger > readLedger[b.request]
    /\ \A r \in RequestId : Published(r) => Signed(r)

\* A published payment is held until its grace period is over.
PublishedHeld ==
    \A r \in RequestId : Published(r) =>
       /\ requests[r].state \notin {"NONE", "CREATED", "AUTHORIZED"}
       /\ Released(r) => now > requests[r].expiresAt + SETTLEMENT_GRACE

\* When, at the slowest pace, the last ledger that may include b will have closed.
DiesAt(b) == closedAt + (b.lastLedger - ledger) * CloseSeconds

\* A payment signed after the deadline is never published.
DiesInTime(b) ==
    LET q == requests[b.request] IN
    \/ DiesAt(b) <= q.expiresAt + SETTLEMENT_GRACE
    \/ now > q.expiresAt /\ ~Published(b.request)

WindowInv ==
    /\ RequestsComplete
    /\ ClocksAgree
    /\ BlobsSigned
    /\ PublishedHeld
    /\ \A b \in blobs : DiesInTime(b)

LEMMA InitWindow == WindowInit => WindowInv
<1> SUFFICES ASSUME WindowInit PROVE WindowInv
    OBVIOUS
<1>0. AllAuthorized
  BY DEF WindowInit
<1>a. PICK a \in XrplAddress, d \in XrplAddress, p \in Policy, s \in Account, c \in Ciphertext,
           amount \in Drops : AllAuthorized!(a, d, p, s, c, amount)
  BY <1>0, Zenon DEF AllAuthorized
<1>1. requests = [r \in RequestId |->
                    [BlankRequest EXCEPT !.treasuryId = 1,
                                         !.nonce = r,
                                         !.expiresAt = p.requestTtlSeconds,
                                         !.payloadHash = Keccak(c),
                                         !.memoRef = memoRef(1, r, r),
                                         !.amountDrops = amount,
                                         !.destinationHash = Keccak(d),
                                         !.state = "AUTHORIZED"]]
  BY <1>a, Zenon
<1>2. ASSUME NEW r \in RequestId
      PROVE  /\ Complete(requests[r]) /\ requests[r].expiresAt = p.requestTtlSeconds
             /\ requests[r].signedBlobHash = NoHash
  <2> DEFINE q == [BlankRequest EXCEPT !.treasuryId = 1,
                                       !.nonce = r,
                                       !.expiresAt = p.requestTtlSeconds,
                                       !.payloadHash = Keccak(c),
                                       !.memoRef = memoRef(1, r, r),
                                       !.amountDrops = amount,
                                       !.destinationHash = Keccak(d),
                                       !.state = "AUTHORIZED"]
  <2>1. Complete(q) /\ q.expiresAt = p.requestTtlSeconds /\ q.signedBlobHash = NoHash
    BY DEF BlankRequest, Complete, Fields
  <2>2. requests[r] = q
    BY <1>1
  <2> HIDE DEF q
  <2> QED
    BY <2>1, <2>2
<1>3. p.requestTtlSeconds \in Nat
  BY DEF PolicyType
<1>4. RequestsComplete
  BY <1>1, <1>2, <1>3 DEF RequestsComplete
<1>5. ClocksAgree
  BY DEF WindowInit, Deployed, ClocksAgree
<1>6. BlobsSigned /\ PublishedHeld
  BY <1>2 DEF WindowInit, BlobsSigned, PublishedHeld, Published
<1> QED
  BY <1>4, <1>5, <1>6 DEF WindowInv, WindowInit

-----------------------------------------------------------------------------
(* Steps of the controller *)

\* Request r moves: it is published in time, goes on, or is closed.
Moves(r) ==
    /\ \A s \in RequestId \ {r} : requests'[s] = requests[s]
    /\ requests' = [s \in RequestId |-> requests'[s]]
    /\ Complete(requests'[r]) /\ requests'[r].expiresAt = requests[r].expiresAt
    /\ \/ /\ now <= requests[r].expiresAt /\ Signed(r)
          /\ requests'[r].state = "SIGNED"
       \/ /\ requests'[r].signedBlobHash = requests[r].signedBlobHash
          /\ requests'[r].state \in {"BROADCAST", "SETTLED"}
       \/ /\ requests'[r].signedBlobHash = requests[r].signedBlobHash
          /\ \/ requests[r].state \in {"CREATED", "AUTHORIZED"}
             \/ now > requests[r].expiresAt + SETTLEMENT_GRACE
          /\ requests'[r].state \in {"EXPIRED", "CANCELLED", "FAILED"}
    /\ UNCHANGED <<now, ledger, closedAt, readLedger, blobs, landed>>

LEMMA Written ==
    ASSUME RequestsComplete, NEW r \in RequestId, NEW q, requests' = [requests EXCEPT ![r] = q]
    PROVE  /\ requests'[r] = q
           /\ \A s \in RequestId \ {r} : requests'[s] = requests[s]
           /\ requests' = [s \in RequestId |-> requests'[s]]
BY DEF RequestsComplete

\* reportBroadcast and markSettled write two fields and keep the others.
WritesIdAndState(q, old, id, state) == q = [old EXCEPT !.xrplTxId = id, !.state = state]

LEMMA IdAndStateWritten ==
    ASSUME NEW old, Complete(old), NEW id, NEW state, NEW q, WritesIdAndState(q, old, id, state)
    PROVE  /\ Complete(q) /\ q.state = state
           /\ q.expiresAt = old.expiresAt /\ q.signedBlobHash = old.signedBlobHash
<1>1. PICK f : f = [x \in Fields |-> old[x]]
  OBVIOUS
<1>2. old = f /\ DOMAIN f = Fields
  BY <1>1 DEF Complete
<1>3. q = [x \in Fields |-> IF x = "state" THEN state ELSE IF x = "xrplTxId" THEN id ELSE f[x]]
  BY <1>1, <1>2 DEF WritesIdAndState
<1>4. "state" \in Fields /\ "expiresAt" \in Fields /\ "signedBlobHash" \in Fields
  BY DEF Fields
<1>5. q = [x \in Fields |-> q[x]]
  BY <1>3
<1>6. q["state"] = state /\ q["expiresAt"] = f["expiresAt"] /\ q["signedBlobHash"] = f["signedBlobHash"]
  BY <1>3, <1>4
<1> QED
  BY <1>2, <1>5, <1>6 DEF Complete

\* submitSignedPayment writes three.
WritesBlob(q, old, h) == q = [old EXCEPT !.expectedTxId = h, !.signedBlobHash = h, !.state = "SIGNED"]

LEMMA BlobWritten ==
    ASSUME NEW old, Complete(old), NEW h, NEW q, WritesBlob(q, old, h)
    PROVE  Complete(q) /\ q.state = "SIGNED" /\ q.expiresAt = old.expiresAt
<1>1. PICK f : f = [x \in Fields |-> old[x]]
  OBVIOUS
<1>2. old = f /\ DOMAIN f = Fields
  BY <1>1 DEF Complete
<1>3. q = [x \in Fields |-> IF x = "state" THEN "SIGNED"
                            ELSE IF x \in {"expectedTxId", "signedBlobHash"} THEN h ELSE f[x]]
  BY <1>1, <1>2 DEF WritesBlob
<1>4. "state" \in Fields /\ "expiresAt" \in Fields
  BY DEF Fields
<1>5. q = [x \in Fields |-> q[x]]
  BY <1>3
<1>6. q["state"] = "SIGNED" /\ q["expiresAt"] = f["expiresAt"]
  BY <1>3, <1>4
<1> QED
  BY <1>2, <1>5, <1>6 DEF Complete

LEMMA CloseMoves ==
    ASSUME RequestsComplete, NEW r \in RequestId, NEW state \in {"EXPIRED", "CANCELLED", "FAILED"},
           setRequestState(r, state),
           \/ requests[r].state \in {"CREATED", "AUTHORIZED"}
           \/ now > requests[r].expiresAt + SETTLEMENT_GRACE,
           UNCHANGED <<now, ledger, closedAt, readLedger, blobs, landed>>
    PROVE  Moves(r)
<1> DEFINE q == [requests[r] EXCEPT !.state = state]
<1>1. /\ Complete(q) /\ q.expiresAt = requests[r].expiresAt /\ q.state = state
      /\ q.signedBlobHash = requests[r].signedBlobHash
  BY DEF RequestsComplete, Complete, Fields
<1>2. requests' = [requests EXCEPT ![r] = q]
  BY DEF setRequestState, RequestsComplete
<1> HIDE DEF q
<1> QED
  BY <1>1, <1>2, Written DEF Moves

LEMMA ControllerMoves ==
    ASSUME WindowInv, ControllerCalls
    PROVE  \E r \in RequestId : Moves(r)
<1>0. RequestsComplete /\ UNCHANGED <<ledger, closedAt, readLedger, blobs, landed>>
  BY DEF WindowInv, ControllerCalls
<1>1. ASSUME NEW r \in RequestId, Expire(r) PROVE Moves(r)
  <2>1. /\ setRequestState(r, "EXPIRED") /\ now' = now
        /\ requests[r].state \in {"CREATED", "AUTHORIZED", "SIGNED", "BROADCAST"}
        /\ now > expirableAt(r)
    BY <1>1 DEF Expire, expireRequest
  <2>2. \/ requests[r].state \in {"CREATED", "AUTHORIZED"}
        \/ now > requests[r].expiresAt + SETTLEMENT_GRACE
    BY <2>1 DEF expirableAt
  <2> QED
    BY <1>0, <2>1, <2>2, CloseMoves
<1>2. ASSUME NEW s \in Account, NEW r \in RequestId, Cancel(s, r) PROVE Moves(r)
  BY <1>0, <1>2, CloseMoves DEF Cancel, cancelRequest
<1>3. ASSUME NEW r \in RequestId, ReportBroadcast(r, requests[r].expectedTxId) PROVE Moves(r)
  <2>q. PICK q : q = [requests[r] EXCEPT !.xrplTxId = requests[r].expectedTxId, !.state = "BROADCAST"]
    OBVIOUS
  <2>c. Complete(requests[r]) /\ WritesIdAndState(q, requests[r], requests[r].expectedTxId, "BROADCAST")
    BY <1>0, <2>q DEF RequestsComplete, WritesIdAndState
  <2>1. /\ Complete(q) /\ q.expiresAt = requests[r].expiresAt /\ q.state = "BROADCAST"
        /\ q.signedBlobHash = requests[r].signedBlobHash
    BY <2>c, IdAndStateWritten
  <2>2. requests' = [requests EXCEPT ![r] = q] /\ now' = now
    BY <1>3, <2>q DEF ReportBroadcast, reportBroadcast
  <2> QED
    BY <1>0, <2>1, <2>2, Written DEF Moves
<1> QED
  BY <1>1, <1>2, <1>3 DEF ControllerCalls

LEMMA BlobMoves ==
    ASSUME WindowInv, NEW b \in blobs, Publish(b) \/ Settle(b)
    PROVE  \E r \in RequestId : Moves(r)
<1>r. PICK r \in RequestId : r = b.request
  BY DEF WindowInv, BlobsSigned
<1>0. RequestsComplete
  BY DEF WindowInv
<1>1. CASE Publish(b)
  <2>0. PICK h : h = Keccak(b)
    OBVIOUS
  <2>q. PICK q : q = [requests[r] EXCEPT !.expectedTxId = h, !.signedBlobHash = h, !.state = "SIGNED"]
    OBVIOUS
  <2>c. Complete(requests[r]) /\ WritesBlob(q, requests[r], h)
    BY <1>0, <2>q DEF RequestsComplete, WritesBlob
  <2>1. /\ Complete(q) /\ q.expiresAt = requests[r].expiresAt /\ q.state = "SIGNED"
    BY <2>c, BlobWritten
  <2>2. /\ requests' = [requests EXCEPT ![r] = q] /\ now <= requests[r].expiresAt
        /\ UNCHANGED <<now, ledger, closedAt, readLedger, blobs, landed>>
    BY <1>r, <1>1, <2>0, <2>q DEF Publish, Deliver, submitSignedPayment
  <2>3. Signed(r)
    BY <1>r DEF Signed
  <2> QED
    BY <1>0, <2>1, <2>2, <2>3, Written DEF Moves
<1>2. CASE Settle(b)
  <2>0. PICK h : h = Keccak(b)
    OBVIOUS
  <2>q. PICK q : q = [requests[r] EXCEPT !.xrplTxId = h, !.state = "SETTLED"]
    OBVIOUS
  <2>c. Complete(requests[r]) /\ WritesIdAndState(q, requests[r], h, "SETTLED")
    BY <1>0, <2>q DEF RequestsComplete, WritesIdAndState
  <2>1. /\ Complete(q) /\ q.expiresAt = requests[r].expiresAt /\ q.state = "SETTLED"
        /\ q.signedBlobHash = requests[r].signedBlobHash
    BY <2>c, IdAndStateWritten
  <2>2. /\ requests' = [requests EXCEPT ![r] = q]
        /\ UNCHANGED <<now, ledger, closedAt, readLedger, blobs, landed>>
    BY <1>r, <1>2, <2>0, <2>q DEF Settle, markSettled
  <2> QED
    BY <1>0, <2>1, <2>2, Written DEF Moves
<1> QED
  BY <1>1, <1>2

LEMMA MoveStep ==
    ASSUME WindowInv, NEW r \in RequestId, Moves(r)
    PROVE  WindowInv'
<1>0. /\ RequestsComplete /\ ClocksAgree /\ BlobsSigned /\ PublishedHeld
      /\ \A b \in blobs : DiesInTime(b)
  BY DEF WindowInv
<1>1. RequestsComplete' /\ ClocksAgree'
  BY <1>0 DEF Moves, RequestsComplete, ClocksAgree
<1>2. BlobsSigned'
  <2>1. ASSUME NEW s \in RequestId, Published(s)' PROVE Signed(s)'
    BY <1>0, <2>1 DEF Moves, BlobsSigned, Published, Signed
  <2> QED
    BY <1>0, <2>1 DEF Moves, BlobsSigned
<1>3. PublishedHeld'
  <2> SUFFICES ASSUME NEW s \in RequestId, requests'[s].signedBlobHash # NoHash
               PROVE  /\ requests'[s].state \notin {"NONE", "CREATED", "AUTHORIZED"}
                      /\ requests'[s].state \in {"EXPIRED", "CANCELLED", "FAILED"}
                         => now > requests'[s].expiresAt + SETTLEMENT_GRACE
      BY DEF PublishedHeld, Published, Released, Moves
  <2>1. CASE s = r
    BY <1>0, <2>1 DEF Moves, PublishedHeld, Published
  <2>2. CASE s # r
    BY <1>0, <2>2 DEF Moves, PublishedHeld, Published, Released
  <2> QED
    BY <2>1, <2>2
<1>4. ASSUME NEW b \in blobs PROVE DiesInTime(b)'
  <2>1. DiesInTime(b) /\ b.request \in RequestId /\ DiesAt(b)' = DiesAt(b)
    BY <1>0 DEF BlobsSigned, DiesAt, Moves
  <2>2. CASE b.request = r
    <3>1. now \in Int /\ requests[r].expiresAt \in Int
      BY <1>0 DEF ClocksAgree, RequestsComplete
    <3> QED
      BY <2>1, <2>2, <3>1 DEF DiesInTime, Moves, Published
  <2>3. CASE b.request # r
    BY <2>1, <2>3 DEF DiesInTime, Moves, Published
  <2> QED
    BY <2>2, <2>3
<1> QED
  BY <1>1, <1>2, <1>3, <1>4 DEF WindowInv, Moves

-----------------------------------------------------------------------------
(* The window the enclave gives a payment *)

LEMMA Quotient ==
    ASSUME NEW x \in Nat, NEW n \in Nat \ {0}
    PROVE  x \div n \in Nat /\ (x \div n) * n <= x
BY Z3

LEMMA Product ==
    ASSUME NEW x \in Int, NEW y \in Int, NEW n \in Nat, x <= y
    PROVE  x * n <= y * n
BY Z3

\* The window is within its bounds, and longer than the least only when the
\* time that is left lasts that long.
LEMMA WindowWithin ==
    ASSUME NEW current \in Int, NEW expiresAt \in Int, NEW clock \in Int
    PROVE  \E w \in MinLedgerWindow..MaxLedgerWindow :
              /\ lastLedgerFor(current, expiresAt, clock) = current + w
              /\ w = MinLedgerWindow \/ w * LedgerSecondsPerLedger <= expiresAt - clock
<1> DEFINE remaining == expiresAt - clock
           long == remaining \div LedgerSecondsPerLedger
           window == IF remaining > 0 THEN long ELSE MinLedgerWindow
<1>1. window \in Nat /\ (window = MinLedgerWindow \/ window * LedgerSecondsPerLedger <= remaining)
  <2>1. CASE remaining > 0
    <3>1. remaining \in Nat /\ LedgerSecondsPerLedger \in Nat \ {0}
      BY <2>1
    <3>2. long \in Nat /\ long * LedgerSecondsPerLedger <= remaining
      BY <3>1, Quotient
    <3> QED
      BY <2>1, <3>2
  <2>2. CASE ~(remaining > 0)
    BY <2>2
  <2> QED
    BY <2>1, <2>2
<1>2. lastLedgerFor(current, expiresAt, clock)
         = current + CASE window < MinLedgerWindow -> MinLedgerWindow
                       [] window > MaxLedgerWindow -> MaxLedgerWindow
                       [] OTHER -> window
  BY DEF lastLedgerFor
<1>3. remaining \in Int
  OBVIOUS
<1> HIDE DEF window
<1>4. CASE window < MinLedgerWindow
  BY <1>1, <1>2, <1>4
<1>5. CASE window > MaxLedgerWindow
  <2>1. window * LedgerSecondsPerLedger <= remaining
    BY <1>1, <1>5
  <2>2. MaxLedgerWindow * LedgerSecondsPerLedger <= window * LedgerSecondsPerLedger
    BY <1>1, <1>5, Product
  <2>3. MaxLedgerWindow * LedgerSecondsPerLedger <= remaining
    <3>1. /\ MaxLedgerWindow * LedgerSecondsPerLedger \in Int
          /\ window * LedgerSecondsPerLedger \in Int
      BY <1>1
    <3> HIDE DEF remaining
    <3> QED
      BY <1>3, <2>1, <2>2, <3>1
  <2>4. lastLedgerFor(current, expiresAt, clock) = current + MaxLedgerWindow
    BY <1>1, <1>2, <1>5
  <2> QED
    BY <2>3, <2>4
<1>6. CASE ~(window < MinLedgerWindow) /\ ~(window > MaxLedgerWindow)
  BY <1>1, <1>2, <1>6
<1> QED
  BY <1>4, <1>5, <1>6

\* A window opened no later than the deadline closes within the grace period,
\* at the slowest pace.
LEMMA WindowCloses ==
    ASSUME NEW w \in MinLedgerWindow..MaxLedgerWindow, NEW expiresAt \in Int, NEW time \in Int,
           NEW s \in Skew, time <= expiresAt,
           w = MinLedgerWindow \/ w * LedgerSecondsPerLedger <= expiresAt - (time + s)
    PROVE  time + w * CloseSeconds <= expiresAt + SETTLEMENT_GRACE
<1>0. /\ s \in Int /\ w \in Nat
      /\ w * CloseSeconds \in Int /\ w * LedgerSecondsPerLedger \in Int
      /\ CloseSeconds - LedgerSecondsPerLedger \in Nat
  OBVIOUS
<1>1. CASE w = MinLedgerWindow
  <2>1. w * CloseSeconds <= SETTLEMENT_GRACE
    BY <1>1
  <2> QED
    BY <1>0, <2>1
<1>2. CASE w * LedgerSecondsPerLedger <= expiresAt - (time + s)
  <2> DEFINE slack == CloseSeconds - LedgerSecondsPerLedger
  <2>1. w * slack <= MaxLedgerWindow * slack
    <3> HIDE DEF slack
    <3> QED
      BY <1>0, Product DEF slack
  <2>2. MaxLedgerWindow * slack <= SETTLEMENT_GRACE + s
    OBVIOUS
  <2>3. w * CloseSeconds = w * LedgerSecondsPerLedger + w * slack
    BY <1>0, Z3
  <2>4. w * slack \in Int /\ MaxLedgerWindow * slack \in Int
    OBVIOUS
  <2> HIDE DEF slack
  <2> QED
    BY <1>0, <1>2, <2>1, <2>2, <2>3, <2>4
<1> QED
  BY <1>1, <1>2

-----------------------------------------------------------------------------
(* Steps of the enclave, of XRPL and of time *)

LEMMA ReadStep ==
    ASSUME WindowInv, NEW r \in RequestId, ReadLedger(r)
    PROVE  WindowInv'
<1>0. /\ RequestsComplete /\ ClocksAgree /\ BlobsSigned /\ PublishedHeld
      /\ \A b \in blobs : DiesInTime(b)
  BY DEF WindowInv
<1>1. /\ UNCHANGED <<requests, now, ledger, closedAt, blobs, landed>> /\ readLedger[r] = 0
      /\ readLedger' = [readLedger EXCEPT ![r] = ledger]
  BY DEF ReadLedger, chainVars, controllerVars, requestVars
<1>2. RequestsComplete' /\ PublishedHeld'
  BY <1>0, <1>1 DEF RequestsComplete, PublishedHeld, Published, Released
<1>3. ClocksAgree'
  BY <1>0, <1>1 DEF ClocksAgree
<1>4. BlobsSigned'
  BY <1>0, <1>1 DEF BlobsSigned, ClocksAgree, Published, Signed
<1>5. \A b \in blobs : DiesInTime(b)'
  BY <1>0, <1>1 DEF DiesInTime, DiesAt, Published
<1> QED
  BY <1>1, <1>2, <1>3, <1>4, <1>5 DEF WindowInv

LEMMA SignStep ==
    ASSUME WindowInv, NEW r \in RequestId, Sign(r)
    PROVE  WindowInv'
<1>0. /\ RequestsComplete /\ ClocksAgree /\ BlobsSigned /\ PublishedHeld
      /\ \A b \in blobs : DiesInTime(b)
  BY DEF WindowInv
<1>1. PICK s \in Skew :
         blobs' = blobs \cup
            {[request |-> r,
              lastLedger |-> lastLedgerFor(readLedger[r], requests[r].expiresAt, now + s)]}
  BY DEF Sign
<1>2. /\ UNCHANGED <<requests, now, ledger, closedAt, readLedger, landed>>
      /\ readLedger[r] # 0 /\ ~Signed(r)
  BY DEF Sign, chainVars, controllerVars, requestVars
<1>3. /\ readLedger[r] \in Int /\ requests[r].expiresAt \in Int /\ s \in Int /\ now \in Int
      /\ readLedger[r] <= ledger /\ ledger \in Int /\ closedAt \in Int /\ closedAt <= now
  BY <1>0 DEF ClocksAgree, RequestsComplete
<1>4. now + s \in Int
  BY <1>3
<1>5. PICK w \in MinLedgerWindow..MaxLedgerWindow :
         /\ lastLedgerFor(readLedger[r], requests[r].expiresAt, now + s) = readLedger[r] + w
         /\ w = MinLedgerWindow \/ w * LedgerSecondsPerLedger <= requests[r].expiresAt - (now + s)
  BY <1>3, <1>4, WindowWithin
<1>6. PICK new : new = [request |-> r, lastLedger |-> readLedger[r] + w]
  OBVIOUS
<1>7. /\ blobs' = blobs \cup {new} /\ new.request = r /\ new.lastLedger = readLedger[r] + w
      /\ new.lastLedger \in Int /\ new.lastLedger > readLedger[r]
  BY <1>1, <1>3, <1>5, <1>6
<1>8. RequestsComplete' /\ PublishedHeld' /\ ClocksAgree'
  BY <1>0, <1>2 DEF RequestsComplete, PublishedHeld, Published, Released, ClocksAgree
<1>9. BlobsSigned'
  BY <1>0, <1>2, <1>7 DEF BlobsSigned, Published, Signed
<1>10. DiesInTime(new)'
  <2>1. CASE now <= requests[r].expiresAt
    <3>1. now + w * CloseSeconds <= requests[r].expiresAt + SETTLEMENT_GRACE
      BY <1>3, <1>5, <2>1, WindowCloses
    <3>2. (new.lastLedger - ledger) * CloseSeconds <= w * CloseSeconds
      <4>1. new.lastLedger - ledger \in Int /\ new.lastLedger - ledger <= w /\ w \in Int
        BY <1>3, <1>7
      <4> QED
        BY <4>1, Product
    <3>3. /\ (new.lastLedger - ledger) * CloseSeconds \in Int /\ w * CloseSeconds \in Int
      BY <1>3, <1>7
    <3>4. closedAt + (new.lastLedger - ledger) * CloseSeconds
             <= requests[r].expiresAt + SETTLEMENT_GRACE
      BY <1>3, <3>1, <3>2, <3>3
    <3> QED
      BY <1>2, <1>7, <3>4 DEF DiesInTime, DiesAt
  <2>2. CASE ~(now <= requests[r].expiresAt)
    <3>1. ~Published(r)
      BY <1>0, <1>2 DEF BlobsSigned
    <3> QED
      BY <1>2, <1>3, <1>7, <2>2, <3>1 DEF DiesInTime, Published
  <2> QED
    BY <2>1, <2>2
<1>11. \A b \in blobs : DiesInTime(b)'
  BY <1>0, <1>2 DEF DiesInTime, DiesAt, Published
<1> QED
  BY <1>7, <1>8, <1>9, <1>10, <1>11 DEF WindowInv

\* A ledger that closes in time never puts off the end of a payment.
LEMMA CloseStep ==
    ASSUME WindowInv, CloseLedger
    PROVE  WindowInv'
<1>0. /\ RequestsComplete /\ ClocksAgree /\ BlobsSigned /\ PublishedHeld
      /\ \A b \in blobs : DiesInTime(b)
  BY DEF WindowInv
<1>1. /\ UNCHANGED <<requests, now, readLedger, blobs>> /\ landed' \subseteq landed \cup blobs
      /\ now > closedAt /\ ledger' = ledger + 1 /\ closedAt' = now
  BY DEF CloseLedger, chainVars, controllerVars, requestVars
<1>2. RequestsComplete' /\ PublishedHeld'
  BY <1>0, <1>1 DEF RequestsComplete, PublishedHeld, Published, Released
<1>3. ClocksAgree'
  BY <1>0, <1>1 DEF ClocksAgree
<1>4. BlobsSigned'
  BY <1>0, <1>1 DEF BlobsSigned, Published, Signed
<1>5. ASSUME NEW b \in blobs PROVE DiesInTime(b)'
  <2>1. /\ b.lastLedger \in Int /\ ledger \in Int /\ closedAt \in Int /\ now \in Int
        /\ now <= closedAt + CloseSeconds /\ requests[b.request].expiresAt \in Int
    BY <1>0 DEF BlobsSigned, ClocksAgree, RequestsComplete
  <2>2. PICK ahead \in Int : ahead = b.lastLedger - ledger
    BY <2>1
  <2>3. (ahead - 1) * CloseSeconds = ahead * CloseSeconds - CloseSeconds
    BY Z3
  <2>4. ahead * CloseSeconds \in Int
    OBVIOUS
  <2>5. now + (ahead - 1) * CloseSeconds <= closedAt + ahead * CloseSeconds
    BY <2>1, <2>3, <2>4
  <2>6. b.lastLedger - (ledger + 1) = ahead - 1
    BY <2>1, <2>2
  <2>7. DiesAt(b)' = now + (ahead - 1) * CloseSeconds /\ DiesAt(b) = closedAt + ahead * CloseSeconds
    BY <1>1, <2>2, <2>6 DEF DiesAt
  <2>8. DiesAt(b)' \in Int /\ DiesAt(b) \in Int /\ DiesAt(b)' <= DiesAt(b)
    BY <2>1, <2>3, <2>4, <2>5, <2>7
  <2>9. DiesInTime(b)
    BY <1>0
  <2>10. CASE DiesAt(b) <= requests[b.request].expiresAt + SETTLEMENT_GRACE
    BY <1>1, <2>1, <2>8, <2>10 DEF DiesInTime
  <2>11. CASE now > requests[b.request].expiresAt /\ ~Published(b.request)
    BY <1>1, <2>11 DEF DiesInTime, Published
  <2> QED
    BY <2>9, <2>10, <2>11 DEF DiesInTime
<1> QED
  BY <1>1, <1>2, <1>3, <1>4, <1>5 DEF WindowInv

LEMMA WaitStep ==
    ASSUME WindowInv, Wait
    PROVE  WindowInv'
<1>0. /\ RequestsComplete /\ ClocksAgree /\ BlobsSigned /\ PublishedHeld
      /\ \A b \in blobs : DiesInTime(b)
  BY DEF WindowInv
<1>1. /\ UNCHANGED <<requests, ledger, closedAt, readLedger, blobs, landed>>
      /\ now < closedAt + CloseSeconds /\ now < MaxTime /\ now' = now + 1
  BY DEF Wait, TimePasses, Tick, requestVars
<1>2. RequestsComplete'
  BY <1>0, <1>1 DEF RequestsComplete
<1>3. ClocksAgree'
  BY <1>0, <1>1 DEF ClocksAgree
<1>4. BlobsSigned'
  BY <1>0, <1>1 DEF BlobsSigned, Published, Signed
<1>5. now \in Int /\ \A r \in RequestId : requests[r].expiresAt \in Int
  BY <1>0 DEF ClocksAgree, RequestsComplete
<1>6. PublishedHeld'
  BY <1>0, <1>1, <1>5 DEF PublishedHeld, Published, Released
<1>7. \A b \in blobs : DiesInTime(b)'
  BY <1>0, <1>1, <1>5 DEF DiesInTime, DiesAt, Published, BlobsSigned
<1> QED
  BY <1>1, <1>2, <1>3, <1>4, <1>6, <1>7 DEF WindowInv

LEMMA NextWindow == WindowInv /\ [WindowNext]_windowVars => WindowInv'
<1> SUFFICES ASSUME WindowInv, [WindowNext]_windowVars PROVE WindowInv'
    OBVIOUS
<1>1. ASSUME NEW r \in RequestId, ReadLedger(r) PROVE WindowInv'
  BY <1>1, ReadStep
<1>2. ASSUME NEW r \in RequestId, Sign(r) PROVE WindowInv'
  BY <1>2, SignStep
<1>3. ASSUME NEW b \in blobs, Publish(b) \/ Settle(b) PROVE WindowInv'
  BY <1>3, BlobMoves, MoveStep
<1>4. CASE ControllerCalls
  BY <1>4, ControllerMoves, MoveStep
<1>5. CASE CloseLedger
  BY <1>5, CloseStep
<1>6. CASE Wait
  BY <1>6, WaitStep
<1>7. CASE UNCHANGED windowVars
  <2>1. UNCHANGED <<requests, now, ledger, closedAt, readLedger, blobs, landed>>
    BY <1>7 DEF windowVars, chainVars, controllerVars, requestVars
  <2> QED
    BY <2>1 DEF WindowInv, RequestsComplete, ClocksAgree, BlobsSigned, PublishedHeld, DiesInTime,
                DiesAt, Published, Released, Signed
<1> QED
  BY <1>1, <1>2, <1>3, <1>4, <1>5, <1>6, <1>7 DEF WindowNext

-----------------------------------------------------------------------------
(***************************************************************************)
(* The clocks do not run backwards, however the enclave's, Flare's and     *)
(* XRPL's steps interleave, and a payment is only signed for a ledger      *)
(* handleSignPayment has read.                                             *)
(***************************************************************************)
THEOREM ClocksRunForward == WindowSpec => []WindowTypeOK
<1>1. WindowInv => WindowTypeOK
  BY DEF WindowInv, ClocksAgree, BlobsSigned, WindowTypeOK
<1> QED
  BY <1>1, InitWindow, NextWindow, PTL DEF WindowSpec

(***************************************************************************)
(* The grace period of expireRequest is long enough: when the budget of a  *)
(* published payment is released, no later XRPL ledger can include it,     *)
(* for every window, pace, skew and grace period that WindowAssumption     *)
(* relates.                                                                *)
(***************************************************************************)
THEOREM GracePeriodSuffices == WindowSpec => []PublishedReleasedIsDead
<1>1. ASSUME WindowInv PROVE PublishedReleasedIsDead
  <2>0. ClocksAgree /\ BlobsSigned /\ PublishedHeld /\ RequestsComplete /\ \A b \in blobs : DiesInTime(b)
    BY <1>1 DEF WindowInv
  <2> SUFFICES ASSUME NEW b \in blobs, Released(b.request), Published(b.request),
                      ~(ledger >= b.lastLedger)
               PROVE  FALSE
    BY DEF PublishedReleasedIsDead, Dead
  <2>1. /\ b.lastLedger \in Int /\ ledger \in Int /\ closedAt \in Int /\ now \in Int
        /\ now <= closedAt + CloseSeconds /\ requests[b.request].expiresAt \in Int
    BY <2>0 DEF BlobsSigned, ClocksAgree, RequestsComplete
  <2>2. DiesAt(b) <= requests[b.request].expiresAt + SETTLEMENT_GRACE
    BY <2>0 DEF DiesInTime
  <2>3. now > requests[b.request].expiresAt + SETTLEMENT_GRACE
    BY <2>0 DEF PublishedHeld, BlobsSigned
  <2>4. PICK ahead \in Int : ahead = b.lastLedger - ledger /\ 1 <= ahead
    BY <2>1
  <2>5. 1 * CloseSeconds <= ahead * CloseSeconds
    BY <2>4, Product
  <2>6. ahead * CloseSeconds \in Int /\ 1 * CloseSeconds = CloseSeconds
    OBVIOUS
  <2>7. DiesAt(b) = closedAt + ahead * CloseSeconds
    BY <2>4 DEF DiesAt
  <2> QED
    BY <2>1, <2>2, <2>3, <2>5, <2>6, <2>7
<1> QED
  BY <1>1, InitWindow, NextWindow, PTL DEF WindowSpec

-----------------------------------------------------------------------------
(* The result relay *)

USE LoopAssumption

IsSequence(s) == s \in Seq({s[i] : i \in 1..Len(s)})

\* Every instruction that an event announces has been dispatched.
LogOK ==
    /\ IsSequence(instructions) /\ IsSequence(events)
    /\ \A b \in 1..Len(events) : Dispatches(b) => InstructionOf(b) \in 1..Len(instructions)

\* The event in hand is one the relay handles.
HandOK ==
    /\ pc # "poll" => at # 0
    /\ pc # "poll" /\ at <= head => at \in Blocks /\ Dispatches(at)
    /\ pc = "wait" => at <= head

RelayInv ==
    /\ LogOK /\ HandOK /\ RelayTypeOK
    /\ DOMAIN answers = InstructionId

\* The log and the instructions only grow.
LogGrows ==
    /\ LogOK'
    /\ Len(instructions) <= Len(instructions')
    /\ Len(events) <= Len(events')
    /\ \A b \in 1..Len(events) : events'[b] = events[b]

LEMMA LengthIsNatural == ASSUME NEW s, IsSequence(s) PROVE Len(s) \in Nat
<1>1. PICK S : S = {s[i] : i \in 1..Len(s)}
  OBVIOUS
<1>2. s \in Seq(S)
  BY <1>1 DEF IsSequence
<1> QED
  BY <1>2

IsAppended(t, s, e) == t = Append(s, e)

LEMMA Appended ==
    ASSUME NEW s, IsSequence(s), NEW e, NEW t, IsAppended(t, s, e)
    PROVE  /\ IsSequence(t) /\ Len(t) = Len(s) + 1 /\ Len(s) \in Nat
           /\ t[Len(t)] = e
           /\ \A i \in 1..Len(s) : t[i] = s[i]
<1>1. PICK S : S = {s[i] : i \in 1..Len(s)} \cup {e}
  OBVIOUS
<1>2. PICK R : R = {s[i] : i \in 1..Len(s)}
  OBVIOUS
<1>3. s \in Seq(R) /\ R \subseteq S
  BY <1>1, <1>2 DEF IsSequence
<1>4. s \in Seq(S) /\ e \in S
  BY <1>1, <1>3
<1>5. /\ Len(t) = Len(s) + 1 /\ Len(s) \in Nat /\ t \in Seq(S)
      /\ t[Len(t)] = e
      /\ \A i \in 1..Len(s) : t[i] = s[i]
  BY <1>4 DEF IsAppended
<1>6. IsSequence(t)
  <2>1. PICK T : T = {t[i] : i \in 1..Len(t)}
    OBVIOUS
  <2>2. \A i \in 1..Len(t) : t[i] \in T
    BY <2>1
  <2>3. t \in Seq(T)
    BY <1>5, <2>2
  <2> QED
    BY <2>1, <2>3 DEF IsSequence
<1> QED
  BY <1>5, <1>6

LEMMA LogSame ==
    ASSUME LogOK, UNCHANGED <<instructions, events>>
    PROVE  LogGrows
<1>1. Len(instructions) \in Nat /\ Len(events) \in Nat
  BY LengthIsNatural DEF LogOK
<1> QED
  BY <1>1 DEF LogOK, LogGrows, IsSequence, Dispatches, InstructionOf

LEMMA Announced ==
    ASSUME LogOK, NEW name, NEW id, emit(name, id),
           \/ UNCHANGED instructions /\ name \notin DOMAIN handlers
           \/ \E x : instructions' = Append(instructions, x)
    PROVE  LogGrows
<1>1. PICK e : e = [event |-> name, id |-> id, instruction |-> Len(instructions')]
  OBVIOUS
<1>2. events' = Append(events, e) /\ e.event = name /\ e.instruction = Len(instructions')
  BY <1>1 DEF emit
<1>3. /\ IsSequence(events') /\ Len(events') = Len(events) + 1 /\ Len(events) \in Nat
      /\ events'[Len(events')] = e
      /\ \A b \in 1..Len(events) : events'[b] = events[b]
  <2>1. IsSequence(events) /\ IsAppended(events', events, e)
    BY <1>2 DEF LogOK, IsAppended
  <2> QED
    BY <2>1, Appended
<1>4. /\ IsSequence(instructions') /\ Len(instructions) <= Len(instructions')
      /\ Len(instructions) \in Nat /\ Len(instructions') \in Nat
      /\ name \in DOMAIN handlers => Len(instructions') > Len(instructions)
  <2>1. CASE UNCHANGED instructions /\ name \notin DOMAIN handlers
    BY <2>1, LengthIsNatural DEF LogOK, IsSequence
  <2>2. ASSUME NEW x, instructions' = Append(instructions, x)
        PROVE  /\ IsSequence(instructions') /\ Len(instructions') = Len(instructions) + 1
               /\ Len(instructions) \in Nat
    <3>1. IsSequence(instructions) /\ IsAppended(instructions', instructions, x)
      BY <2>2 DEF LogOK, IsAppended
    <3> QED
      BY <3>1, Appended
  <2> QED
    BY <2>1, <2>2
<1>5. ASSUME NEW b \in 1..Len(events'), events'[b].event \in DOMAIN handlers
      PROVE  events'[b].instruction \in 1..Len(instructions')
  <2>1. CASE b \in 1..Len(events)
    <3>1. events[b].event \in DOMAIN handlers /\ events'[b] = events[b]
      BY <1>3, <1>5, <2>1
    <3>2. events[b].instruction \in 1..Len(instructions)
      BY <2>1, <3>1 DEF LogOK, Dispatches, InstructionOf
    <3> QED
      BY <1>4, <3>1, <3>2
  <2>2. CASE b = Len(events')
    BY <1>2, <1>3, <1>4, <1>5, <2>2
  <2> QED
    BY <1>3, <2>1, <2>2
<1>6. DOMAIN handlers' = DOMAIN handlers
  BY DEF handlers
<1>7. LogOK'
  BY <1>3, <1>4, <1>5, <1>6 DEF LogOK, Dispatches, InstructionOf, IsSequence
<1> QED
  BY <1>3, <1>4, <1>7 DEF LogGrows

LEMMA UsersStep == ASSUME LogOK, Users PROVE LogGrows
<1>1. ASSUME NEW s \in Account, NEW p \in Policy, CreateTreasury(s, p) PROVE LogGrows
  <2>1. \E x : instructions' = Append(instructions, x)
    BY <1>1 DEF CreateTreasury, createTreasury, send
  <2> QED
    BY <1>1, <2>1, Announced DEF CreateTreasury
<1>2. ASSUME NEW s \in Account, NEW t \in TreasuryId, NEW p \in Policy, UpdatePolicy(s, t, p)
      PROVE  LogGrows
  <2>1. \E x : instructions' = Append(instructions, x)
    BY <1>2 DEF UpdatePolicy, requestPolicyUpdate, send
  <2> QED
    BY <1>2, <2>1, Announced DEF UpdatePolicy
<1>3. ASSUME NEW s \in Account, NEW t \in TreasuryId, NEW c \in Ciphertext, RequestPayment(s, t, c)
      PROVE  LogGrows
  <2>1. \E x : instructions' = Append(instructions, x)
    BY <1>3 DEF RequestPayment, createPaymentRequest, send
  <2> QED
    BY <1>3, <2>1, Announced DEF RequestPayment
<1>4. ASSUME NEW s \in Account, NEW r \in RequestId, RequestSignature(s, r) PROVE LogGrows
  <2>1. \E x : instructions' = Append(instructions, x)
    BY <1>4 DEF RequestSignature, requestSignature, send
  <2> QED
    BY <1>4, <2>1, Announced DEF RequestSignature
<1>5. ASSUME NEW s \in Account, NEW r \in RequestId, Cancel(s, r) PROVE LogGrows
  BY <1>5, LogSame DEF Cancel, cancelRequest
<1>6. ASSUME NEW r \in RequestId, Expire(r) PROVE LogGrows
  BY <1>6, LogSame DEF Expire, expireRequest
<1>7. CASE TimePasses
  BY <1>7, LogSame DEF TimePasses, Tick
<1> QED
  BY <1>1, <1>2, <1>3, <1>4, <1>5, <1>6, <1>7 DEF Users

\* No result dispatches an instruction.
LEMMA Delivered == ASSUME LogOK, NEW method, NEW res, Deliver(method, res) PROVE LogGrows
<1>1. UNCHANGED instructions
  BY DEF Deliver, bindTreasuryAddress, confirmPolicy, adoptPolicy, submitAuthorization,
         submitSignedPayment, submitFailure
<1>2. UNCHANGED events \/ emit("PaymentSigned", res.data.requestId)
  BY DEF Deliver
<1>3. "PaymentSigned" \notin DOMAIN handlers
  BY DEF handlers
<1> QED
  BY <1>1, <1>2, <1>3, LogSame, Announced

IsLengthened(t, s, n, e) == t = s \o [b \in 1..n |-> e]

LEMMA Lengthened ==
    ASSUME NEW s, IsSequence(s), NEW n \in Nat, NEW e, NEW t, IsLengthened(t, s, n, e)
    PROVE  /\ IsSequence(t) /\ Len(s) \in Nat /\ Len(t) = Len(s) + n
           /\ \A b \in 1..Len(s) : t[b] = s[b]
           /\ \A b \in 1..Len(t) : b \notin 1..Len(s) => t[b] = e
<1> DEFINE q == [b \in 1..n |-> e]
<1>0. PICK S : S = {s[b] : b \in 1..Len(s)} \cup {e}
  OBVIOUS
<1>1. PICK R : R = {s[b] : b \in 1..Len(s)}
  OBVIOUS
<1>2. s \in Seq(R) /\ R \subseteq S /\ e \in S
  BY <1>0, <1>1 DEF IsSequence
<1>3. s \in Seq(S) /\ Len(s) \in Nat
  BY <1>2
<1>4. q \in Seq(S) /\ Len(q) = n /\ \A b \in 1..n : q[b] = e
  BY <1>2
<1> HIDE DEF q
<1>5. t \in Seq(S) /\ Len(t) = Len(s) + n
  BY <1>3, <1>4, ConcatProperties DEF IsLengthened, q
<1>6. \A b \in 1..Len(t) : t[b] = IF b <= Len(s) THEN s[b] ELSE q[b - Len(s)]
  BY <1>3, <1>4, <1>5, ConcatProperties DEF IsLengthened, q
<1>7. /\ \A b \in 1..Len(s) : t[b] = s[b]
      /\ \A b \in 1..Len(t) : b \notin 1..Len(s) => t[b] = e
  BY <1>3, <1>4, <1>5, <1>6
<1>8. PICK T : T = {t[b] : b \in 1..Len(t)}
  OBVIOUS
<1>9. \A b \in 1..Len(t) : t[b] \in T
  BY <1>8
<1>10. t \in Seq(T)
  BY <1>5, <1>9
<1> QED
  BY <1>3, <1>5, <1>7, <1>8, <1>10 DEF IsSequence

\* Blocks without a watched event are added.
LEMMA QuietBlocks ==
    ASSUME LogOK, NEW n \in Nat, NEW e, e.event = "none", IsLengthened(events', events, n, e),
           UNCHANGED instructions
    PROVE  LogGrows
<1>1. IsSequence(events)
  BY DEF LogOK
<1>2. /\ IsSequence(events') /\ Len(events) \in Nat /\ Len(events') = Len(events) + n
      /\ \A b \in 1..Len(events) : events'[b] = events[b]
      /\ \A b \in 1..Len(events') : b \notin 1..Len(events) => events'[b] = e
  BY <1>1, Lengthened
<1>3. ASSUME NEW b \in 1..Len(events'), Dispatches(b)'
      PROVE  InstructionOf(b)' \in 1..Len(instructions')
  <2>1. "none" \notin DOMAIN handlers /\ DOMAIN handlers' = DOMAIN handlers
    BY DEF handlers
  <2>2. b \in 1..Len(events)
    BY <1>2, <1>3, <2>1 DEF Dispatches
  <2>3. events'[b] = events[b]
    BY <1>2, <2>2
  <2> QED
    BY <1>3, <2>1, <2>2, <2>3 DEF LogOK, Dispatches, InstructionOf
<1>4. LogOK'
  BY <1>2, <1>3 DEF LogOK, IsSequence
<1>5. Len(instructions) \in Nat
  BY LengthIsNatural DEF LogOK
<1> QED
  BY <1>2, <1>4, <1>5 DEF LogGrows

-----------------------------------------------------------------------------
(* The loop of the relay *)

LEMMA Lengths ==
    ASSUME RelayInv
    PROVE  /\ Len(instructions) \in Nat /\ Len(events) \in Nat
           /\ next \in Nat /\ head \in Nat /\ at \in Nat
<1>1. Len(instructions) \in Nat /\ Len(events) \in Nat
  BY LengthIsNatural DEF RelayInv, LogOK
<1> QED
  BY <1>1 DEF RelayInv, RelayTypeOK, LoopTypeOK, BlockNumber

LEMMA ChainStays ==
    ASSUME RelayInv, UNCHANGED chainVars
    PROVE  LogOK' /\ UNCHANGED <<events, instructions>> /\ BlockNumber' = BlockNumber /\ Blocks' = Blocks
<1>1. UNCHANGED <<events, instructions>>
  BY DEF chainVars, controllerVars
<1> QED
  BY <1>1, LogSame DEF RelayInv, LogGrows, BlockNumber, Blocks

LEMMA LeastOf ==
    ASSUME NEW T, T \subseteq Nat, T # {}
    PROVE  \E n \in T : \A m \in T : n <= m
<1> DEFINE R == {ss \in Nat \X Nat : ss[1] < ss[2]}
<1>1. IsWellFoundedOn(R, Nat)
  BY NatLessThanWellFounded, Zenon DEF OpToRel
<1>2. \A m, n \in Nat : m < n => <<m, n>> \in R
  OBVIOUS
<1> HIDE DEF R
<1>3. PICK n \in T : \A m \in T : ~(<<m, n>> \in R)
  BY <1>1, WFMin
<1>4. \A m \in T : n <= m
  <2> TAKE m \in T
  <2>1. ~(m < n)
    BY <1>2, <1>3
  <2> QED
    BY <2>1
<1> QED
  BY <1>4

\* The loop goes on at an open event of the range, or past it.
LEMMA GoesOn ==
    ASSUME NEW b \in Nat, NEW last \in Nat, goOnFrom(b, last, Open)
    PROVE  /\ pc' = "handle" /\ at' \in 1..(last + 1)
           /\ at' <= last => at' \in Blocks /\ Dispatches(at')
<1> DEFINE S == {last + 1} \cup ((b..last) \cap Open)
<1>1. S \subseteq Nat /\ S # {} /\ S \subseteq 1..(last + 1)
  BY DEF Open, Blocks
<1>2. pc' = "handle" /\ at' = CHOOSE x \in S : \A y \in S : x <= y
  BY DEF goOnFrom, Min
<1>3. \A x \in S : x = last + 1 \/ x \in Open
  OBVIOUS
<1> HIDE DEF S
<1>4. \E x \in S : \A y \in S : x <= y
  BY <1>1, LeastOf
<1>5. at' \in S
  BY <1>2, <1>4
<1>6. PICK x \in S : x = at'
  BY <1>5
<1>7. x <= last => x \in Open
  BY <1>1, <1>3
<1>8. x <= last => x \in Blocks /\ Dispatches(x)
  BY <1>7 DEF Open
<1> QED
  BY <1>1, <1>2, <1>6, <1>8

\* What handling the event in hand may record.
Recorded ==
    /\ UNCHANGED <<chainVars, answers, headAtStart>>
    /\ done' \subseteq 1..Len(instructions)
    /\ pending' \in BOOLEAN
    /\ age' \in [InstructionId -> {"unseen", "fresh", "overdue"}]

\* The process moves in its loop, and the chain does not.
LEMMA OwnMove ==
    ASSUME RelayInv, Recorded, mempool' \in Seq(Blocks), LoopTypeOK',
           pc' \in {"poll", "handle", "wait"}, HandOK'
    PROVE  RelayInv'
<1>1. LogOK' /\ Blocks' = Blocks /\ UNCHANGED instructions
  BY ChainStays DEF Recorded
<1> QED
  BY <1>1 DEF RelayInv, RelayTypeOK, Recorded, Answered

\* The loop goes on with the next log.
LEMMA Returned ==
    ASSUME RelayInv, Recorded, nextLog(Open), UNCHANGED <<rangeVars, mempool>>,
           receipt' \in {"none", "success", "reverted"}
    PROVE  RelayInv'
<1>0. next' = next /\ head' = head
  BY DEF rangeVars
<1>1. UNCHANGED events /\ Blocks' = Blocks /\ BlockNumber' = BlockNumber
  BY ChainStays DEF Recorded
<1>2. at + 1 \in Nat /\ head \in Nat
  BY Lengths
<1>3. /\ pc' = "handle" /\ at' \in 1..(head + 1)
      /\ at' <= head => at' \in Blocks /\ Dispatches(at')
  BY <1>2, GoesOn DEF nextLog
<1>4. HandOK'
  BY <1>0, <1>1, <1>3 DEF HandOK, Dispatches, handlers
<1>5. LoopTypeOK' /\ mempool' \in Seq(Blocks)
  BY <1>0, <1>1, <1>2, <1>3 DEF Recorded, RelayInv, RelayTypeOK, LoopTypeOK
<1> QED
  BY <1>3, <1>4, <1>5, OwnMove

\* Marking the event in hand done records an instruction that was dispatched.
LEMMA InHand ==
    ASSUME RelayInv, pc # "poll", at <= head
    PROVE  at \in Blocks /\ InstructionOf(at) \in 1..Len(instructions)
BY DEF RelayInv, HandOK, LogOK, Blocks

LEMMA Seen ==
    ASSUME RelayInv, NEW i \in InstructionId, see(i)
    PROVE  age' \in [InstructionId -> {"unseen", "fresh", "overdue"}]
BY DEF RelayInv, RelayTypeOK, see

LEMMA HandlingStep ==
    ASSUME RelayInv, FindNoAnswer \/ HardError \/ EstimateError \/ WouldRevert
    PROVE  RelayInv'
<1>1. /\ return /\ (pending' = pending \/ pending' = TRUE) /\ headAtStart' = headAtStart
      /\ \E i \in InstructionId : handling /\ i = InstructionOf(at) /\ see(i)
                                   /\ done' \in {done, done \cup {i}}
  BY DEF FindNoAnswer, HardError, EstimateError, WouldRevert, fetch, GiveUp, NotReady, meet, limitVars
<1>2. PICK i \in InstructionId : handling /\ i = InstructionOf(at) /\ see(i)
                                  /\ done' \in {done, done \cup {i}}
  BY <1>1
<1>3. i \in 1..Len(instructions)
  BY <1>2, InHand DEF handling
<1>4. done' \subseteq 1..Len(instructions) /\ pending' \in BOOLEAN
  BY <1>1, <1>2, <1>3 DEF RelayInv, RelayTypeOK
<1>5. Recorded
  BY <1>1, <1>2, <1>4, Seen DEF Recorded, return
<1>6. /\ nextLog(Open) /\ UNCHANGED <<rangeVars, mempool>>
      /\ receipt' \in {"none", "success", "reverted"}
  BY <1>1 DEF return, RelayInv, RelayTypeOK, LoopTypeOK
<1> QED
  BY <1>5, <1>6, Returned

LEMMA ReceiptStep == ASSUME RelayInv, Receipt PROVE RelayInv'
<1>1. /\ pc = "wait" /\ receipt' = "none" /\ done' \in {done, done \cup {InstructionOf(at)}}
      /\ nextLog(Open) /\ UNCHANGED <<chainVars, rangeVars, mempool, headAtStart, answers, pending, age>>
  BY DEF Receipt, awaitReceipt, limitVars
<1>2. InstructionOf(at) \in 1..Len(instructions)
  BY <1>1, InHand DEF RelayInv, HandOK
<1>3. Recorded
  BY <1>1, <1>2 DEF Recorded, RelayInv, RelayTypeOK
<1> QED
  BY <1>1, <1>3, Returned

LEMMA SendStep == ASSUME RelayInv, SendResult PROVE RelayInv'
<1>1. PICK i \in InstructionId : handling /\ see(i) /\ done' = done
  BY DEF SendResult, fetch, markSent
<1>2. /\ pc' = "wait" /\ mempool' = Append(mempool, at)
      /\ UNCHANGED <<next, head, at, receipt, headAtStart, chainVars, answers, pending>>
  BY DEF SendResult, sendTransaction, rangeVars, limitVars
<1>3. UNCHANGED events /\ Blocks' = Blocks /\ BlockNumber' = BlockNumber
  BY <1>2, ChainStays
<1>4. at \in Blocks
  BY <1>1, InHand DEF handling
<1>5. HandOK'
  BY <1>1, <1>2, <1>3 DEF RelayInv, HandOK, handling, Dispatches, handlers
<1>6. LoopTypeOK' /\ mempool' \in Seq(Blocks)
  BY <1>2, <1>3, <1>4 DEF RelayInv, RelayTypeOK, LoopTypeOK
<1>7. Recorded
  BY <1>1, <1>2, Seen DEF Recorded, RelayInv, RelayTypeOK
<1> QED
  BY <1>2, <1>5, <1>6, <1>7, OwnMove

LEMMA PollStep == ASSUME RelayInv, Poll PROVE RelayInv'
<1>1. /\ head' = BlockNumber /\ goOnFrom(next, BlockNumber, Open)
      /\ UNCHANGED <<next, done, mempool, receipt, headAtStart, chainVars, answers, pending, age>>
  BY DEF Poll, poll, limitVars
<1>2. UNCHANGED events /\ Blocks' = Blocks /\ BlockNumber' = BlockNumber
  BY <1>1, ChainStays
<1>3. next \in Nat /\ BlockNumber \in Nat
  BY Lengths DEF BlockNumber
<1>4. /\ pc' = "handle" /\ at' \in 1..(BlockNumber + 1)
      /\ at' <= BlockNumber => at' \in Blocks /\ Dispatches(at')
  BY <1>1, <1>3, GoesOn
<1>5. HandOK'
  BY <1>1, <1>2, <1>4 DEF HandOK, Dispatches, handlers
<1>6. LoopTypeOK' /\ mempool' \in Seq(Blocks)
  BY <1>1, <1>2, <1>3, <1>4 DEF RelayInv, RelayTypeOK, LoopTypeOK
<1>7. Recorded
  BY <1>1 DEF Recorded, RelayInv, RelayTypeOK
<1> QED
  BY <1>4, <1>5, <1>6, <1>7, OwnMove

LEMMA EndOfRangeStep == ASSUME RelayInv, EndOfRange PROVE RelayInv'
<1>0. /\ next \in 0..(BlockNumber + 1) /\ head \in 0..BlockNumber /\ BlockNumber \in Nat
  BY Lengths DEF RelayInv, RelayTypeOK, LoopTypeOK, BlockNumber
<1>1. /\ pc' = "poll" /\ head' = 0 /\ at' = 0 /\ next' \in {next, head + 1}
      /\ UNCHANGED <<mempool, receipt, done, headAtStart, chainVars, answers, age>> /\ pending' = FALSE
  BY DEF EndOfRange, endOfRange, limitVars
<1>2. Recorded
  BY <1>1 DEF Recorded, RelayInv, RelayTypeOK
<1>3. UNCHANGED events /\ Blocks' = Blocks /\ BlockNumber' = BlockNumber
  BY <1>1, ChainStays
<1>4. HandOK' /\ LoopTypeOK' /\ mempool' \in Seq(Blocks)
  BY <1>0, <1>1, <1>3 DEF HandOK, LoopTypeOK, RelayInv, RelayTypeOK
<1> QED
  BY <1>1, <1>2, <1>4, OwnMove

-----------------------------------------------------------------------------
(* Steps of others *)

LEMMA OthersMove ==
    ASSUME RelayInv, LogGrows, UNCHANGED <<pc, next, head, at, done, headAtStart>>,
           mempool' \in Seq(Blocks), receipt' \in {"none", "success", "reverted"},
           pending' \in BOOLEAN, age' \in [InstructionId -> {"unseen", "fresh", "overdue"}],
           DOMAIN answers' = InstructionId,
           \A i \in InstructionId : answers'[i] # NoAnswer => i <= Len(instructions)
    PROVE  RelayInv'
<1>1. /\ Len(instructions) \in Nat /\ Len(events) \in Nat
      /\ Len(instructions') \in Nat /\ Len(events') \in Nat
      /\ next \in Nat /\ head \in Nat /\ at \in Nat
      /\ Len(instructions) <= Len(instructions') /\ Len(events) <= Len(events')
  BY Lengths, LengthIsNatural DEF LogGrows, LogOK
<1>2. Blocks \subseteq Blocks'
  BY <1>1 DEF Blocks
<1>3. LoopTypeOK'
  BY <1>1 DEF RelayInv, RelayTypeOK, LoopTypeOK, BlockNumber
<1>4. HandOK'
  <2>1. CASE pc # "poll" /\ at <= head
    <3>1. at \in 1..Len(events) /\ Dispatches(at)
      BY <2>1 DEF RelayInv, HandOK, Blocks
    <3>2. events'[at] = events[at] /\ at' = at /\ at \in Blocks'
      BY <1>2, <3>1 DEF LogGrows, Blocks
    <3> QED
      BY <2>1, <3>1, <3>2 DEF HandOK, Dispatches, RelayInv, handlers
  <2>2. CASE ~(pc # "poll" /\ at <= head)
    BY <2>2 DEF HandOK, RelayInv
  <2> QED
    BY <2>1, <2>2
<1>5. done' \subseteq 1..Len(instructions')
  BY <1>1 DEF RelayInv, RelayTypeOK
<1>6. mempool' \in Seq(Blocks')
  <2>1. PICK B : B = Blocks'
    OBVIOUS
  <2>2. mempool' \in Seq(B)
    BY <1>2, <2>1
  <2> QED
    BY <2>1, <2>2
<1>7. \A i \in InstructionId : answers'[i] # NoAnswer => i <= Len(instructions')
  <2> SUFFICES ASSUME NEW i \in InstructionId, answers'[i] # NoAnswer PROVE i <= Len(instructions')
      OBVIOUS
  <2>1. i <= Len(instructions) /\ i \in Int
    BY DEF InstructionId
  <2> QED
    BY <1>1, <2>1
<1>8. RelayTypeOK'
  BY <1>3, <1>5, <1>6, <1>7 DEF RelayInv, RelayTypeOK, Answered
<1> QED
  BY <1>4, <1>8 DEF RelayInv, LogGrows

LEMMA MineStep == ASSUME RelayInv, Mine PROVE RelayInv'
<1>1. /\ mempool # <<>> /\ mempool' = Tail(mempool)
      /\ receipt' \in {"success", "reverted", receipt}
      /\ UNCHANGED <<pc, next, head, at, done, headAtStart, answers, pending, age>>
  BY DEF Mine, included, rangeVars, limitVars
<1>2. LogGrows
  <2>1. CASE UNCHANGED chainVars
    BY <2>1, ChainStays, LogSame DEF RelayInv
  <2>2. CASE Call(mempool[1])
    BY <2>2, Delivered DEF Call, RelayInv
  <2> QED
    BY <2>1, <2>2 DEF Mine
<1>3. mempool' \in Seq(Blocks)
  <2>1. mempool \in Seq(Blocks)
    BY DEF RelayInv, RelayTypeOK
  <2> QED
    BY <1>1, <2>1, HeadTailProperties
<1>4. receipt' \in {"none", "success", "reverted"}
  BY <1>1 DEF RelayInv, RelayTypeOK, LoopTypeOK
<1>5. \A i \in InstructionId : answers'[i] # NoAnswer => i <= Len(instructions)
  BY <1>1 DEF RelayInv, RelayTypeOK, Answered
<1> QED
  BY <1>1, <1>2, <1>3, <1>4, <1>5, OthersMove DEF RelayInv, RelayTypeOK

\* The process dies, and blocks are made until the next one starts.
LEMMA RestartStep == ASSUME RelayInv, Restart PROVE RelayInv'
<1>1. /\ \E n \in 0..MaxDowntime : events' = events \o quietBlocks(n)
      /\ pc' = "poll" /\ next' = StartBlock' /\ head' = 0 /\ at' = 0 /\ done' = {} /\ receipt' = "none"
      /\ headAtStart' = BlockNumber' /\ UNCHANGED <<instructions, mempool, answers>>
      /\ pending' = FALSE /\ age' = [i \in InstructionId |-> "unseen"]
  BY DEF Restart, restart, controllerVars
<1>2. LogGrows
  <2>1. PICK n \in 0..MaxDowntime : events' = events \o quietBlocks(n)
    BY <1>1
  <2>2. PICK e : e = [event |-> "none", id |-> 0, instruction |-> 0]
    OBVIOUS
  <2>3. IsLengthened(events', events, n, e) /\ e.event = "none"
    BY <2>1, <2>2 DEF IsLengthened, quietBlocks
  <2> QED
    BY <1>1, <2>3, QuietBlocks DEF RelayInv
<1>3. /\ Len(events) \in Nat /\ Len(events') \in Nat /\ Len(events) <= Len(events')
      /\ BlockNumber' = Len(events')
  BY <1>2, Lengths, LengthIsNatural DEF LogGrows, LogOK, BlockNumber
<1>4. next' \in 0..(BlockNumber' + 1)
  BY <1>1, <1>3 DEF StartBlock
<1>5. HandOK' /\ LoopTypeOK'
  BY <1>1, <1>3, <1>4 DEF HandOK, LoopTypeOK
<1>6. mempool' \in Seq(Blocks')
  <2>1. PICK B : B = Blocks'
    OBVIOUS
  <2>2. Blocks \subseteq B /\ mempool \in Seq(Blocks)
    BY <1>3, <2>1 DEF Blocks, RelayInv, RelayTypeOK
  <2>3. mempool \in Seq(B)
    BY <2>2
  <2> QED
    BY <1>1, <2>1, <2>3
<1>7. RelayTypeOK'
  BY <1>1, <1>5, <1>6 DEF RelayTypeOK, RelayInv, Answered
<1> QED
  BY <1>1, <1>2, <1>5, <1>7 DEF RelayInv, LogGrows

LEMMA PatienceStep == ASSUME RelayInv, NEW i \in InstructionId, PatienceRunsOut(i) PROVE RelayInv'
<1>1. /\ UNCHANGED <<chainVars, loopVars, answers, pending>>
      /\ age' \in [InstructionId -> {"unseen", "fresh", "overdue"}]
  BY DEF PatienceRunsOut, RelayInv, RelayTypeOK
<1>2. LogGrows
  BY <1>1, ChainStays, LogSame DEF RelayInv
<1>3. \A j \in InstructionId : answers'[j] # NoAnswer => j <= Len(instructions)
  BY <1>1 DEF RelayInv, RelayTypeOK, Answered
<1> QED
  BY <1>1, <1>2, <1>3, OthersMove DEF RelayInv, RelayTypeOK, LoopTypeOK, loopVars, rangeVars, limitVars

LEMMA AnswerStep == ASSUME RelayInv, NEW i \in 1..Len(instructions), EnclaveAnswers(i) PROVE RelayInv'
<1>1. /\ UNCHANGED <<chainVars, loopVars, pending, age>>
      /\ \E x : answers' = [answers EXCEPT ![i] = x]
  BY DEF EnclaveAnswers
<1>2. LogGrows
  BY <1>1, ChainStays, LogSame DEF RelayInv
<1>3. ASSUME NEW j \in InstructionId, answers'[j] # NoAnswer PROVE j <= Len(instructions)
  <2>1. j = i \/ answers[j] # NoAnswer
    BY <1>1, <1>3 DEF RelayInv
  <2>2. i <= Len(instructions)
    BY Lengths
  <2> QED
    BY <2>1, <2>2 DEF RelayInv, RelayTypeOK, Answered
<1>4. DOMAIN answers' = InstructionId
  BY <1>1 DEF RelayInv
<1> QED
  BY <1>1, <1>2, <1>3, <1>4, OthersMove DEF RelayInv, RelayTypeOK, LoopTypeOK, loopVars, rangeVars, limitVars

LEMMA UsersMove ==
    ASSUME RelayInv, Users, UNCHANGED <<loopVars, answers, pending, age>>
    PROVE  RelayInv'
<1>1. LogGrows
  BY UsersStep DEF RelayInv
<1>2. \A j \in InstructionId : answers'[j] # NoAnswer => j <= Len(instructions)
  BY DEF RelayInv, RelayTypeOK, Answered
<1> QED
  BY <1>1, <1>2, OthersMove DEF RelayInv, RelayTypeOK, LoopTypeOK, loopVars, rangeVars, limitVars

-----------------------------------------------------------------------------
(* Type correctness *)

LEMMA InitRelay == RelayInit => RelayInv
<1> SUFFICES ASSUME RelayInit PROVE RelayInv
    OBVIOUS
<1>1. events = <<>> /\ \E x : instructions \in {<<>>, <<x>>}
  BY DEF RelayInit, OneTreasuryBound, NoTreasuryYet
<1>2. IsSequence(events) /\ IsSequence(instructions) /\ Len(events) = 0 /\ Len(instructions) \in Nat
  <2>1. ASSUME NEW s, s = <<>> PROVE IsSequence(s) /\ Len(s) = 0
    BY <2>1 DEF IsSequence
  <2>2. ASSUME NEW s, NEW x, s = <<x>> PROVE IsSequence(s) /\ Len(s) = 1
    <3>1. Len(s) = 1 /\ s[1] = x
      BY <2>2
    <3>2. PICK S : S = {s[i] : i \in 1..Len(s)}
      OBVIOUS
    <3>3. s \in Seq(S)
      BY <2>2, <3>1, <3>2
    <3> QED
      BY <3>1, <3>2, <3>3 DEF IsSequence
  <2> QED
    BY <1>1, <2>1, <2>2
<1>3. LogOK
  BY <1>2 DEF LogOK
<1>4. /\ pc = "poll" /\ next = 0 /\ head = 0 /\ at = 0 /\ done = {} /\ mempool = <<>>
      /\ receipt = "none" /\ headAtStart = 0 /\ pending = FALSE
      /\ answers = [i \in InstructionId |-> NoAnswer] /\ age = [i \in InstructionId |-> "unseen"]
  BY DEF RelayInit, LoopInit
<1>5. mempool \in Seq(Blocks)
  BY <1>4, EmptySeq
<1>6. HandOK /\ LoopTypeOK
  BY <1>2, <1>4 DEF HandOK, LoopTypeOK, BlockNumber
<1>7. DOMAIN answers = InstructionId /\ \A i \in InstructionId : ~Answered(i)
  BY <1>4 DEF Answered
<1>8. RelayTypeOK
  BY <1>4, <1>5, <1>6, <1>7 DEF RelayTypeOK
<1> QED
  BY <1>3, <1>6, <1>7, <1>8 DEF RelayInv

LEMMA NextRelay == RelayInv /\ [RelayNext]_relayVars => RelayInv'
<1> SUFFICES ASSUME RelayInv, [RelayNext]_relayVars PROVE RelayInv'
    OBVIOUS
<1>1. CASE RelayStep
  BY <1>1, PollStep, HandlingStep, SendStep, ReceiptStep, EndOfRangeStep DEF RelayStep
<1>2. CASE Mine
  BY <1>2, MineStep
<1>3. CASE Restart
  BY <1>3, RestartStep
<1>4. CASE \E i \in InstructionId : PatienceRunsOut(i)
  BY <1>4, PatienceStep
<1>5. CASE \E i \in 1..Len(instructions) : EnclaveAnswers(i)
  BY <1>5, AnswerStep
<1>6. CASE Users /\ UNCHANGED <<loopVars, answers, pending, age>>
  BY <1>6, UsersMove
<1>7. CASE UNCHANGED relayVars
  <2>1. UNCHANGED <<chainVars, loopVars, answers, pending, age>>
    BY <1>7 DEF relayVars
  <2>2. LogGrows
    BY <2>1, ChainStays, LogSame DEF RelayInv
  <2>3. \A j \in InstructionId : answers'[j] # NoAnswer => j <= Len(instructions)
    BY <2>1 DEF RelayInv, RelayTypeOK, Answered
  <2> QED
    BY <2>1, <2>2, <2>3, OthersMove DEF RelayInv, RelayTypeOK, LoopTypeOK, loopVars, rangeVars, limitVars
<1> QED
  BY <1>1, <1>2, <1>3, <1>4, <1>5, <1>6, <1>7 DEF RelayNext

(***************************************************************************)
(* The relay only works on what the controller announced: its cursor and   *)
(* the event in hand stay within the log, its transactions are answers to  *)
(* logged events, and what it records as done, and what the enclave has    *)
(* answered, was dispatched before.                                        *)
(***************************************************************************)
THEOREM RelayTypesHold == RelaySpec => []RelayTypeOK
<1>1. RelayInv => RelayTypeOK
  BY DEF RelayInv
<1> QED
  BY <1>1, InitRelay, NextRelay, PTL DEF RelaySpec
=============================================================================
