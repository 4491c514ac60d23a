------------------------- MODULE BroadcasterProofs -------------------------
(***************************************************************************)
(* The broadcaster's safety, proved for any number of payments, failures   *)
(* and restarts: only what was submitted to XRPL is reported to the        *)
(* controller, under the id XRPL gave it.                                  *)
(*                                                                         *)
(* The invariant says of every report in the mempool, which survives the   *)
(* process that sent it, and of the event in hand from its submission to   *)
(* its receipt, that the blob was submitted and has the predicted id.      *)
(* Blobs are published once: a published request is not AUTHORIZED, and    *)
(* only an AUTHORIZED one is given a blob.  The account's sequence has     *)
(* passed one published payment for each number below it, so that there    *)
(* are at least as many requests.                                          *)
(***************************************************************************)
EXTENDS Broadcaster, FiniteSetTheorems, SequenceTheorems, WellFoundedInduction, TLAPS

USE ConstantsAssumption, LoopAssumption, PaymentsAssumption

\* The fields of struct PaymentRequest, and a value that has them all.
Fields == {"treasuryId", "nonce", "expiresAt", "payloadHash", "memoRef", "amountDrops",
           "destinationHash", "expectedTxId", "signedBlobHash", "xrplTxId", "state"}
Complete(q) == q = [f \in Fields |-> q[f]]

RequestsComplete ==
    /\ requests = [r \in RequestId |-> requests[r]]
    /\ \A r \in RequestId : Complete(requests[r])

\* A logged event of a request, and a block without one.
Logged == [event : {"PaymentSigned", "PaymentBroadcast"}, id : RequestId,
           instruction : {Len(instructions)}]
Quiet == [event |-> "none", id |-> 0, instruction |-> 0]
Event == Logged \cup {Quiet}

\* What is published is a blob, and is not published again.
PublishedOnce ==
    \A r \in RequestId : Published(r) =>
       blobOf(r) \in Blob /\ requests[r].state # "AUTHORIZED"

ChainOK ==
    /\ RequestsComplete
    /\ PublishedOnce
    /\ events \in Seq(Event)
    /\ \A b \in 1..Len(events) : events[b].event # "none" => Published(events[b].id)

\* handle has submitted the event in hand.
Busy == pc \in {"report", "wait"}

RangeOK ==
    /\ pc \in {"poll", "handle", "report", "wait"}
    /\ next \in 0..(Len(events) + 1)
    /\ head \in 0..Len(events)
    /\ at \in 0..(head + 1)
    /\ pc # "poll" => at # 0
    /\ Busy => at <= head
    /\ pc # "poll" /\ at <= head => events[at].event # "none"
    /\ headAtStart \in 0..Len(events)

\* The blob was submitted and has the id the enclave predicted.
Reportable(r) == Offered(r) /\ asPredicted(r)
Sendable(b) == events[b].event # "none" /\ Reportable(events[b].id)

SendOK ==
    /\ mempool \in Seq(1..Len(events))
    /\ \A i \in 1..Len(mempool) : Sendable(mempool[i])
    /\ Busy => Sendable(at)
    /\ receipt \in {"none", "success", "reverted"}
    /\ done \subseteq RequestId

XrplOK ==
    /\ ledger \in 0..MaxLedger
    /\ sequence \in Nat \ {0}
    /\ \A o \in offered : o.blob \in Blob
    /\ \A c \in candidates : \E r \in RequestId : Published(r) /\ c = blobOf(r)
    /\ \A s \in 1..(sequence - 1) : \E r \in RequestId : Published(r) /\ blobOf(r).sequence = s

BroadcasterInv == ChainOK /\ RangeOK /\ SendOK /\ XrplOK /\ ReportedWasOffered

-----------------------------------------------------------------------------
(* The chain: what is published stays, and the log only grows *)

ChainMoves ==
    /\ ChainOK'
    /\ \A r \in RequestId : Published(r) =>
          /\ Published(r)' /\ blobOf(r)' = blobOf(r)
          /\ requests'[r].expectedTxId = requests[r].expectedTxId
    /\ Len(events) <= Len(events')
    /\ \A b \in 1..Len(events) : events'[b] = events[b]

\* A report on chain was there before.
NothingReported ==
    \A r \in RequestId : requests'[r].state = "BROADCAST" =>
       requests[r].state = "BROADCAST" /\ requests'[r].xrplTxId = requests[r].xrplTxId

LEMMA ChainSame ==
    ASSUME ChainOK, UNCHANGED chainVars
    PROVE  ChainMoves /\ NothingReported /\ UNCHANGED <<requests, events>>
<1>1. UNCHANGED <<requests, events, instructions>>
  BY DEF chainVars, controllerVars, requestVars
<1> QED
  BY <1>1 DEF ChainOK, ChainMoves, NothingReported, RequestsComplete, PublishedOnce, Published, blobOf, Event, Logged

\* A request is written; a published one keeps its blob and its predicted id.
Writes(r, q) ==
    /\ Complete(q)
    /\ requests' = [requests EXCEPT ![r] = q]
    /\ Published(r) => /\ q.signedBlobHash = requests[r].signedBlobHash
                       /\ q.expectedTxId = requests[r].expectedTxId
    /\ q.signedBlobHash # NoHash => q.signedBlobHash.keccak256 \in Blob /\ q.state # "AUTHORIZED"

LEMMA RequestWritten ==
    ASSUME ChainOK, NEW r \in RequestId, NEW q, Writes(r, q)
    PROVE  /\ RequestsComplete' /\ PublishedOnce'
           /\ requests'[r] = q /\ \A s \in RequestId \ {r} : requests'[s] = requests[s]
           /\ \A s \in RequestId : Published(s) =>
                 /\ Published(s)' /\ blobOf(s)' = blobOf(s)
                 /\ requests'[s].expectedTxId = requests[s].expectedTxId
<1>1. /\ requests'[r] = q /\ \A s \in RequestId \ {r} : requests'[s] = requests[s]
      /\ requests' = [s \in RequestId |-> requests'[s]]
  BY DEF ChainOK, RequestsComplete, Writes
<1>2. RequestsComplete'
  BY <1>1 DEF ChainOK, RequestsComplete, Writes
<1>3. ASSUME NEW s \in RequestId
      PROVE  /\ Published(s) =>
                 /\ Published(s)' /\ blobOf(s)' = blobOf(s)
                 /\ requests'[s].expectedTxId = requests[s].expectedTxId
             /\ Published(s)' => blobOf(s)' \in Blob /\ requests'[s].state # "AUTHORIZED"
  <2>1. CASE s = r
    BY <1>1, <2>1 DEF Writes, Published, blobOf
  <2>2. CASE s # r
    <3>1. requests'[s] = requests[s]
      BY <1>1, <2>2
    <3> QED
      BY <3>1 DEF ChainOK, PublishedOnce, Published, blobOf
  <2> QED
    BY <2>1, <2>2
<1> QED
  BY <1>1, <1>2, <1>3 DEF PublishedOnce

LEMMA EventEmitted ==
    ASSUME ChainOK, NEW r \in RequestId, NEW name \in {"PaymentSigned", "PaymentBroadcast"},
           emit(name, r), UNCHANGED instructions
    PROVE  /\ events' \in Seq(Event') /\ Len(events) <= Len(events')
           /\ \A b \in 1..Len(events) : events'[b] = events[b]
           /\ \A b \in 1..Len(events') : b \in 1..Len(events) \/ events'[b].id = r
<1>1. PICK e : e = [event |-> name, id |-> r, instruction |-> Len(instructions)]
  OBVIOUS
<1>2. /\ e \in Event /\ events \in Seq(Event) /\ events' = Append(events, e) /\ Event' = Event
      /\ e.id = r
  BY <1>1 DEF Event, Logged, ChainOK, emit
<1>3. PICK E : E = Event
  OBVIOUS
<1>4. e \in E /\ events \in Seq(E) /\ events' = Append(events, e)
  BY <1>2, <1>3
<1>5. /\ events' \in Seq(E) /\ Len(events) <= Len(events')
      /\ \A b \in 1..Len(events) : events'[b] = events[b]
      /\ \A b \in 1..Len(events') : b \in 1..Len(events) \/ events'[b] = e
  BY <1>4
<1> QED
  BY <1>2, <1>3, <1>5

\* An event's request is one of the requests.
LEMMA EventOf ==
    ASSUME ChainOK, NEW b \in 1..Len(events), events[b].event # "none"
    PROVE  events[b].id \in RequestId /\ Published(events[b].id)
<1>1. events[b] \in Event /\ Published(events[b].id)
  BY DEF ChainOK
<1>2. events[b] \in Logged
  BY <1>1 DEF Event, Quiet
<1> QED
  BY <1>1, <1>2 DEF Logged

\* A request is closed, or the clock moves; nothing is logged.
LEMMA SilentWrite ==
    ASSUME ChainOK, NEW r \in RequestId, NEW state \in {"EXPIRED", "CANCELLED"},
           requests' = [requests EXCEPT ![r] = [@ EXCEPT !.state = state]],
           UNCHANGED <<events, instructions>>
    PROVE  ChainMoves /\ NothingReported
<1>1. PICK q : q = [requests[r] EXCEPT !.state = state]
  OBVIOUS
<1>2. PICK f : f = [x \in Fields |-> requests[r][x]]
  OBVIOUS
<1>3. requests[r] = f
  BY <1>2 DEF ChainOK, RequestsComplete, Complete
<1>4. /\ Complete(q) /\ q.state = state /\ q.signedBlobHash = requests[r].signedBlobHash
      /\ q.expectedTxId = requests[r].expectedTxId
  BY <1>1, <1>2, <1>3 DEF Complete, Fields
<1>5. requests' = [requests EXCEPT ![r] = q]
  BY <1>1
<1>6. Writes(r, q)
  BY <1>4, <1>5 DEF Writes, ChainOK, PublishedOnce, Published, blobOf
<1>7. /\ RequestsComplete' /\ PublishedOnce'
      /\ requests'[r] = q /\ \A s \in RequestId \ {r} : requests'[s] = requests[s]
      /\ \A s \in RequestId : Published(s) =>
            /\ Published(s)' /\ blobOf(s)' = blobOf(s)
            /\ requests'[s].expectedTxId = requests[s].expectedTxId
  BY <1>6, RequestWritten
<1>8. \A b \in 1..Len(events) : events[b].event # "none" =>
         events[b].id \in RequestId /\ Published(events[b].id)
  BY EventOf
<1>9. ChainOK'
  BY <1>7, <1>8 DEF ChainOK, Event, Logged
<1>10. NothingReported
  BY <1>4, <1>7 DEF NothingReported
<1>11. Len(events) <= Len(events')
  BY DEF ChainOK
<1> QED
  BY <1>7, <1>9, <1>10, <1>11 DEF ChainMoves

LEMMA ClosedOrLate ==
    ASSUME ChainOK,
           \/ \E s \in Account, r \in RequestId : Cancel(s, r)
           \/ \E r \in RequestId : Expire(r)
           \/ TimePasses
    PROVE  ChainMoves /\ NothingReported
<1>1. ASSUME NEW s \in Account, NEW r \in RequestId, Cancel(s, r) PROVE ChainMoves /\ NothingReported
  <2>1. /\ requests' = [requests EXCEPT ![r] = [@ EXCEPT !.state = "CANCELLED"]]
        /\ UNCHANGED <<events, instructions>>
    BY <1>1 DEF Cancel, cancelRequest, setRequestState
  <2> QED
    BY <2>1, SilentWrite
<1>2. ASSUME NEW r \in RequestId, Expire(r) PROVE ChainMoves /\ NothingReported
  <2>1. /\ requests' = [requests EXCEPT ![r] = [@ EXCEPT !.state = "EXPIRED"]]
        /\ UNCHANGED <<events, instructions>>
    BY <1>2 DEF Expire, expireRequest, setRequestState
  <2> QED
    BY <2>1, SilentWrite
<1>3. CASE TimePasses
  <2>1. UNCHANGED <<requests, events, instructions>>
    BY <1>3 DEF TimePasses, Tick, requestVars
  <2> QED
    BY <2>1 DEF ChainOK, ChainMoves, NothingReported, RequestsComplete, PublishedOnce, Published, blobOf,
                Event, Logged
<1> QED
  BY <1>1, <1>2, <1>3

\* What a logging step must show.
LEMMA LoggedWrite ==
    ASSUME ChainOK, NEW r \in RequestId, NEW q, Writes(r, q), q.signedBlobHash # NoHash,
           NEW name \in {"PaymentSigned", "PaymentBroadcast"}, emit(name, r), UNCHANGED instructions
    PROVE  ChainMoves /\ requests'[r] = q /\ \A s \in RequestId \ {r} : requests'[s] = requests[s]
<1>1. /\ RequestsComplete' /\ PublishedOnce'
      /\ requests'[r] = q /\ \A s \in RequestId \ {r} : requests'[s] = requests[s]
      /\ \A s \in RequestId : Published(s) =>
            /\ Published(s)' /\ blobOf(s)' = blobOf(s)
            /\ requests'[s].expectedTxId = requests[s].expectedTxId
  BY RequestWritten
<1>2. /\ events' \in Seq(Event') /\ Len(events) <= Len(events')
      /\ \A b \in 1..Len(events) : events'[b] = events[b]
      /\ \A b \in 1..Len(events') : b \in 1..Len(events) \/ events'[b].id = r
  BY EventEmitted
<1>3. ASSUME NEW b \in 1..Len(events'), events'[b].event # "none"
      PROVE  requests'[events'[b].id].signedBlobHash # NoHash
  <2>1. CASE events'[b].id = r
    BY <1>1, <2>1
  <2>2. CASE b \in 1..Len(events)
    <3>1. events'[b] = events[b] /\ events[b].id \in RequestId /\ Published(events[b].id)
      BY <1>2, <1>3, <2>2, EventOf
    <3> QED
      BY <1>1, <3>1 DEF Published
  <2> QED
    BY <1>2, <2>1, <2>2
<1>4. ChainOK'
  BY <1>1, <1>2, <1>3 DEF ChainOK, Published
<1> QED
  BY <1>1, <1>2, <1>4 DEF ChainMoves

\* The report of a request on chain: its state becomes BROADCAST, and its id the prediction.
LEMMA Reported ==
    ASSUME ChainOK, NEW r \in RequestId, Published(r), NEW tx, tx = requests[r].expectedTxId,
           ReportBroadcast(r, tx)
    PROVE  /\ ChainMoves
           /\ requests'[r].xrplTxId = requests[r].expectedTxId
           /\ \A s \in RequestId \ {r} : requests'[s] = requests[s]
<1>1. PICK q : q = [requests[r] EXCEPT !.xrplTxId = tx, !.state = "BROADCAST"]
  OBVIOUS
<1>2. PICK f : f = [x \in Fields |-> requests[r][x]]
  OBVIOUS
<1>3. requests[r] = f
  BY <1>2 DEF ChainOK, RequestsComplete, Complete
<1>4. /\ Complete(q) /\ q.state = "BROADCAST" /\ q.signedBlobHash = requests[r].signedBlobHash
      /\ q.expectedTxId = requests[r].expectedTxId /\ q.xrplTxId = tx
  BY <1>1, <1>2, <1>3 DEF Complete, Fields
<1>5. requests' = [requests EXCEPT ![r] = q] /\ emit("PaymentBroadcast", r) /\ UNCHANGED instructions
  BY <1>1 DEF ReportBroadcast, reportBroadcast
<1>6. Writes(r, q) /\ q.signedBlobHash # NoHash
  BY <1>4, <1>5 DEF Writes, ChainOK, PublishedOnce, Published, blobOf
<1> QED
  BY <1>4, <1>5, <1>6, LoggedWrite
\* A sequence number is used by one payment: no more of them are used than there are requests.
LEMMA SequenceBound ==
    ASSUME XrplOK
    PROVE  sequence \in 1..(MaxRequests + 1)
<1> DEFINE Uses(s, r) == Published(r) /\ blobOf(r).sequence = s
           f == [s \in 1..(sequence - 1) |-> CHOOSE r \in RequestId : Uses(s, r)]
<1>1. sequence \in Nat \ {0} /\ sequence - 1 \in Int /\ MaxRequests \in Nat
  BY DEF XrplOK
<1>2. \A s \in 1..(sequence - 1) : \E r \in RequestId : Uses(s, r)
  BY DEF XrplOK
<1>3. \A s \in 1..(sequence - 1) : f[s] \in RequestId /\ Uses(s, f[s])
  BY <1>2
<1>4. ASSUME NEW s, NEW t, NEW r, Uses(s, r), Uses(t, r) PROVE s = t
  BY <1>4
<1> HIDE DEF Uses
<1>5. f \in [1..(sequence - 1) -> RequestId]
  BY <1>3
<1> HIDE DEF f
<1>6. \A s, t \in 1..(sequence - 1) : f[s] = f[t] => s = t
  BY <1>3, <1>4
<1>7. /\ IsFiniteSet(1..(sequence - 1)) /\ IsFiniteSet(RequestId)
      /\ Cardinality(1..(sequence - 1)) = IF 1 > sequence - 1 THEN 0 ELSE sequence - 1
      /\ Cardinality(RequestId) = IF 1 > MaxRequests THEN 0 ELSE MaxRequests
  <2>1. /\ IsFiniteSet(1..(sequence - 1))
        /\ Cardinality(1..(sequence - 1)) = IF 1 > sequence - 1 THEN 0 ELSE sequence - 1 - 1 + 1
    BY <1>1, FS_Interval
  <2>2. /\ IsFiniteSet(1..MaxRequests)
        /\ Cardinality(1..MaxRequests) = IF 1 > MaxRequests THEN 0 ELSE MaxRequests - 1 + 1
    BY <1>1, FS_Interval
  <2> QED
    BY <1>1, <2>1, <2>2 DEF RequestId
<1>8. ~(Cardinality(RequestId) < Cardinality(1..(sequence - 1)))
  <2> SUFFICES ASSUME Cardinality(RequestId) < Cardinality(1..(sequence - 1)) PROVE FALSE
      OBVIOUS
  <2>1. \E s, t \in 1..(sequence - 1) : s # t /\ f[s] = f[t]
    BY <1>5, <1>7, FS_PigeonHole
  <2> QED
    BY <1>6, <2>1
<1> QED
  BY <1>1, <1>7, <1>8

LEMMA SignedOnChain ==
    ASSUME ChainOK, XrplOK, NEW r \in RequestId, SignedPayment(r)
    PROVE  ChainMoves /\ NothingReported
<1>0. PICK s \in 1..sequence, w \in LedgerWindow : \E tx :
         Deliver("submitSignedPayment",
                 [signer |-> teeAddress, status |-> 1,
                  data |-> [kind |-> "signed", deployment |-> ThisDeployment, requestId |-> r,
                            memoRef |-> requests[r].memoRef, expectedTxId |-> tx,
                            signedTxBlob |-> [request |-> r, sequence |-> s,
                                              lastLedger |-> ledger + w]]])
  BY Zenon DEF SignedPayment
<1>1. PICK tx :
         Deliver("submitSignedPayment",
                 [signer |-> teeAddress, status |-> 1,
                  data |-> [kind |-> "signed", deployment |-> ThisDeployment, requestId |-> r,
                            memoRef |-> requests[r].memoRef, expectedTxId |-> tx,
                            signedTxBlob |-> [request |-> r, sequence |-> s,
                                              lastLedger |-> ledger + w]]])
  BY <1>0
<1>2. PICK blob : blob = [request |-> r, sequence |-> s, lastLedger |-> ledger + w]
  OBVIOUS
<1>3. blob \in Blob
  <2>1. s \in 1..(MaxRequests + 1) /\ ledger \in 0..MaxLedger
    BY SequenceBound DEF XrplOK
  <2> QED
    BY <1>2, <2>1
<1>4. PICK h : h = Keccak(blob)
  OBVIOUS
<1>5. h # NoHash /\ h.keccak256 = blob
  BY <1>3, <1>4 DEF BlobHash, Keccak
<1>6. /\ requests' = [requests EXCEPT ![r] = [@ EXCEPT !.expectedTxId = tx, !.signedBlobHash = h,
                                                       !.state = "SIGNED"]]
      /\ requests[r].state = "AUTHORIZED" /\ emit("PaymentSigned", r) /\ UNCHANGED instructions
  BY <1>1, <1>2, <1>4 DEF Deliver, submitSignedPayment
<1>7. PICK q : q = [requests[r] EXCEPT !.expectedTxId = tx, !.signedBlobHash = h, !.state = "SIGNED"]
  OBVIOUS
<1>8. PICK f : f = [x \in Fields |-> requests[r][x]]
  OBVIOUS
<1>9. requests[r] = f
  BY <1>8 DEF ChainOK, RequestsComplete, Complete
<1>10. Complete(q) /\ q.state = "SIGNED" /\ q.signedBlobHash = h
  BY <1>7, <1>8, <1>9 DEF Complete, Fields
<1>11. requests' = [requests EXCEPT ![r] = q]
  BY <1>6, <1>7
<1>12. ~Published(r)
  BY <1>6 DEF ChainOK, PublishedOnce
<1>13. Writes(r, q) /\ q.signedBlobHash # NoHash
  BY <1>3, <1>5, <1>10, <1>11, <1>12 DEF Writes
<1>14. ChainMoves /\ requests'[r] = q /\ \A u \in RequestId \ {r} : requests'[u] = requests[u]
  BY <1>6, <1>13, LoggedWrite
<1> QED
  BY <1>10, <1>14 DEF NothingReported

-----------------------------------------------------------------------------
(* What was submitted stays submitted *)

LEMMA ReportableStays ==
    ASSUME ChainMoves, offered \subseteq offered', NEW r \in RequestId
    PROVE  /\ Offered(r) => Offered(r)' /\ blobOf(r)' = blobOf(r)
           /\ Reportable(r) => Reportable(r)'
<1>1. Offered(r) => Offered(r)' /\ blobOf(r)' = blobOf(r) /\ Published(r)
  BY DEF ChainMoves, Offered
<1>2. ASSUME Reportable(r) PROVE Reportable(r)'
  BY <1>1, <1>2 DEF ChainMoves, Reportable, asPredicted, txIdOf
<1> QED
  BY <1>1, <1>2

\* A step that reports nothing keeps what is said of the reports.
LEMMA ReportsStay ==
    ASSUME ReportedWasOffered, ChainMoves, NothingReported, offered \subseteq offered'
    PROVE  ReportedWasOffered'
<1> SUFFICES ASSUME NEW r \in RequestId, requests'[r].state = "BROADCAST"
             PROVE  Offered(r)' /\ requests'[r].xrplTxId = txIdOf(blobOf(r)')
    BY DEF ReportedWasOffered, txIdOf
<1>1. /\ Offered(r) /\ requests[r].xrplTxId = txIdOf(blobOf(r))
      /\ requests'[r].xrplTxId = requests[r].xrplTxId
  BY DEF NothingReported, ReportedWasOffered
<1> QED
  BY <1>1, ReportableStays

\* The log grows under the mempool, and the event in hand.
LEMMA SendStays ==
    ASSUME ChainOK, SendOK, ChainMoves, offered \subseteq offered'
    PROVE  /\ mempool \in Seq(1..Len(events'))
           /\ \A b \in 1..Len(events) : Sendable(b) => Sendable(b)'
           /\ \A b \in 1..Len(events) : events'[b] = events[b]
           /\ Len(events) \in Nat /\ Len(events') \in Nat /\ Len(events) <= Len(events')
<1>1. Len(events) \in Nat /\ Len(events') \in Nat /\ Len(events) <= Len(events')
      /\ \A b \in 1..Len(events) : events'[b] = events[b]
  BY DEF ChainMoves, ChainOK
<1>2. PICK B, C : B = 1..Len(events) /\ C = 1..Len(events')
  OBVIOUS
<1>3. B \subseteq C /\ mempool \in Seq(B)
  BY <1>1, <1>2 DEF SendOK
<1>4. mempool \in Seq(C) /\ \A i \in 1..Len(mempool) : mempool[i] \in B
  BY <1>3
<1>5. ASSUME NEW b \in 1..Len(events), Sendable(b) PROVE Sendable(b)'
  <2>1. /\ events'[b] = events[b] /\ events[b].event # "none" /\ events[b].id \in RequestId
    BY <1>1, <1>5, EventOf DEF Sendable
  <2>2. PICK r \in RequestId : r = events[b].id
    BY <2>1
  <2>3. Reportable(r)'
    BY <1>5, <2>2, ReportableStays DEF Sendable
  <2>4. events'[b].id = r /\ events'[b].event # "none"
    BY <2>1, <2>2
  <2> QED
    BY <2>3, <2>4 DEF Sendable, Reportable, Offered, asPredicted, Published, blobOf
<1> QED
  BY <1>1, <1>2, <1>4, <1>5

\* What is known of XRPL stays known while requests are published.
LEMMA XrplStays ==
    ASSUME XrplOK, ChainMoves, UNCHANGED <<xrplVars, offered>>
    PROVE  XrplOK'
<1>1. UNCHANGED <<ledger, sequence, candidates>>
  BY DEF xrplVars
<1>2. \A r \in RequestId : Published(r) => Published(r)' /\ blobOf(r)' = blobOf(r)
  BY DEF ChainMoves
<1>3. /\ ledger' \in 0..MaxLedger /\ sequence' \in Nat \ {0} /\ \A o \in offered' : o.blob \in Blob
  BY <1>1 DEF XrplOK
<1>4. ASSUME NEW c \in candidates PROVE \E r \in RequestId : Published(r)' /\ c = blobOf(r)'
  BY <1>2 DEF XrplOK
<1>5. ASSUME NEW s \in 1..(sequence - 1) PROVE \E r \in RequestId : Published(r)' /\ blobOf(r)'.sequence = s
  <2>1. PICK r \in RequestId : Published(r) /\ blobOf(r).sequence = s
    BY DEF XrplOK
  <2>2. Published(r)' /\ blobOf(r)' = blobOf(r)
    BY <1>2, <2>1
  <2> QED
    BY <2>1, <2>2
<1> QED
  BY <1>1, <1>3, <1>4, <1>5 DEF XrplOK
-----------------------------------------------------------------------------
(* The ledger *)

LEMMA LedgerCloses ==
    ASSUME XrplOK, CloseLedger, UNCHANGED <<chainVars, offered>>
    PROVE  XrplOK'
<1>0. UNCHANGED requests
  BY DEF chainVars, controllerVars, requestVars
<1>1. \A r \in RequestId : (Published(r)' <=> Published(r)) /\ blobOf(r)' = blobOf(r)
  BY <1>0 DEF Published, blobOf
<1>2. ledger' \in 0..MaxLedger /\ (\A o \in offered' : o.blob \in Blob) /\ candidates' \subseteq candidates
  BY DEF XrplOK, CloseLedger, stillPossible
<1>3. ASSUME NEW c \in candidates' PROVE \E r \in RequestId : Published(r)' /\ c = blobOf(r)'
  BY <1>1, <1>2 DEF XrplOK
<1>4. /\ sequence' \in Nat \ {0}
      /\ \A s \in 1..(sequence' - 1) : s \in 1..(sequence - 1) \/ \E tx \in candidates : tx.sequence = s
  BY DEF XrplOK, CloseLedger
<1>5. ASSUME NEW s \in 1..(sequence' - 1)
      PROVE  \E r \in RequestId : Published(r)' /\ blobOf(r)'.sequence = s
  <2>1. PICK r \in RequestId : Published(r) /\ blobOf(r).sequence = s
    <3>1. CASE s \in 1..(sequence - 1)
      BY <3>1 DEF XrplOK
    <3>2. ASSUME NEW tx \in candidates, tx.sequence = s
          PROVE  \E r \in RequestId : Published(r) /\ blobOf(r).sequence = s
      BY <3>2 DEF XrplOK
    <3> QED
      BY <1>4, <3>1, <3>2
  <2>2. Published(r)' /\ blobOf(r)' = blobOf(r)
    BY <1>1, <2>1
  <2> QED
    BY <2>1, <2>2
<1> QED
  BY <1>2, <1>3, <1>4, <1>5 DEF XrplOK

\* XRPL is sent a published blob, and it or its answer may be lost.
LEMMA BlobOffered ==
    ASSUME XrplOK, ChainOK, NEW r \in RequestId, Published(r), NEW code, NEW note,
           receiveSubmission(blobOf(r), code), UNCHANGED chainVars,
           offered' = offered \cup {[blob |-> blobOf(r), code |-> note]}
    PROVE  XrplOK'
<1>0. UNCHANGED <<requests, ledger, sequence>> /\ candidates' \subseteq candidates \cup {blobOf(r)}
  BY DEF chainVars, controllerVars, requestVars, receiveSubmission
<1>1. \A s \in RequestId : (Published(s)' <=> Published(s)) /\ blobOf(s)' = blobOf(s)
  BY <1>0 DEF Published, blobOf
<1>2. \A o \in offered' : o.blob \in Blob
  BY DEF XrplOK, ChainOK, PublishedOnce
<1>3. ASSUME NEW c \in candidates' PROVE \E s \in RequestId : Published(s)' /\ c = blobOf(s)'
  <2>1. CASE c = blobOf(r)
    BY <1>1, <2>1
  <2>2. CASE c \in candidates
    BY <1>1, <2>2 DEF XrplOK
  <2> QED
    BY <1>0, <2>1, <2>2
<1>4. ASSUME NEW s \in 1..(sequence - 1)
      PROVE  \E u \in RequestId : Published(u)' /\ blobOf(u)'.sequence = s
  <2>1. PICK u \in RequestId : Published(u) /\ blobOf(u).sequence = s
    BY DEF XrplOK
  <2>2. Published(u)' /\ blobOf(u)' = blobOf(u)
    BY <1>1, <2>1
  <2> QED
    BY <2>1, <2>2
<1> QED
  BY <1>0, <1>2, <1>3, <1>4 DEF XrplOK

-----------------------------------------------------------------------------
(* The loop *)

LEMMA InHand ==
    ASSUME BroadcasterInv, pc # "poll", at <= head
    PROVE  /\ at \in 1..Len(events) /\ events[at].id \in RequestId /\ Published(events[at].id)
<1>1. at \in 1..Len(events) /\ events[at].event # "none"
  BY DEF BroadcasterInv, RangeOK, ChainOK
<1> QED
  BY <1>1, EventOf DEF BroadcasterInv

LEMMA LeastElement ==
    ASSUME NEW T, T \subseteq Nat, T # {}
    PROVE  \E n \in T : \A m \in T : n <= m
<1> DEFINE R == {ss \in Nat \X Nat : ss[1] < ss[2]}
<1>1. IsWellFoundedOn(R, Nat)
  BY NatLessThanWellFounded, Zenon DEF OpToRel
<1>2. \A m, n \in Nat : m < n => <<m, n>> \in R
  OBVIOUS
<1> HIDE DEF R
<1>3. PICK n \in T : \A m \in T : ~(<<m, n>> \in R)
  BY <1>1, WFMin
<1>4. \A m \in T : n <= m
  <2> TAKE m \in T
  <2>1. ~(m < n)
    BY <1>2, <1>3
  <2> QED
    BY <2>1
<1> QED
  BY <1>4

\* The loop goes on at an open event of the range, or past it.
LEMMA GoesOn ==
    ASSUME NEW b \in Nat, NEW last \in Nat, goOnFrom(b, last, Open)
    PROVE  pc' = "handle" /\ at' \in 1..(last + 1) /\ (at' <= last => events[at'].event # "none")
<1> DEFINE S == {last + 1} \cup ((b..last) \cap Open)
<1>1. S \subseteq Nat /\ S # {} /\ S \subseteq 1..(last + 1)
  BY DEF Open, Blocks
<1>2. pc' = "handle" /\ at' = CHOOSE x \in S : \A y \in S : x <= y
  BY DEF goOnFrom, Min
<1>3. \A x \in S : x = last + 1 \/ events[x].event # "none"
  BY DEF Open
<1> HIDE DEF S
<1>4. \E x \in S : \A y \in S : x <= y
  BY <1>1, LeastElement
<1>5. at' \in S
  BY <1>2, <1>4
<1>6. PICK x \in S : x = at'
  BY <1>5
<1>7. x <= last => events[x].event # "none"
  BY <1>1, <1>3
<1> QED
  BY <1>1, <1>2, <1>6, <1>7

\* The log grows under the loop.
LEMMA RangeStays ==
    ASSUME ChainOK, RangeOK, ChainMoves, UNCHANGED <<pc, next, head, at, headAtStart>>
    PROVE  RangeOK'
<1>1. /\ Len(events) \in Nat /\ Len(events') \in Nat /\ Len(events) <= Len(events')
      /\ \A b \in 1..Len(events) : events'[b] = events[b]
  BY DEF ChainMoves, ChainOK
<1>2. pc # "poll" /\ at <= head => at \in 1..Len(events)
  BY <1>1 DEF RangeOK
<1>3. pc # "poll" /\ at <= head => events'[at].event # "none"
  BY <1>1, <1>2 DEF RangeOK
<1> QED
  BY <1>1, <1>3 DEF RangeOK, Busy

\* Steps of others.
LEMMA OtherStep ==
    ASSUME BroadcasterInv, ChainMoves, NothingReported, XrplOK', UNCHANGED <<loopVars, offered>>
    PROVE  BroadcasterInv'
<1>0. /\ ChainOK /\ RangeOK /\ SendOK /\ ReportedWasOffered
      /\ UNCHANGED <<pc, next, head, at, done, mempool, receipt, headAtStart>>
  BY DEF BroadcasterInv, loopVars, rangeVars, limitVars
<1>1. /\ mempool \in Seq(1..Len(events'))
      /\ \A b \in 1..Len(events) : Sendable(b) => Sendable(b)'
  BY <1>0, SendStays
<1>2. RangeOK'
  BY <1>0, RangeStays
<1>3. ASSUME NEW i \in 1..Len(mempool) PROVE Sendable(mempool[i])'
  <2>1. PICK b \in 1..Len(events) : b = mempool[i]
    BY <1>0 DEF SendOK
  <2>2. Sendable(b)'
    BY <1>0, <1>1, <2>1 DEF SendOK
  <2>3. mempool'[i] = b
    BY <1>0, <2>1
  <2> QED
    BY <2>2, <2>3 DEF Sendable, Reportable, Offered, asPredicted, Published, blobOf
<1>4. ASSUME Busy PROVE Sendable(at)'
  <2>1. pc # "poll" /\ at <= head
    BY <1>0, <1>4 DEF RangeOK, Busy
  <2>2. at \in 1..Len(events)
    BY <2>1, InHand
  <2>3. PICK b \in 1..Len(events) : b = at
    BY <2>2
  <2>4. Sendable(b)' /\ at' = b
    BY <1>0, <1>1, <1>4, <2>3 DEF SendOK
  <2> QED
    BY <2>4 DEF Sendable, Reportable, Offered, asPredicted, Published, blobOf
<1>5. SendOK'
  BY <1>0, <1>1, <1>3, <1>4 DEF SendOK, Busy
<1>6. ReportedWasOffered'
  BY <1>0, ReportsStay
<1> QED
  BY <1>2, <1>5, <1>6 DEF BroadcasterInv, ChainMoves

\* The process moves; the chain and the mempool do not.
LEMMA OwnStep ==
    ASSUME BroadcasterInv, UNCHANGED <<chainVars, mempool>>, offered \subseteq offered', XrplOK',
           RangeOK', receipt' \in {"none", "success", "reverted"}, done' \subseteq RequestId,
           Busy' => at' \in 1..Len(events) /\ Sendable(at)'
    PROVE  BroadcasterInv'
<1>0. ChainOK /\ SendOK /\ ReportedWasOffered
  BY DEF BroadcasterInv
<1>1. ChainMoves /\ NothingReported /\ UNCHANGED <<requests, events>>
  BY <1>0, ChainSame
<1>2. ASSUME NEW i \in 1..Len(mempool) PROVE Sendable(mempool[i])'
  <2>1. PICK b \in 1..Len(events) : b = mempool[i]
    BY <1>0 DEF SendOK
  <2>2. Sendable(b) /\ events[b].event # "none"
    BY <1>0, <2>1 DEF SendOK, Sendable
  <2>3. PICK r \in RequestId : r = events[b].id
    BY <1>0, <2>2, EventOf
  <2>4. Reportable(r)'
    BY <1>1, <2>2, <2>3, ReportableStays DEF Sendable
  <2>5. events'[mempool'[i]].id = r /\ events'[mempool'[i]].event # "none"
    BY <1>1, <2>1, <2>2, <2>3
  <2> QED
    BY <2>4, <2>5 DEF Sendable, Reportable, Offered, asPredicted, Published, blobOf
<1>3. SendOK'
  BY <1>0, <1>1, <1>2 DEF SendOK
<1>4. ReportedWasOffered'
  BY <1>0, <1>1, ReportsStay
<1> QED
  BY <1>1, <1>3, <1>4 DEF BroadcasterInv, ChainMoves

\* handle returns, and the loop goes on with the next event.
LEMMA ReturnStep ==
    ASSUME BroadcasterInv, nextLog(Open), UNCHANGED <<chainVars, rangeVars, headAtStart, mempool>>,
           offered \subseteq offered', XrplOK', receipt' \in {"none", "success", "reverted"},
           done' \subseteq RequestId
    PROVE  BroadcasterInv'
<1>0. ChainOK /\ RangeOK
  BY DEF BroadcasterInv
<1>1. UNCHANGED <<events, next, head>> /\ at + 1 \in Nat /\ head \in Nat /\ Len(events) \in Nat
  BY <1>0 DEF chainVars, rangeVars, RangeOK, ChainOK
<1>2. /\ pc' = "handle" /\ at' \in 1..(head + 1)
      /\ at' <= head => events[at'].event # "none"
  BY <1>1, GoesOn DEF nextLog
<1>3. RangeOK' /\ ~Busy'
  BY <1>0, <1>1, <1>2 DEF RangeOK, Busy
<1> QED
  BY <1>3, OwnStep

LEMMA XrplSame ==
    ASSUME XrplOK, ChainOK, UNCHANGED <<chainVars, xrplVars, offered>>
    PROVE  XrplOK'
BY ChainSame, XrplStays

LEMMA PollStep ==
    ASSUME BroadcasterInv, Poll \/ EndOfRange
    PROVE  BroadcasterInv'
<1>0. ChainOK /\ RangeOK /\ SendOK /\ XrplOK
  BY DEF BroadcasterInv
<1>1. UNCHANGED <<chainVars, xrplVars, offered, mempool, headAtStart, done, receipt>>
  BY DEF Poll, poll, EndOfRange, endOfRange, limitVars
<1>2. XrplOK' /\ UNCHANGED events /\ Len(events) \in Nat
  BY <1>0, <1>1, XrplSame DEF chainVars, ChainOK
<1>3. CASE Poll
  <2>1. /\ next' = next /\ head' = Len(events)
        /\ goOnFrom(next, Len(events), Open) /\ next \in Nat
    BY <1>0, <1>2, <1>3 DEF Poll, poll, BlockNumber, RangeOK
  <2>2. /\ pc' = "handle" /\ at' \in 1..(Len(events) + 1)
        /\ at' <= Len(events) => events[at'].event # "none"
    BY <1>2, <2>1, GoesOn
  <2>3. RangeOK' /\ ~Busy'
    BY <1>0, <1>1, <1>2, <2>1, <2>2 DEF RangeOK, Busy
  <2> QED
    BY <1>0, <1>1, <1>2, <2>3, OwnStep DEF SendOK
<1>4. CASE EndOfRange
  <2>1. next' = head + 1 /\ pc' = "poll" /\ head' = 0 /\ at' = 0
    BY <1>4 DEF EndOfRange, endOfRange
  <2>2. RangeOK' /\ ~Busy'
    BY <1>0, <1>1, <1>2, <2>1 DEF RangeOK, Busy
  <2> QED
    BY <1>0, <1>1, <1>2, <2>2, OwnStep DEF SendOK
<1> QED
  BY <1>3, <1>4

-----------------------------------------------------------------------------
(* Between two processes *)

IsLengthened(t, s, n, e) == t = s \o [b \in 1..n |-> e]

LEMMA Lengthened ==
    ASSUME NEW S, NEW s, s \in Seq(S), NEW n \in Nat, NEW e \in S, NEW t, IsLengthened(t, s, n, e)
    PROVE  /\ t \in Seq(S) /\ Len(s) <= Len(t)
           /\ \A b \in 1..Len(s) : t[b] = s[b]
           /\ \A b \in 1..Len(t) : b \in 1..Len(s) \/ t[b] = e
<1> DEFINE q == [b \in 1..n |-> e]
<1>1. q \in Seq(S) /\ Len(q) = n /\ Len(s) \in Nat /\ \A b \in 1..n : q[b] = e
  OBVIOUS
<1> HIDE DEF q
<1>2. t \in Seq(S) /\ Len(t) = Len(s) + n
  BY <1>1, ConcatProperties DEF IsLengthened, q
<1>3. \A b \in 1..Len(t) : t[b] = IF b <= Len(s) THEN s[b] ELSE q[b - Len(s)]
  BY <1>1, <1>2, ConcatProperties DEF IsLengthened, q
<1>4. \A b \in 1..Len(s) : t[b] = s[b]
  BY <1>1, <1>2, <1>3
<1>5. ASSUME NEW b \in 1..Len(t), b \notin 1..Len(s) PROVE t[b] = e
  <2>1. b - Len(s) \in 1..n /\ ~(b <= Len(s))
    BY <1>1, <1>2, <1>5
  <2>2. q[b - Len(s)] = e
    BY <1>1, <2>1
  <2> QED
    BY <1>3, <2>1, <2>2
<1>6. Len(s) <= Len(t)
  BY <1>1, <1>2
<1>7. \A b \in 1..Len(t) : b \in 1..Len(s) \/ t[b] = e
  BY <1>5, Zenon
<1> QED
  BY <1>2, <1>4, <1>6, <1>7, Zenon

LEMMA QuietBlocks ==
    ASSUME ChainOK, NEW n \in Nat, IsLengthened(events', events, n, Quiet),
           UNCHANGED controllerVars
    PROVE  ChainMoves /\ NothingReported
<1>1. UNCHANGED <<requests, instructions>>
  BY DEF controllerVars, requestVars
<1>2. PICK E : E = Event
  OBVIOUS
<1>3. PICK e : e = Quiet
  OBVIOUS
<1>4. /\ e \in E /\ events \in Seq(E) /\ Event' = E /\ e.event = "none"
      /\ IsLengthened(events', events, n, e)
  BY <1>1, <1>2, <1>3 DEF Event, Logged, Quiet, ChainOK
<1>5. /\ events' \in Seq(E) /\ Len(events) <= Len(events')
      /\ \A b \in 1..Len(events) : events'[b] = events[b]
      /\ \A b \in 1..Len(events') : b \in 1..Len(events) \/ events'[b] = e
  BY <1>4, Lengthened
<1>6. ASSUME NEW r \in RequestId
      PROVE  (Published(r)' <=> Published(r)) /\ blobOf(r)' = blobOf(r)
  BY <1>1 DEF Published, blobOf
<1>7. ASSUME NEW b \in 1..Len(events'), events'[b].event # "none"
      PROVE  requests'[events'[b].id].signedBlobHash # NoHash
  <2>1. b \in 1..Len(events)
    BY <1>4, <1>5, <1>7
  <2>2. events'[b] = events[b] /\ events[b].event # "none"
    BY <1>5, <1>7, <2>1
  <2>3. Published(events[b].id)
    BY <2>1, <2>2 DEF ChainOK
  <2> QED
    BY <1>1, <2>2, <2>3 DEF Published
<1>8. RequestsComplete' /\ PublishedOnce'
  BY <1>1, <1>6 DEF ChainOK, RequestsComplete, PublishedOnce
<1>9. ChainOK'
  BY <1>4, <1>5, <1>7, <1>8 DEF ChainOK, Published
<1> QED
  BY <1>1, <1>5, <1>6, <1>9 DEF ChainMoves, NothingReported

\* The process dies, and blocks are made until the next one starts.
LEMMA RestartStep ==
    ASSUME BroadcasterInv, Restart
    PROVE  BroadcasterInv'
<1>0. ChainOK /\ SendOK /\ XrplOK /\ ReportedWasOffered
  BY DEF BroadcasterInv
<1>1. /\ UNCHANGED <<controllerVars, mempool, xrplVars, offered>>
      /\ pc' = "poll" /\ head' = 0 /\ at' = 0 /\ headAtStart' = Len(events')
      /\ done' = {} /\ receipt' = "none" /\ next' = StartBlock'
      /\ \E n \in 0..MaxDowntime : events' = events \o quietBlocks(n)
  BY DEF Restart, restart, BlockNumber
<1>2. ChainMoves /\ NothingReported
  <2>1. PICK n \in 0..MaxDowntime : events' = events \o quietBlocks(n)
    BY <1>1
  <2>2. IsLengthened(events', events, n, Quiet)
    BY <2>1 DEF IsLengthened, quietBlocks, Quiet
  <2> QED
    BY <1>0, <1>1, <2>2, QuietBlocks
<1>3. XrplOK' /\ ReportedWasOffered'
  BY <1>0, <1>1, <1>2, XrplStays, ReportsStay
<1>4. /\ mempool \in Seq(1..Len(events'))
      /\ \A b \in 1..Len(events) : Sendable(b) => Sendable(b)'
      /\ Len(events') \in Nat
  BY <1>0, <1>1, <1>2, SendStays
<1>5. next' \in 0..(Len(events') + 1)
  BY <1>1, <1>4 DEF StartBlock, BlockNumber
<1>6. RangeOK' /\ ~Busy'
  BY <1>1, <1>4, <1>5 DEF RangeOK, Busy
<1>7. ASSUME NEW i \in 1..Len(mempool) PROVE Sendable(mempool[i])'
  <2>1. PICK b \in 1..Len(events) : b = mempool[i]
    BY <1>0 DEF SendOK
  <2>2. Sendable(b)'
    BY <1>0, <1>4, <2>1 DEF SendOK
  <2>3. mempool'[i] = b
    BY <1>1, <2>1
  <2> QED
    BY <2>2, <2>3 DEF Sendable, Reportable, Offered, asPredicted, Published, blobOf
<1>8. SendOK'
  BY <1>0, <1>1, <1>4, <1>6, <1>7 DEF SendOK
<1> QED
  BY <1>2, <1>3, <1>6, <1>8 DEF BroadcasterInv, ChainMoves

-----------------------------------------------------------------------------
(* handle *)

LEMMA SubmitStep ==
    ASSUME BroadcasterInv, SubmitBlob \/ SubmitError
    PROVE  BroadcasterInv'
<1>0. ChainOK /\ RangeOK /\ SendOK /\ XrplOK
  BY DEF BroadcasterInv
<1>1. pc = "handle" /\ at <= head /\ at # 0 /\ done' = done /\ headAtStart' = headAtStart
  BY <1>0 DEF SubmitBlob, SubmitError, handling, RangeOK, meet, limitVars
<1>2. PICK r \in RequestId : /\ r = events[at].id /\ Published(r) /\ at \in 1..Len(events)
                             /\ events[at].event # "none"
  BY <1>0, <1>1, InHand DEF RangeOK
<1>3. CASE SubmitBlob
  <2>1. PICK code : /\ receiveSubmission(blobOf(r), code)
                    /\ offered' = offered \cup {[blob |-> blobOf(r), code |-> code]}
                    /\ IF accepted(code) /\ asPredicted(r)
                       THEN pc' = "report" /\ UNCHANGED <<chainVars, rangeVars, at, mempool, receipt>>
                       ELSE return
    BY <1>2, <1>3 DEF SubmitBlob
  <2>2. UNCHANGED <<chainVars, rangeVars, mempool, receipt>> /\ offered \subseteq offered'
    BY <2>1 DEF return
  <2>3. XrplOK'
    BY <1>0, <1>2, <2>1, <2>2, BlobOffered
  <2>4. CASE accepted(code) /\ asPredicted(r)
    <3>1. pc' = "report" /\ UNCHANGED <<at, next, head, events, requests>>
      BY <2>1, <2>2, <2>4 DEF rangeVars, chainVars, controllerVars, requestVars
    <3>2. RangeOK'
      BY <1>0, <1>1, <3>1 DEF RangeOK, Busy
    <3>3. PICK o : o = [blob |-> blobOf(r), code |-> code]
      OBVIOUS
    <3>4. o \in offered' /\ o.blob = blobOf(r)
      BY <2>1, <3>3
    <3>5. requests'[r] = requests[r] /\ events'[at'].id = r /\ events'[at'].event # "none"
      BY <1>2, <3>1
    <3>6. Published(r)' /\ blobOf(r)' = blobOf(r)
      BY <1>2, <3>5 DEF Published, blobOf
    <3>7. Offered(r)'
      BY <3>4, <3>6 DEF Offered
    <3>8. asPredicted(r)'
      BY <2>4, <3>5 DEF asPredicted, txIdOf, blobOf
    <3>9. Reportable(r)'
      BY <3>7, <3>8 DEF Reportable
    <3>10. Sendable(at)'
      BY <3>5, <3>9 DEF Sendable, Reportable, Offered, asPredicted, Published, blobOf
    <3> QED
      BY <1>0, <1>1, <1>2, <2>2, <2>3, <3>1, <3>2, <3>10, OwnStep DEF SendOK
  <2>5. CASE ~(accepted(code) /\ asPredicted(r))
    <3>1. nextLog(Open)
      BY <2>1, <2>5 DEF return
    <3> QED
      BY <1>0, <1>1, <2>2, <2>3, <3>1, ReturnStep DEF SendOK
  <2> QED
    BY <2>4, <2>5
<1>4. CASE SubmitError
  <2>1. nextLog(Open) /\ UNCHANGED <<chainVars, rangeVars, mempool, receipt>>
    BY <1>4 DEF SubmitError, return
  <2>2. \/ UNCHANGED <<offered, xrplVars>>
        \/ \E code : /\ receiveSubmission(blobOf(r), code)
                     /\ offered' = offered \cup {[blob |-> blobOf(r), code |-> "lost"]}
    BY <1>2, <1>4 DEF SubmitError
  <2>3. XrplOK' /\ offered \subseteq offered'
    <3>1. CASE UNCHANGED <<offered, xrplVars>>
      BY <1>0, <2>1, <3>1, XrplSame
    <3>2. ASSUME NEW code, receiveSubmission(blobOf(r), code),
                 offered' = offered \cup {[blob |-> blobOf(r), code |-> "lost"]}
          PROVE  XrplOK' /\ offered \subseteq offered'
      BY <1>0, <1>2, <2>1, <3>2, BlobOffered
    <3> QED
      BY <2>2, <3>1, <3>2
  <2> QED
    BY <1>0, <1>1, <2>1, <2>3, ReturnStep DEF SendOK
<1> QED
  BY <1>3, <1>4

LEMMA ReportStep ==
    ASSUME BroadcasterInv, AlreadyReported \/ ReportError \/ EstimateError \/ Receipt
    PROVE  BroadcasterInv'
<1>0. ChainOK /\ RangeOK /\ SendOK /\ XrplOK
  BY DEF BroadcasterInv
<1>1. /\ pc \in {"report", "wait"} /\ nextLog(Open)
      /\ UNCHANGED <<chainVars, rangeVars, headAtStart, mempool, xrplVars, offered>>
      /\ done' \subseteq done \cup {events[at].id}
      /\ receipt' = receipt \/ receipt' = "none"
  BY DEF AlreadyReported, ReportError, EstimateError, Receipt, reporting, return, awaitReceipt, meet, limitVars
<1>2. pc # "poll" /\ at <= head
  BY <1>0, <1>1 DEF RangeOK, Busy
<1>3. done' \subseteq RequestId /\ receipt' \in {"none", "success", "reverted"}
  BY <1>0, <1>1, <1>2, InHand DEF SendOK
<1>4. XrplOK'
  BY <1>0, <1>1, XrplSame
<1> QED
  BY <1>1, <1>3, <1>4, ReturnStep

LEMMA SendStep ==
    ASSUME BroadcasterInv, SendReport
    PROVE  BroadcasterInv'
<1>0. ChainOK /\ RangeOK /\ SendOK /\ XrplOK /\ ReportedWasOffered
  BY DEF BroadcasterInv
<1>1. /\ pc = "report" /\ pc' = "wait" /\ mempool' = Append(mempool, at)
      /\ UNCHANGED <<chainVars, next, head, at, receipt, done, headAtStart, xrplVars, offered>>
  BY DEF SendReport, reporting, sendTransaction, rangeVars, limitVars
<1>2. ChainMoves /\ NothingReported /\ UNCHANGED <<requests, events>>
  BY <1>0, <1>1, ChainSame
<1>3. XrplOK' /\ ReportedWasOffered'
  BY <1>0, <1>1, <1>2, XrplSame, ReportsStay
<1>4. RangeOK'
  BY <1>0, <1>1, <1>2 DEF RangeOK, Busy
<1>5. at \in 1..Len(events) /\ Sendable(at)
  <2>1. pc # "poll" /\ at <= head
    BY <1>0, <1>1 DEF RangeOK, Busy
  <2> QED
    BY <1>0, <1>1, <2>1, InHand DEF SendOK, Busy
<1>6. PICK B : B = 1..Len(events)
  OBVIOUS
<1>7. mempool \in Seq(B) /\ at \in B
  BY <1>0, <1>5, <1>6 DEF SendOK
<1>8. /\ mempool' \in Seq(B)
      /\ \A i \in 1..Len(mempool') : mempool'[i] = at \/ (i \in 1..Len(mempool) /\ mempool'[i] = mempool[i])
  BY <1>1, <1>7
<1>9. ASSUME NEW b, Sendable(b) PROVE Sendable(b)'
  BY <1>1, <1>2, <1>9 DEF Sendable, Reportable, Offered, asPredicted, Published, blobOf
<1>10. ASSUME NEW i \in 1..Len(mempool') PROVE Sendable(mempool[i])'
  <2>1. PICK b : b = mempool'[i]
    OBVIOUS
  <2>2. Sendable(b)
    BY <1>0, <1>5, <1>8, <2>1 DEF SendOK
  <2>3. Sendable(b)'
    BY <1>9, <2>2
  <2> QED
    BY <2>1, <2>3 DEF Sendable, Reportable, Offered, asPredicted, Published, blobOf
<1>11. Sendable(at)'
  BY <1>1, <1>5, <1>9 DEF Sendable, Reportable, Offered, asPredicted, Published, blobOf
<1>12. SendOK'
  BY <1>0, <1>1, <1>2, <1>6, <1>8, <1>10, <1>11 DEF SendOK
<1> QED
  BY <1>2, <1>3, <1>4, <1>12 DEF BroadcasterInv, ChainMoves

-----------------------------------------------------------------------------
(* Blocks *)

LEMMA InclusionStep ==
    ASSUME BroadcasterInv, ChainMoves, mempool # <<>>, NEW status \in {"success", "reverted"},
           included(status), UNCHANGED <<xrplVars, offered>>, ReportedWasOffered'
    PROVE  BroadcasterInv'
<1>0. /\ ChainOK /\ RangeOK /\ SendOK /\ XrplOK
      /\ UNCHANGED <<pc, next, head, at, done, headAtStart>>
      /\ mempool' = Tail(mempool) /\ receipt' \in {receipt, status}
  BY DEF BroadcasterInv, included, rangeVars, limitVars
<1>1. /\ mempool \in Seq(1..Len(events'))
      /\ \A b \in 1..Len(events) : Sendable(b) => Sendable(b)'
  BY <1>0, SendStays
<1>2. RangeOK'
  BY <1>0, RangeStays
<1>3. XrplOK'
  BY <1>0, XrplStays
<1>4. PICK B : B = 1..Len(events')
  OBVIOUS
<1>5. mempool \in Seq(B)
  BY <1>1, <1>4
<1>6. /\ mempool' \in Seq(B)
      /\ \A i \in 1..Len(mempool') : i + 1 \in 1..Len(mempool) /\ mempool'[i] = mempool[i + 1]
  <2>1. PICK t : t = Tail(mempool)
    OBVIOUS
  <2>2. t \in Seq(B) /\ Len(t) = Len(mempool) - 1 /\ Len(mempool) \in Nat
    BY <1>5, <2>1
  <2>3. \A i \in 1..Len(t) : t[i] = mempool[i + 1]
    BY <1>5, <2>1, HeadTailProperties
  <2> QED
    BY <1>0, <2>1, <2>2, <2>3
<1>7. ASSUME NEW i \in 1..Len(mempool') PROVE Sendable(mempool[i])'
  <2>1. PICK b \in 1..Len(events) : b = mempool[i + 1]
    BY <1>0, <1>6 DEF SendOK
  <2>2. Sendable(b)'
    BY <1>0, <1>1, <1>6, <2>1 DEF SendOK
  <2>3. mempool'[i] = b
    BY <1>6, <2>1
  <2> QED
    BY <2>2, <2>3 DEF Sendable, Reportable, Offered, asPredicted, Published, blobOf
<1>8. ASSUME Busy PROVE Sendable(at)'
  <2>1. pc # "poll" /\ at <= head
    BY <1>0, <1>8 DEF RangeOK, Busy
  <2>2. PICK b \in 1..Len(events) : b = at
    BY <2>1, InHand
  <2>3. Sendable(b)' /\ at' = b
    BY <1>0, <1>1, <1>8, <2>2 DEF SendOK
  <2> QED
    BY <2>3 DEF Sendable, Reportable, Offered, asPredicted, Published, blobOf
<1>9. SendOK'
  BY <1>0, <1>4, <1>6, <1>7, <1>8 DEF SendOK, Busy
<1> QED
  BY <1>2, <1>3, <1>9 DEF BroadcasterInv, ChainMoves

LEMMA MineStep ==
    ASSUME BroadcasterInv, Mine
    PROVE  BroadcasterInv'
<1>0. /\ ChainOK /\ SendOK /\ ReportedWasOffered /\ mempool # <<>> /\ UNCHANGED <<xrplVars, offered>>
  BY DEF BroadcasterInv, Mine
<1>1. CASE included("reverted") /\ UNCHANGED chainVars
  BY <1>0, <1>1, ChainSame, ReportsStay, InclusionStep
<1>2. CASE Call(mempool[1]) /\ included("success")
  <2>1. 1 \in 1..Len(mempool) /\ mempool[1] \in 1..Len(events)
    <3>1. PICK B : B = 1..Len(events)
      OBVIOUS
    <3>2. mempool \in Seq(B)
      BY <1>0, <3>1 DEF SendOK
    <3> QED
      BY <1>0, <3>1, <3>2
  <2>2. PICK b \in 1..Len(events) : b = mempool[1]
    BY <2>1
  <2>3. Sendable(b) /\ events[b].event # "none"
    BY <1>0, <2>1, <2>2 DEF SendOK, Sendable
  <2>4. PICK r \in RequestId : r = events[b].id
    BY <1>0, <2>3, EventOf
  <2>5. Reportable(r) /\ Published(r)
    BY <2>3, <2>4 DEF Sendable, Reportable, Offered
  <2>6. PICK tx : tx = requests[r].expectedTxId
    OBVIOUS
  <2>7. ReportBroadcast(r, tx)
    BY <1>2, <2>2, <2>4, <2>6 DEF Call
  <2>8. /\ ChainMoves
        /\ requests'[r].xrplTxId = requests[r].expectedTxId
        /\ \A s \in RequestId \ {r} : requests'[s] = requests[s]
    BY <1>0, <2>5, <2>6, <2>7, Reported
  <2>9. ASSUME NEW s \in RequestId, requests'[s].state = "BROADCAST"
        PROVE  Offered(s)' /\ requests'[s].xrplTxId = txIdOf(blobOf(s)')
    <3>1. CASE s = r
      <4>1. Offered(r)' /\ blobOf(r)' = blobOf(r)
        BY <1>0, <2>5, <2>8, ReportableStays DEF Reportable
      <4>2. requests'[r].xrplTxId = txIdOf(blobOf(r))
        BY <2>5, <2>8 DEF Reportable, asPredicted
      <4> QED
        BY <3>1, <4>1, <4>2
    <3>2. CASE s # r
      <4>1. requests'[s] = requests[s]
        BY <2>8, <3>2
      <4>2. Offered(s) /\ requests[s].xrplTxId = txIdOf(blobOf(s))
        BY <1>0, <2>9, <4>1 DEF ReportedWasOffered
      <4>3. Offered(s)' /\ blobOf(s)' = blobOf(s)
        BY <1>0, <2>8, <4>2, ReportableStays
      <4> QED
        BY <4>1, <4>2, <4>3
    <3> QED
      BY <3>1, <3>2
  <2>10. ReportedWasOffered'
    BY <2>9 DEF ReportedWasOffered, txIdOf
  <2> QED
    BY <1>0, <1>2, <2>8, <2>10, InclusionStep
<1> QED
  BY <1>1, <1>2 DEF Mine
-----------------------------------------------------------------------------
(* The whole specification *)

LEMMA InitBroadcaster == BroadcasterInit => BroadcasterInv
<1> SUFFICES ASSUME BroadcasterInit PROVE BroadcasterInv
    OBVIOUS
<1>1. AllAuthorized
  BY DEF BroadcasterInit
<1>2. PICK a \in XrplAddress, d \in XrplAddress, p \in Policy, s \in Account, c \in Ciphertext,
           amount \in Drops : AllAuthorized!(a, d, p, s, c, amount)
  BY <1>1, Zenon DEF AllAuthorized
<1>3. /\ requests = [r \in RequestId |->
                       [BlankRequest EXCEPT !.treasuryId = 1,
                                            !.nonce = r,
                                            !.expiresAt = p.requestTtlSeconds,
                                            !.payloadHash = Keccak(c),
                                            !.memoRef = memoRef(1, r, r),
                                            !.amountDrops = amount,
                                            !.destinationHash = Keccak(d),
                                            !.state = "AUTHORIZED"]]
      /\ events = <<>>
  BY <1>2, ZenonT(30)
<1>4. requests = [r \in RequestId |-> requests[r]]
  <2> DEFINE Q(r) == [BlankRequest EXCEPT !.treasuryId = 1,
                                          !.nonce = r,
                                          !.expiresAt = p.requestTtlSeconds,
                                          !.payloadHash = Keccak(c),
                                          !.memoRef = memoRef(1, r, r),
                                          !.amountDrops = amount,
                                          !.destinationHash = Keccak(d),
                                          !.state = "AUTHORIZED"]
  <2>1. requests = [r \in RequestId |-> Q(r)]
    BY <1>3, Zenon
  <2> HIDE DEF Q
  <2> QED
    BY <2>1
<1>5. ASSUME NEW r \in RequestId
      PROVE  Complete(requests[r]) /\ ~Published(r) /\ requests[r].state = "AUTHORIZED"
  <2> DEFINE q == [BlankRequest EXCEPT !.treasuryId = 1,
                                       !.nonce = r,
                                       !.expiresAt = p.requestTtlSeconds,
                                       !.payloadHash = Keccak(c),
                                       !.memoRef = memoRef(1, r, r),
                                       !.amountDrops = amount,
                                       !.destinationHash = Keccak(d),
                                       !.state = "AUTHORIZED"]
  <2>1. Complete(q) /\ q.signedBlobHash = NoHash /\ q.state = "AUTHORIZED"
    BY DEF BlankRequest, Complete, Fields
  <2>2. requests[r] = q
    BY <1>3
  <2> HIDE DEF q
  <2> QED
    BY <2>1, <2>2 DEF Published
<1>6. events = <<>> /\ Len(events) = 0
  BY <1>3
<1>7. /\ pc = "poll" /\ next = 0 /\ head = 0 /\ at = 0 /\ done = {} /\ mempool = <<>>
      /\ receipt = "none" /\ headAtStart = 0 /\ ledger = 0 /\ sequence = 1 /\ candidates = {} /\ offered = {}
  BY DEF BroadcasterInit, LoopInit, XrplInit
<1> HIDE DEF BroadcasterInit
<1>8. ChainOK
  <2>1. RequestsComplete
    BY <1>4, <1>5, Zenon DEF RequestsComplete
  <2>2. events \in Seq(Event)
    BY <1>6, EmptySeq
  <2>3. PublishedOnce
    BY <1>5 DEF PublishedOnce
  <2>4. \A b \in 1..Len(events) : events[b].event # "none" => Published(events[b].id)
    BY <1>6
  <2> QED
    BY <2>1, <2>2, <2>3, <2>4 DEF ChainOK
<1>9. RangeOK
  BY <1>6, <1>7 DEF RangeOK, Busy
<1>10. SendOK
  <2>1. mempool \in Seq(1..Len(events)) /\ Len(mempool) = 0
    BY <1>7, EmptySeq
  <2> QED
    BY <1>7, <2>1 DEF SendOK, Busy
<1>11. XrplOK
  BY <1>7 DEF XrplOK
<1>12. ReportedWasOffered
  BY <1>5 DEF ReportedWasOffered
<1> QED
  BY <1>8, <1>9, <1>10, <1>11, <1>12 DEF BroadcasterInv

LEMMA NextBroadcaster == BroadcasterInv /\ [BroadcasterNext]_broadcasterVars => BroadcasterInv'
<1> SUFFICES ASSUME BroadcasterInv, [BroadcasterNext]_broadcasterVars PROVE BroadcasterInv'
    OBVIOUS
<1>0. ChainOK /\ XrplOK
  BY DEF BroadcasterInv
<1>1. CASE BroadcasterStep \/ Restart
  BY <1>1, PollStep, SubmitStep, ReportStep, SendStep, RestartStep DEF BroadcasterStep
<1>2. CASE Mine
  BY <1>2, MineStep
<1>3. CASE CloseLedger /\ UNCHANGED <<chainVars, loopVars, offered>>
  BY <1>0, <1>3, LedgerCloses, ChainSame, OtherStep
<1>4. CASE Environment /\ UNCHANGED <<loopVars, xrplVars, offered>>
  <2>1. ChainMoves /\ NothingReported
    BY <1>0, <1>4, SignedOnChain, ClosedOrLate DEF Environment
  <2> QED
    BY <1>0, <1>4, <2>1, XrplStays, OtherStep
<1>5. CASE UNCHANGED broadcasterVars
  <2>1. UNCHANGED <<chainVars, loopVars, xrplVars, offered>>
    BY <1>5 DEF broadcasterVars
  <2> QED
    BY <1>0, <2>1, ChainSame, XrplSame, OtherStep
<1> QED
  BY <1>1, <1>2, <1>3, <1>4, <1>5 DEF BroadcasterNext

LEMMA BroadcasterInvariant == BroadcasterSpec => []BroadcasterInv
BY InitBroadcaster, NextBroadcaster, PTL DEF BroadcasterSpec

(***************************************************************************)
(* The variables of the broadcaster and of the ledger have their type: the *)
(* mempool names logged events only, and the account's sequence does not   *)
(* pass the number of requests, each of which is paid at most once.        *)
(***************************************************************************)
THEOREM BroadcasterTypesHold == BroadcasterSpec => []BroadcasterTypeOK
<1>1. BroadcasterInv => BroadcasterTypeOK
  <2> SUFFICES ASSUME BroadcasterInv PROVE BroadcasterTypeOK
      OBVIOUS
  <2>1. ChainOK /\ RangeOK /\ SendOK /\ XrplOK
    BY DEF BroadcasterInv
  <2>2. LoopTypeOK /\ pc \in {"poll", "handle", "report", "wait"}
    BY <2>1 DEF LoopTypeOK, RangeOK, SendOK, BlockNumber
  <2>3. mempool \in Seq(Blocks) /\ done \subseteq RequestId
    BY <2>1 DEF SendOK, Blocks
  <2>4. {o.blob : o \in offered} \subseteq Blob /\ candidates \subseteq Blob
    BY <2>1 DEF XrplOK, ChainOK, PublishedOnce
  <2>5. ledger \in 0..MaxLedger /\ sequence \in 1..(MaxRequests + 1)
    BY <2>1, SequenceBound DEF XrplOK
  <2> QED
    BY <2>2, <2>3, <2>4, <2>5 DEF BroadcasterTypeOK
<1> QED
  BY <1>1, BroadcasterInvariant, PTL

(***************************************************************************)
(* handle reports only what XRPL answered for, and under the hash XRPL     *)
(* gave it, whatever the enclave predicted: so also of the reports a dead  *)
(* process left in the mempool, and for any number of payments, failures   *)
(* and restarts.                                                           *)
(***************************************************************************)
THEOREM OnlyTheSubmittedIsReported == BroadcasterSpec => []ReportedWasOffered
<1>1. BroadcasterInv => ReportedWasOffered
  BY DEF BroadcasterInv
<1> QED
  BY <1>1, BroadcasterInvariant, PTL
=============================================================================
