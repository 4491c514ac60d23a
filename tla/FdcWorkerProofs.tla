-------------------------- MODULE FdcWorkerProofs --------------------------
(***************************************************************************)
(* The FDC worker's safety, proved for any number of requests, failures    *)
(* and restarts: a request is marked done only if it is settled, and no    *)
(* attestation is paid for again after a restart.                          *)
(*                                                                         *)
(* The invariant follows the event in hand across settle's calls.  While   *)
(* settle waits for a receipt, the last call of the mempool is its own,    *)
(* and a success was the settlement of the request in hand.  An event's    *)
(* block is in the scanned range, and the log only grows.                  *)
(***************************************************************************)
EXTENDS FdcWorker, SequenceTheorems, WellFoundedInduction, TLAPS

USE ConstantsAssumption, LoopAssumption, WorkerAssumption

\* The fields of struct PaymentRequest, and a value that has them all.
Fields == {"treasuryId", "nonce", "expiresAt", "payloadHash", "memoRef", "amountDrops",
           "destinationHash", "expectedTxId", "signedBlobHash", "xrplTxId", "state"}
Complete(q) == q = [f \in Fields |-> q[f]]

RequestsComplete ==
    /\ requests = [r \in RequestId |-> requests[r]]
    /\ \A r \in RequestId : Complete(requests[r])

\* A logged event of a request, and a block without one.
Logged == [event : {"PaymentSigned", "PaymentBroadcast"}, id : RequestId,
           instruction : {Len(instructions)}]
Quiet == [event |-> "none", id |-> 0, instruction |-> 0]
Event == Logged \cup {Quiet}

ChainOK ==
    /\ RequestsComplete
    /\ events \in Seq(Event)
    /\ now \in Nat

\* settle has an event in hand.
Busy == pc \in {"attest", "wait", "round", "proof", "finalize"}

\* The range scanned is in the log, and the event in hand in the range.
RangeOK ==
    /\ pc \in {"poll", "handle", "attest", "wait", "round", "proof", "finalize"}
    /\ next \in 0..(Len(events) + 1)
    /\ head \in 0..Len(events)
    /\ at \in 0..(head + 1)
    /\ pc # "poll" => at # 0
    /\ Busy => at <= head
    /\ pc # "poll" /\ at <= head => events[at].event # "none"
    /\ headAtStart \in 0..Len(events)

FinalizeCall == [method |-> "finalizePayment", request |-> subject]

\* A receipt is for the last call sent, and success is the settlement it asked for.
ReceiptOK ==
    /\ mempool \in Seq([method : {"requestAttestation", "finalizePayment"}, request : RequestId])
    /\ receipt \in {"none", "success", "reverted"}
    /\ pc # "wait" => receipt = "none"
    /\ pc = "wait" /\ job.method = "finalizePayment" =>
          /\ mempool # <<>> => mempool[Len(mempool)] = FinalizeCall
          /\ receipt = "success" => requests[subject].state = "SETTLED"

Settled(r) == requests[r].state = "SETTLED"

\* What the process and its history say is settled.
MemoryOK ==
    /\ done \subseteq RequestId
    /\ \A r \in done : Settled(r)
    /\ settledAtStart \subseteq RequestId
    /\ \A r \in settledAtStart : Settled(r)
    /\ pc = "attest" => subject \notin settledAtStart \/ faults > 0

JobOK ==
    /\ job \in [method : {"none", "requestAttestation", "finalizePayment"}, round : Nat]
    /\ minedAt \in Nat
    /\ available \subseteq attested
    /\ faults \in Nat
    /\ fees \in [RequestId -> Nat]

WorkerInv == ChainOK /\ RangeOK /\ ReceiptOK /\ MemoryOK /\ JobOK

-----------------------------------------------------------------------------
(* The chain: a settled request stays settled, and the log only grows *)

ChainMoves ==
    /\ ChainOK'
    /\ \A r \in RequestId : Settled(r) => Settled(r)'
    /\ Len(events) <= Len(events')
    /\ \A b \in 1..Len(events) : events'[b] = events[b]

LEMMA ChainSame ==
    ASSUME ChainOK, UNCHANGED chainVars
    PROVE  ChainMoves
<1>1. UNCHANGED <<requests, events, instructions, now>>
  BY DEF chainVars, controllerVars, requestVars
<1> QED
  BY <1>1 DEF ChainOK, ChainMoves, RequestsComplete, Settled, Event, Logged

LEMMA RequestWritten ==
    ASSUME ChainOK, NEW r \in RequestId, NEW q, Complete(q), requests' = [requests EXCEPT ![r] = q],
           ~Settled(r) \/ q.state = "SETTLED"
    PROVE  RequestsComplete' /\ \A s \in RequestId : Settled(s) => Settled(s)'
<1>1. /\ requests'[r] = q /\ \A s \in RequestId \ {r} : requests'[s] = requests[s]
      /\ requests' = [s \in RequestId |-> requests'[s]]
  BY DEF ChainOK, RequestsComplete
<1> QED
  BY <1>1 DEF ChainOK, RequestsComplete, Settled

LEMMA EventEmitted ==
    ASSUME ChainOK, NEW r \in RequestId, NEW name \in {"PaymentSigned", "PaymentBroadcast"},
           emit(name, r), UNCHANGED instructions
    PROVE  /\ events' \in Seq(Event') /\ Len(events) <= Len(events')
           /\ \A b \in 1..Len(events) : events'[b] = events[b]
<1>1. PICK e : e = [event |-> name, id |-> r, instruction |-> Len(instructions)]
  OBVIOUS
<1>2. e \in Event /\ events \in Seq(Event) /\ events' = Append(events, e) /\ Event' = Event
  BY <1>1 DEF Event, Logged, ChainOK, emit
<1>3. PICK E : E = Event
  OBVIOUS
<1>4. e \in E /\ events \in Seq(E) /\ events' = Append(events, e)
  BY <1>2, <1>3
<1>5. /\ events' \in Seq(E) /\ Len(events) <= Len(events')
      /\ \A b \in 1..Len(events) : events'[b] = events[b]
  BY <1>4
<1> QED
  BY <1>2, <1>3, <1>5

LEMMA ClosedOrLate ==
    ASSUME ChainOK,
           \/ \E r \in RequestId : Expire(r)
           \/ TimePasses
    PROVE  ChainMoves
<1>1. ASSUME NEW r \in RequestId, Expire(r) PROVE ChainMoves
  <2> DEFINE q == [requests[r] EXCEPT !.state = "EXPIRED"]
  <2>1. Complete(q)
    BY DEF ChainOK, RequestsComplete, Complete, Fields
  <2>2. /\ requests' = [requests EXCEPT ![r] = q] /\ ~Settled(r)
        /\ UNCHANGED <<events, instructions, now>>
    BY <1>1 DEF Expire, expireRequest, setRequestState, Settled, ChainOK, RequestsComplete
  <2> HIDE DEF q
  <2>3. RequestsComplete' /\ \A s \in RequestId : Settled(s) => Settled(s)'
    BY <2>1, <2>2, RequestWritten
  <2> QED
    BY <2>2, <2>3 DEF ChainMoves, ChainOK, Event, Logged
<1>2. CASE TimePasses
  <2>1. UNCHANGED <<requests, events, instructions>> /\ now' = now + 1
    BY <1>2 DEF TimePasses, Tick, requestVars
  <2> QED
    BY <2>1, SMTT(60) DEF ChainMoves, ChainOK, RequestsComplete, Event, Logged, Settled
<1> QED
  BY <1>1, <1>2

LEMMA Reported ==
    ASSUME ChainOK, NEW r \in RequestId, NEW tx, ReportBroadcast(r, tx)
    PROVE  ChainMoves
<1> DEFINE q == [requests[r] EXCEPT !.xrplTxId = tx, !.state = "BROADCAST"]
<1>1. Complete(q)
  BY DEF ChainOK, RequestsComplete, Complete, Fields
<1>2. /\ requests' = [requests EXCEPT ![r] = q] /\ ~Settled(r)
      /\ UNCHANGED <<instructions, now>> /\ emit("PaymentBroadcast", r)
  BY DEF ReportBroadcast, reportBroadcast, Settled
<1> HIDE DEF q
<1>3. RequestsComplete' /\ \A s \in RequestId : Settled(s) => Settled(s)'
  BY <1>1, <1>2, RequestWritten
<1>4. /\ events' \in Seq(Event') /\ Len(events) <= Len(events')
      /\ \A b \in 1..Len(events) : events'[b] = events[b]
  BY <1>2, EventEmitted
<1> QED
  BY <1>2, <1>3, <1>4 DEF ChainMoves, ChainOK

LEMMA SignedOnChain ==
    ASSUME ChainOK, NEW r \in RequestId, SignedPayment(r)
    PROVE  ChainMoves
<1>1. PICK blob, tx :
         Deliver("submitSignedPayment",
                 [signer |-> teeAddress, status |-> 1,
                  data |-> [kind |-> "signed", deployment |-> ThisDeployment, requestId |-> r,
                            memoRef |-> requests[r].memoRef, expectedTxId |-> tx,
                            signedTxBlob |-> blob]])
  BY Zenon DEF SignedPayment
<1>2. PICK h : h = Keccak(blob)
  OBVIOUS
<1> DEFINE q == [requests[r] EXCEPT !.expectedTxId = tx, !.signedBlobHash = h, !.state = "SIGNED"]
<1>3. Complete(q)
  BY DEF ChainOK, RequestsComplete, Complete, Fields
<1>4. /\ requests' = [requests EXCEPT ![r] = q] /\ ~Settled(r)
      /\ UNCHANGED <<instructions, now>> /\ emit("PaymentSigned", r)
  BY <1>1, <1>2 DEF Deliver, submitSignedPayment, Settled
<1> HIDE DEF q
<1>5. RequestsComplete' /\ \A s \in RequestId : Settled(s) => Settled(s)'
  BY <1>3, <1>4, RequestWritten
<1>6. /\ events' \in Seq(Event') /\ Len(events) <= Len(events')
      /\ \A b \in 1..Len(events) : events'[b] = events[b]
  BY <1>4, EventEmitted
<1> QED
  BY <1>4, <1>5, <1>6 DEF ChainMoves, ChainOK

\* finalizePayment settles the request it is called for.
LEMMA Finalized ==
    ASSUME ChainOK, NEW r \in RequestId, Call(r)
    PROVE  ChainMoves /\ Settled(r)'
<1>1. PICK tx :
         /\ requests' = [requests EXCEPT ![r] = [@ EXCEPT !.xrplTxId = tx, !.state = "SETTLED"]]
         /\ UNCHANGED <<instructions, now, events>>
  BY DEF Call, Verifying!finalizePayment, Verifying!markSettled
<1> DEFINE q == [requests[r] EXCEPT !.xrplTxId = tx, !.state = "SETTLED"]
<1>2. Complete(q) /\ q.state = "SETTLED"
  BY DEF ChainOK, RequestsComplete, Complete, Fields
<1>3. requests' = [requests EXCEPT ![r] = q]
  BY <1>1
<1> HIDE DEF q
<1>4. RequestsComplete' /\ \A s \in RequestId : Settled(s) => Settled(s)'
  BY <1>2, <1>3, RequestWritten
<1>5. Settled(r)'
  BY <1>2, <1>3 DEF Settled, ChainOK, RequestsComplete
<1> QED
  BY <1>1, <1>4, <1>5 DEF ChainMoves, ChainOK, Event, Logged

IsLengthened(t, s, n, e) == t = s \o [b \in 1..n |-> e]

LEMMA Lengthened ==
    ASSUME NEW S, NEW s, s \in Seq(S), NEW n \in Nat, NEW e \in S, NEW t, IsLengthened(t, s, n, e)
    PROVE  t \in Seq(S) /\ Len(s) <= Len(t) /\ \A b \in 1..Len(s) : t[b] = s[b]
<1> DEFINE q == [b \in 1..n |-> e]
<1>1. q \in Seq(S) /\ Len(q) = n /\ Len(s) \in Nat
  OBVIOUS
<1> HIDE DEF q
<1>2. t \in Seq(S) /\ Len(t) = Len(s) + n
  BY <1>1, ConcatProperties DEF IsLengthened, q
<1>3. \A b \in 1..Len(t) : t[b] = IF b <= Len(s) THEN s[b] ELSE q[b - Len(s)]
  BY <1>1, <1>2, ConcatProperties DEF IsLengthened, q
<1> QED
  BY <1>1, <1>2, <1>3

\* Blocks are made between two processes.
LEMMA QuietBlocks ==
    ASSUME ChainOK, NEW n \in Nat, IsLengthened(events', events, n, Quiet),
           UNCHANGED controllerVars
    PROVE  ChainMoves
<1>1. UNCHANGED <<requests, instructions, now>>
  BY DEF controllerVars, requestVars
<1>2. PICK E : E = Event
  OBVIOUS
<1>3. PICK e : e = Quiet
  OBVIOUS
<1>4. e \in E /\ events \in Seq(E) /\ Event' = E /\ IsLengthened(events', events, n, e)
  BY <1>1, <1>2, <1>3 DEF Event, Logged, ChainOK
<1>5. /\ events' \in Seq(E) /\ Len(events) <= Len(events')
      /\ \A b \in 1..Len(events) : events'[b] = events[b]
  BY <1>4, Lengthened
<1>6. RequestsComplete' /\ \A r \in RequestId : Settled(r) => Settled(r)'
  BY <1>1 DEF ChainOK, RequestsComplete, Settled
<1> QED
  BY <1>1, <1>4, <1>5, <1>6 DEF ChainMoves, ChainOK

-----------------------------------------------------------------------------
(* The event in hand *)

LEMMA InHand ==
    ASSUME WorkerInv, pc # "poll", at <= head
    PROVE  at \in 1..Len(events) /\ subject \in RequestId
<1>1. at \in 1..Len(events)
  BY DEF WorkerInv, RangeOK, ChainOK
<1>2. events[at] \in Event /\ events[at].event # "none"
  BY <1>1 DEF WorkerInv, ChainOK, RangeOK
<1>3. events[at] \in Logged
  BY <1>2 DEF Event, Quiet
<1> QED
  BY <1>1, <1>3 DEF subject, Logged

\* Steps of others: the event in hand, and what it was found to be, stay.
LEMMA ChainStep ==
    ASSUME WorkerInv, ChainMoves, UNCHANGED <<loopVars, job, minedAt, historyVars>>,
           available' \subseteq attested'
    PROVE  WorkerInv'
<1>0. /\ UNCHANGED <<pc, next, head, at, done, mempool, receipt, faults, job, minedAt, fees,
                     settledAtStart, headAtStart>>
      /\ ChainOK /\ RangeOK /\ ReceiptOK /\ MemoryOK /\ JobOK
  BY DEF loopVars, rangeVars, limitVars, historyVars, WorkerInv
<1>1. /\ Len(events) \in Nat /\ Len(events') \in Nat /\ Len(events) <= Len(events')
      /\ \A b \in 1..Len(events) : events'[b] = events[b]
  BY <1>0 DEF ChainMoves, ChainOK
<1>2. RangeOK'
  BY <1>0, <1>1 DEF RangeOK, Busy
<1>3. Busy => subject' = subject /\ subject \in RequestId
  <2> SUFFICES ASSUME Busy PROVE subject' = subject /\ subject \in RequestId
      OBVIOUS
  <2>1. pc # "poll" /\ at <= head
    BY <1>0 DEF RangeOK, Busy
  <2>2. at \in 1..Len(events) /\ subject \in RequestId
    BY <2>1, InHand
  <2> QED
    BY <1>0, <2>2 DEF subject, ChainMoves
<1>4. ReceiptOK'
  <2>1. ASSUME pc = "wait", job.method = "finalizePayment"
        PROVE  /\ mempool # <<>> => mempool[Len(mempool)] = FinalizeCall'
               /\ receipt = "success" => requests'[subject'].state = "SETTLED"
    BY <1>0, <1>3, <2>1 DEF ReceiptOK, FinalizeCall, Busy, ChainMoves, Settled
  <2> QED
    BY <1>0, <2>1 DEF ReceiptOK
<1>5. MemoryOK'
  BY <1>0, <1>3 DEF MemoryOK, Busy, ChainMoves
<1>6. JobOK'
  BY <1>0 DEF JobOK
<1> QED
  BY <1>2, <1>4, <1>5, <1>6 DEF WorkerInv, ChainMoves

-----------------------------------------------------------------------------
(* The loop *)

LEMMA LeastElement ==
    ASSUME NEW T, T \subseteq Nat, T # {}
    PROVE  \E n \in T : \A m \in T : n <= m
<1> DEFINE R == {ss \in Nat \X Nat : ss[1] < ss[2]}
<1>1. IsWellFoundedOn(R, Nat)
  BY NatLessThanWellFounded, Zenon DEF OpToRel
<1>2. \A m, n \in Nat : m < n => <<m, n>> \in R
  OBVIOUS
<1> HIDE DEF R
<1>3. PICK n \in T : \A m \in T : ~(<<m, n>> \in R)
  BY <1>1, WFMin
<1>4. \A m \in T : n <= m
  <2> TAKE m \in T
  <2>1. ~(m < n)
    BY <1>2, <1>3
  <2> QED
    BY <2>1
<1> QED
  BY <1>4

\* The loop goes on at an open event of the range, or past it.
LEMMA GoesOn ==
    ASSUME NEW b \in Nat, NEW last \in Nat, goOnFrom(b, last, Open)
    PROVE  pc' = "handle" /\ at' \in 1..(last + 1) /\ (at' <= last => events[at'].event # "none")
<1> DEFINE S == {last + 1} \cup ((b..last) \cap Open)
<1>1. S \subseteq Nat /\ S # {} /\ S \subseteq 1..(last + 1)
  BY DEF Open, Blocks
<1>2. pc' = "handle" /\ at' = CHOOSE x \in S : \A y \in S : x <= y
  BY DEF goOnFrom, Min
<1>3. \A x \in S : x = last + 1 \/ events[x].event # "none"
  BY DEF Open
<1> HIDE DEF S
<1>4. \E x \in S : \A y \in S : x <= y
  BY <1>1, LeastElement
<1>5. at' \in S
  BY <1>2, <1>4
<1>6. PICK x \in S : x = at'
  BY <1>5
<1>7. x <= last => events[x].event # "none"
  BY <1>1, <1>3
<1> QED
  BY <1>1, <1>2, <1>6, <1>7

LEMMA PollStep ==
    ASSUME WorkerInv, Poll
    PROVE  WorkerInv'
<1>0. ChainOK /\ RangeOK /\ ReceiptOK /\ MemoryOK /\ JobOK
  BY DEF WorkerInv
<1>1. /\ UNCHANGED <<next, done, mempool, receipt, faults, job, minedAt, fees, settledAtStart,
                     attested, available, headAtStart>>
      /\ UNCHANGED chainVars /\ pc = "poll" /\ head' = Len(events)
      /\ goOnFrom(next, Len(events), Open)
  BY DEF Poll, poll, limitVars, historyVars, outside, fdcVars, BlockNumber
<1>2. ChainMoves
  BY <1>0, <1>1, ChainSame
<1>3. next \in Nat /\ Len(events) \in Nat /\ events' = events
  BY <1>0, <1>1 DEF RangeOK, ChainOK, chainVars
<1>4. /\ pc' = "handle" /\ at' \in 1..(Len(events) + 1)
      /\ at' <= Len(events) => events[at'].event # "none"
  BY <1>1, <1>3, GoesOn
<1>5. RangeOK'
  BY <1>0, <1>1, <1>3, <1>4 DEF RangeOK, Busy
<1>6. ReceiptOK' /\ JobOK'
  BY <1>0, <1>1, <1>4 DEF ReceiptOK, JobOK
<1>7. MemoryOK'
  BY <1>0, <1>1, <1>2, <1>4 DEF MemoryOK, ChainMoves
<1> QED
  BY <1>2, <1>5, <1>6, <1>7 DEF WorkerInv, ChainMoves

\* settle returns, and the loop goes on with the next event.
LEMMA ReturnStep ==
    ASSUME WorkerInv, nextLog(Open), UNCHANGED <<chainVars, rangeVars, headAtStart, mempool, minedAt,
                                                 settledAtStart, fees, attested, available>>,
           job' = NoJob, receipt' = "none", faults' \in Nat,
           \A r \in done' : r \in RequestId /\ Settled(r)
    PROVE  WorkerInv'
<1>0. ChainOK /\ RangeOK /\ ReceiptOK /\ MemoryOK /\ JobOK
  BY DEF WorkerInv
<1>1. ChainMoves
  BY <1>0, ChainSame
<1>2. UNCHANGED <<events, next, head>> /\ at + 1 \in Nat /\ head \in Nat /\ Len(events) \in Nat
  BY <1>0 DEF chainVars, rangeVars, RangeOK, ChainOK
<1>3. /\ pc' = "handle" /\ at' \in 1..(head + 1)
      /\ at' <= head => events[at'].event # "none"
  BY <1>2, GoesOn DEF nextLog
<1>4. RangeOK'
  BY <1>0, <1>2, <1>3 DEF RangeOK, Busy
<1>5. ReceiptOK'
  BY <1>0, <1>3 DEF ReceiptOK
<1>6. JobOK'
  BY <1>0 DEF JobOK, NoJob
<1>7. MemoryOK'
  BY <1>0, <1>1, <1>3 DEF MemoryOK, ChainMoves
<1> QED
  BY <1>1, <1>4, <1>5, <1>6, <1>7 DEF WorkerInv, ChainMoves

LEMMA EndOfRangeStep ==
    ASSUME WorkerInv, EndOfRange
    PROVE  WorkerInv'
<1>0. ChainOK /\ RangeOK /\ ReceiptOK /\ MemoryOK /\ JobOK
  BY DEF WorkerInv
<1>1. /\ UNCHANGED <<chainVars, headAtStart, mempool, minedAt, fees, attested, available>>
      /\ UNCHANGED <<done, receipt, job, settledAtStart, faults>> /\ pc = "handle"
      /\ pc' = "poll" /\ head' = 0 /\ at' = 0 /\ next' = head + 1
  BY DEF EndOfRange, endOfRange, outside, fdcVars, limitVars, historyVars
<1>2. ChainMoves /\ UNCHANGED <<requests, events>> /\ Len(events) \in Nat
  BY <1>0, <1>1, ChainSame DEF chainVars, controllerVars, requestVars, ChainOK
<1>3. RangeOK'
  BY <1>0, <1>1, <1>2 DEF RangeOK, Busy
<1>4. ReceiptOK' /\ JobOK'
  BY <1>0, <1>1 DEF ReceiptOK, JobOK
<1>5. MemoryOK'
  BY <1>0, <1>1, <1>2 DEF MemoryOK, ChainMoves
<1> QED
  BY <1>2, <1>3, <1>4, <1>5 DEF WorkerInv, ChainMoves

\* The process dies, and blocks are made until the next one starts.
LEMMA RestartStep ==
    ASSUME WorkerInv, Restart
    PROVE  WorkerInv'
<1>0. ChainOK /\ RangeOK /\ ReceiptOK /\ MemoryOK /\ JobOK
  BY DEF WorkerInv
<1>1. /\ UNCHANGED <<controllerVars, mempool, minedAt, fees, attested, available>>
      /\ pc' = "poll" /\ head' = 0 /\ at' = 0 /\ faults' = faults /\ headAtStart' = Len(events')
      /\ done' = {} /\ receipt' = "none" /\ job' = NoJob /\ next' = StartBlock'
      /\ settledAtStart' = {r \in RequestId : requests[r].state = "SETTLED"}
      /\ \E n \in 0..MaxDowntime : events' = events \o quietBlocks(n)
  BY DEF Restart, restart, outside, fdcVars, BlockNumber
<1>2. ChainMoves
  <2>1. PICK n \in 0..MaxDowntime : events' = events \o quietBlocks(n)
    BY <1>1
  <2>2. IsLengthened(events', events, n, Quiet)
    BY <2>1 DEF IsLengthened, quietBlocks, Quiet
  <2> QED
    BY <1>0, <1>1, <2>2, QuietBlocks
<1>3. Len(events') \in Nat /\ requests' = requests
  BY <1>1, <1>2 DEF ChainMoves, ChainOK, controllerVars, requestVars
<1>4. next' \in 0..(Len(events') + 1)
  BY <1>1, <1>3 DEF StartBlock, BlockNumber
<1>5. RangeOK'
  BY <1>1, <1>3, <1>4 DEF RangeOK, Busy
<1>6. ReceiptOK' /\ JobOK'
  BY <1>0, <1>1 DEF ReceiptOK, JobOK, NoJob
<1>7. MemoryOK'
  BY <1>1, <1>3 DEF MemoryOK, Settled
<1> QED
  BY <1>2, <1>5, <1>6, <1>7 DEF WorkerInv, ChainMoves

-----------------------------------------------------------------------------
(* The calls of settle *)

LEMMA GotoStep ==
    ASSUME WorkerInv, NEW step \in {"attest", "round", "proof", "finalize"}, goto(step),
           pc # "poll", at <= head, pc # "wait", job' = job, faults' \in Nat, headAtStart' = headAtStart,
           step = "attest" => subject \notin settledAtStart \/ faults' > 0
    PROVE  WorkerInv'
<1>0. /\ ChainOK /\ RangeOK /\ ReceiptOK /\ MemoryOK /\ JobOK
      /\ pc' = step /\ UNCHANGED chainVars
      /\ UNCHANGED <<next, head, at, done, mempool, receipt, minedAt, settledAtStart, fees, attested,
                     available>>
  BY DEF WorkerInv, goto, unsent, outside, fdcVars, rangeVars, historyVars
<1>1. ChainMoves /\ UNCHANGED events
  BY <1>0, ChainSame DEF chainVars
<1>2. RangeOK'
  BY <1>0, <1>1 DEF RangeOK, Busy
<1>3. ReceiptOK' /\ JobOK'
  BY <1>0 DEF ReceiptOK, JobOK
<1>4. MemoryOK'
  BY <1>0, <1>1 DEF MemoryOK, ChainMoves, subject
<1> QED
  BY <1>1, <1>2, <1>3, <1>4 DEF WorkerInv, ChainMoves

\* A transaction is sent for the event in hand.
LEMMA SendStep ==
    ASSUME WorkerInv, pc # "poll", at <= head, pc # "wait",
           NEW method \in {"requestAttestation", "finalizePayment"},
           sendTransaction([method |-> method, request |-> subject]),
           job' = [job EXCEPT !.method = method] \/ job' = [NoJob EXCEPT !.method = method],
           fees' \in [RequestId -> Nat],
           UNCHANGED <<chainVars, outside, minedAt, done, settledAtStart>>
    PROVE  WorkerInv'
<1>0. /\ ChainOK /\ RangeOK /\ ReceiptOK /\ MemoryOK /\ JobOK
      /\ pc' = "wait" /\ UNCHANGED chainVars
      /\ UNCHANGED <<next, head, at, done, receipt, faults, headAtStart, minedAt, settledAtStart, attested,
                     available>>
  BY DEF WorkerInv, sendTransaction, outside, fdcVars, rangeVars, limitVars
<1>1. ChainMoves /\ UNCHANGED events
  BY <1>0, ChainSame DEF chainVars
<1>2. subject' = subject /\ subject \in RequestId
  BY <1>0, <1>1, InHand DEF subject
<1>3. RangeOK'
  BY <1>0, <1>1 DEF RangeOK, Busy
<1>4. job'.method = method /\ JobOK'
  BY <1>0 DEF JobOK, NoJob
<1>5. PICK call : call = [method |-> method, request |-> subject]
  OBVIOUS
<1>6. /\ call \in [method : {"requestAttestation", "finalizePayment"}, request : RequestId]
      /\ mempool' = Append(mempool, call)
  BY <1>2, <1>5 DEF sendTransaction
<1>7. /\ mempool' \in Seq([method : {"requestAttestation", "finalizePayment"}, request : RequestId])
      /\ mempool'[Len(mempool')] = call
  <2>1. PICK C : C = [method : {"requestAttestation", "finalizePayment"}, request : RequestId]
    OBVIOUS
  <2>2. mempool \in Seq(C) /\ call \in C
    BY <1>0, <1>6, <2>1 DEF ReceiptOK
  <2>3. Append(mempool, call) \in Seq(C) /\ Append(mempool, call)[Len(Append(mempool, call))] = call
    BY <2>2
  <2> QED
    BY <1>6, <2>1, <2>3
<1>8. method = "finalizePayment" => call = FinalizeCall'
  BY <1>2, <1>5 DEF FinalizeCall
<1>9. ReceiptOK'
  BY <1>0, <1>4, <1>7, <1>8 DEF ReceiptOK
<1>10. MemoryOK'
  BY <1>0, <1>1 DEF MemoryOK, ChainMoves
<1> QED
  BY <1>1, <1>3, <1>4, <1>9, <1>10 DEF WorkerInv, ChainMoves

LEMMA VotingRound == ASSUME NEW t \in Nat PROVE VotingRoundFor(t) \in Nat
<1>1. PICK x \in Nat : x = (t - FirstVotingRoundStartTs) % Uint64
  OBVIOUS
<1>2. x \div VotingEpochSeconds \in Nat
  OBVIOUS
<1> QED
  BY <1>1, <1>2 DEF VotingRoundFor

LEMMA IncludedStep ==
    ASSUME WorkerInv, AttestationIncluded
    PROVE  WorkerInv'
<1>0. /\ ChainOK /\ RangeOK /\ ReceiptOK /\ MemoryOK /\ JobOK
      /\ pc = "wait" /\ pc' = "round" /\ UNCHANGED chainVars /\ receipt' = "none"
      /\ job' = [job EXCEPT !.round = VotingRoundFor(minedAt)]
      /\ UNCHANGED <<next, head, at, done, mempool, faults, headAtStart, minedAt, settledAtStart, fees,
                     attested, available>>
  BY DEF WorkerInv, AttestationIncluded, outside, fdcVars, rangeVars, historyVars, limitVars
<1>1. ChainMoves /\ UNCHANGED events
  BY <1>0, ChainSame DEF chainVars
<1>2. VotingRoundFor(minedAt) \in Nat
  BY <1>0, VotingRound DEF JobOK
<1>3. RangeOK'
  BY <1>0, <1>1 DEF RangeOK, Busy
<1>4. ReceiptOK'
  BY <1>0 DEF ReceiptOK
<1>5. JobOK'
  BY <1>0, <1>2 DEF JobOK
<1>6. MemoryOK'
  BY <1>0, <1>1 DEF MemoryOK, ChainMoves
<1> QED
  BY <1>1, <1>3, <1>4, <1>5, <1>6 DEF WorkerInv, ChainMoves

\* What settle gives up, or finds settled, is passed.
LEMMA GiveUpStep ==
    ASSUME WorkerInv, return, pc # "wait", UNCHANGED <<historyVars, headAtStart>>, faults' \in Nat,
           done' = done \/ (subject \in RequestId /\ Settled(subject) /\ done' = done \cup {subject})
    PROVE  WorkerInv'
<1>1. /\ nextLog(Open) /\ job' = NoJob /\ receipt' = receipt
      /\ UNCHANGED <<chainVars, rangeVars, mempool, minedAt, settledAtStart, fees, attested, available>>
  BY DEF return, unsent, outside, fdcVars, historyVars
<1>2. receipt = "none"
  BY DEF WorkerInv, ReceiptOK
<1>3. \A r \in done' : r \in RequestId /\ Settled(r)
  BY DEF WorkerInv, MemoryOK
<1> QED
  BY <1>1, <1>2, <1>3, ReturnStep

LEMMA FinalizedStep ==
    ASSUME WorkerInv, PaymentFinalized
    PROVE  WorkerInv'
<1>0. /\ pc = "wait" /\ job.method = "finalizePayment" /\ receipt' = "none" /\ job' = NoJob
      /\ done' = IF receipt = "success" THEN done \cup {subject} ELSE done
      /\ nextLog(Open) /\ UNCHANGED <<faults, headAtStart>>
      /\ UNCHANGED <<chainVars, rangeVars, mempool, minedAt, settledAtStart, fees, attested, available>>
  BY DEF PaymentFinalized, awaitReceipt, outside, fdcVars, limitVars, historyVars
<1>1. pc # "poll" /\ at <= head /\ faults \in Nat
  BY <1>0 DEF WorkerInv, RangeOK, Busy, JobOK
<1>2. subject \in RequestId /\ (receipt = "success" => Settled(subject))
  BY <1>0, <1>1, InHand DEF WorkerInv, ReceiptOK, Settled
<1>3. \A r \in done' : r \in RequestId /\ Settled(r)
  BY <1>0, <1>2 DEF WorkerInv, MemoryOK
<1> QED
  BY <1>0, <1>1, <1>3, ReturnStep

-----------------------------------------------------------------------------
(* Blocks *)

LEMMA LastOfTail ==
    ASSUME NEW S, NEW s \in Seq(S), s # <<>>
    PROVE  /\ Tail(s) \in Seq(S) /\ s[1] \in S /\ Len(s) \in Nat \ {0}
           /\ Len(s) = 1 => Tail(s) = <<>>
           /\ Len(s) # 1 => Tail(s) # <<>> /\ Tail(s)[Len(Tail(s))] = s[Len(s)]
<1>1. PICK t : t = Tail(s)
  OBVIOUS
<1>2. Len(s) \in Nat \ {0} /\ t \in Seq(S) /\ Len(t) = Len(s) - 1 /\ s[1] \in S
  BY <1>1
<1>3. \A i \in 1..Len(t) : t[i] = s[i + 1]
  BY <1>1, HeadTailProperties
<1>4. Len(s) = 1 => t = <<>>
  <2>1. Len(s) = 1 => Len(t) = 0
    BY <1>2
  <2> QED
    BY <1>2, <2>1, EmptySeq
<1>5. Len(s) # 1 => t # <<>> /\ t[Len(t)] = s[Len(s)]
  BY <1>2, <1>3
<1> QED
  BY <1>1, <1>2, <1>4, <1>5

\* A call is included; settle may be waiting for it.
LEMMA InclusionStep ==
    ASSUME WorkerInv, ChainMoves, mempool # <<>>, NEW status \in {"success", "reverted"},
           included(status), UNCHANGED <<job, historyVars>>,
           minedAt' \in Nat, available' \subseteq attested',
           status = "success" /\ mempool[1].method = "finalizePayment"
              => \E r \in RequestId : r = mempool[1].request /\ Settled(r)'
    PROVE  WorkerInv'
<1>0. /\ ChainOK /\ RangeOK /\ ReceiptOK /\ MemoryOK /\ JobOK
      /\ UNCHANGED <<pc, next, head, at, done, faults, headAtStart, job, fees, settledAtStart>>
      /\ mempool' = Tail(mempool)
      /\ receipt' = IF pc = "wait" /\ Len(mempool) = 1 THEN status ELSE receipt
  BY DEF WorkerInv, included, rangeVars, limitVars, historyVars
<1>1. PICK C : C = [method : {"requestAttestation", "finalizePayment"}, request : RequestId]
  OBVIOUS
<1>2. /\ mempool' \in Seq(C) /\ Len(mempool) \in Nat \ {0}
      /\ Len(mempool) = 1 => mempool' = <<>>
      /\ Len(mempool) # 1 => mempool' # <<>> /\ mempool'[Len(mempool')] = mempool[Len(mempool)]
  BY <1>0, <1>1, LastOfTail DEF ReceiptOK
<1>3. /\ Len(events) \in Nat /\ Len(events') \in Nat /\ Len(events) <= Len(events')
      /\ \A b \in 1..Len(events) : events'[b] = events[b]
  BY <1>0 DEF ChainMoves, ChainOK
<1>4. RangeOK'
  BY <1>0, <1>3 DEF RangeOK, Busy
<1>5. Busy => subject' = subject /\ subject \in RequestId
  <2> SUFFICES ASSUME Busy PROVE subject' = subject /\ subject \in RequestId
      OBVIOUS
  <2>1. pc # "poll" /\ at <= head
    BY <1>0 DEF RangeOK, Busy
  <2>2. at \in 1..Len(events) /\ subject \in RequestId
    BY <2>1, InHand
  <2> QED
    BY <1>0, <2>2 DEF subject, ChainMoves
<1>6. ReceiptOK'
  <2>1. ASSUME pc = "wait", job.method = "finalizePayment"
        PROVE  /\ mempool' # <<>> => mempool'[Len(mempool')] = FinalizeCall'
               /\ receipt' = "success" => requests'[subject'].state = "SETTLED"
    <3>1. /\ mempool[Len(mempool)] = FinalizeCall /\ subject' = subject /\ subject \in RequestId
          /\ receipt = "success" => Settled(subject)
      BY <1>0, <1>5, <2>1 DEF ReceiptOK, Busy, Settled
    <3>2. FinalizeCall' = FinalizeCall
      BY <3>1 DEF FinalizeCall
    <3>3. CASE Len(mempool) = 1
      <4>1. mempool' = <<>> /\ receipt' = status /\ mempool[1] = FinalizeCall
        BY <1>0, <1>2, <2>1, <3>1, <3>3
      <4>2. mempool[1].method = "finalizePayment" /\ mempool[1].request = subject
        BY <4>1 DEF FinalizeCall
      <4>3. status = "success" => \E r \in RequestId : r = subject /\ Settled(r)'
        BY <4>2
      <4> QED
        BY <3>1, <4>1, <4>3 DEF Settled
    <3>4. CASE Len(mempool) # 1
      <4>1. receipt' = receipt /\ mempool'[Len(mempool')] = FinalizeCall
        BY <1>0, <1>2, <3>1, <3>4
      <4>2. Settled(subject) => requests'[subject].state = "SETTLED"
        BY <3>1 DEF ChainMoves, Settled
      <4> QED
        BY <3>1, <3>2, <4>1, <4>2
    <3> QED
      BY <3>3, <3>4
  <2> QED
    BY <1>0, <1>1, <1>2, <2>1 DEF ReceiptOK
<1>7. MemoryOK'
  BY <1>0, <1>5 DEF MemoryOK, Busy, ChainMoves
<1>8. JobOK'
  BY <1>0 DEF JobOK
<1> QED
  BY <1>4, <1>6, <1>7, <1>8 DEF WorkerInv, ChainMoves

LEMMA MineStep ==
    ASSUME WorkerInv, Mine
    PROVE  WorkerInv'
<1>0. /\ ChainOK /\ mempool # <<>> /\ UNCHANGED <<job, historyVars, available>> /\ minedAt' \in Nat
      /\ available \subseteq attested
  BY DEF WorkerInv, ChainOK, JobOK, Mine
<1>1. mempool[1].request \in RequestId
  <2>1. PICK C : C = [method : {"requestAttestation", "finalizePayment"}, request : RequestId]
    OBVIOUS
  <2>2. mempool[1] \in C
    BY <1>0, <2>1, LastOfTail DEF WorkerInv, ReceiptOK
  <2> QED
    BY <2>1, <2>2
<1>2. PICK r \in RequestId : r = mempool[1].request
  BY <1>1
<1>3. CASE /\ mempool[1].method = "requestAttestation" /\ attested \subseteq attested'
           /\ included("success") /\ UNCHANGED chainVars
  BY <1>0, <1>3, ChainSame, InclusionStep
<1>4. CASE Call(r) /\ included("success") /\ UNCHANGED attested
  BY <1>0, <1>2, <1>4, Finalized, InclusionStep
<1>5. CASE included("reverted") /\ UNCHANGED chainVars /\ UNCHANGED attested
  BY <1>0, <1>5, ChainSame, InclusionStep
<1> QED
  BY <1>2, <1>3, <1>4, <1>5 DEF Mine

-----------------------------------------------------------------------------
(* The whole specification *)

LEMMA InitWorker == WorkerInit => WorkerInv
<1> SUFFICES ASSUME WorkerInit PROVE WorkerInv
    OBVIOUS
<1>1. AllAuthorized
  BY DEF WorkerInit
<1>2. PICK a \in XrplAddress, d \in XrplAddress, p \in Policy, s \in Account, c \in Ciphertext,
           amount \in Drops : AllAuthorized!(a, d, p, s, c, amount)
  BY <1>1, Zenon DEF AllAuthorized
<1>3. /\ requests = [r \in RequestId |->
                       [BlankRequest EXCEPT !.treasuryId = 1,
                                            !.nonce = r,
                                            !.expiresAt = p.requestTtlSeconds,
                                            !.payloadHash = Keccak(c),
                                            !.memoRef = memoRef(1, r, r),
                                            !.amountDrops = amount,
                                            !.destinationHash = Keccak(d),
                                            !.state = "AUTHORIZED"]]
      /\ events = <<>>
  BY <1>2, ZenonT(30)
<1>4. ASSUME NEW r \in RequestId PROVE Complete(requests[r])
  <2> DEFINE q == [BlankRequest EXCEPT !.treasuryId = 1,
                                       !.nonce = r,
                                       !.expiresAt = p.requestTtlSeconds,
                                       !.payloadHash = Keccak(c),
                                       !.memoRef = memoRef(1, r, r),
                                       !.amountDrops = amount,
                                       !.destinationHash = Keccak(d),
                                       !.state = "AUTHORIZED"]
  <2>1. Complete(q)
    BY DEF BlankRequest, Complete, Fields
  <2>2. requests[r] = q
    BY <1>3
  <2> HIDE DEF q
  <2> QED
    BY <2>1, <2>2
<1>5. events = <<>>
  BY <1>3
<1>6. ChainOK
  <2>1. requests = [r \in RequestId |-> requests[r]]
    <3> DEFINE Q(r) == [BlankRequest EXCEPT !.treasuryId = 1,
                                            !.nonce = r,
                                            !.expiresAt = p.requestTtlSeconds,
                                            !.payloadHash = Keccak(c),
                                            !.memoRef = memoRef(1, r, r),
                                            !.amountDrops = amount,
                                            !.destinationHash = Keccak(d),
                                            !.state = "AUTHORIZED"]
    <3>1. requests = [r \in RequestId |-> Q(r)]
      BY <1>3, Zenon
    <3> HIDE DEF Q
    <3> QED
      BY <3>1
  <2>2. now = 0
    BY DEF WorkerInit, Deployed
  <2> HIDE DEF WorkerInit
  <2>3. RequestsComplete
    BY <1>4, <2>1, Zenon DEF RequestsComplete
  <2>4. events \in Seq(Event)
    BY <1>5, EmptySeq
  <2> QED
    BY <2>2, <2>3, <2>4 DEF ChainOK
<1>7. RangeOK
  <2>1. pc = "poll" /\ next = 0 /\ head = 0 /\ at = 0 /\ headAtStart = 0
    BY DEF WorkerInit, LoopInit
  <2>2. Len(events) = 0
    BY <1>5
  <2> QED
    BY <2>1, <2>2 DEF RangeOK, Busy
<1>8. ReceiptOK
  <2>1. mempool = <<>> /\ receipt = "none" /\ pc = "poll"
    BY DEF WorkerInit, LoopInit
  <2> QED
    BY <2>1, EmptySeq DEF ReceiptOK
<1>9. MemoryOK /\ JobOK
  BY DEF MemoryOK, JobOK, WorkerInit, LoopInit, NoJob
<1> QED
  BY <1>6, <1>7, <1>8, <1>9 DEF WorkerInv

LEMMA WorkerStepKeeps ==
    ASSUME WorkerInv, WorkerStep
    PROVE  WorkerInv'
<1>0. /\ faults \in Nat /\ fees \in [RequestId -> Nat]
      /\ at \in Nat /\ head \in Nat
      /\ pc # "poll" => at # 0
      /\ pc \in {"attest", "wait", "round", "proof", "finalize"} => at <= head
  BY DEF WorkerInv, JobOK, RangeOK, Busy, ChainOK
<1>1. CASE Poll \/ EndOfRange
  BY <1>1, PollStep, EndOfRangeStep
<1>2. CASE AlreadySettled
  <2>1. pc # "poll" /\ at <= head /\ pc # "wait" /\ Settled(subject) /\ return
        /\ done' = done \cup {subject} /\ UNCHANGED <<historyVars, headAtStart>> /\ faults' \in Nat
    BY <1>0, <1>2 DEF AlreadySettled, handling, Settled, limitVars
  <2>2. subject \in RequestId
    BY <2>1, InHand
  <2> QED
    BY <2>1, <2>2, GiveUpStep
<1>3. CASE Attempt
  <2>1. pc # "poll" /\ at <= head /\ pc # "wait" /\ goto("attest") /\ job' = job /\ faults' \in Nat
        /\ headAtStart' = headAtStart
        /\ ~Settled(subject)
    BY <1>0, <1>3 DEF Attempt, handling, notSettled, Settled, limitVars
  <2>2. subject \notin settledAtStart
    BY <2>1 DEF WorkerInv, MemoryOK
  <2> QED
    BY <2>1, <2>2, GotoStep
<1>4. CASE AttemptUnread
  <2>1. pc # "poll" /\ at <= head /\ pc # "wait" /\ goto("attest") /\ job' = job /\ faults' \in Nat
        /\ headAtStart' = headAtStart
        /\ faults' > 0
    BY <1>0, <1>4 DEF AttemptUnread, handling, meet
  <2> QED
    BY <2>1, GotoStep
<1>5. CASE NotValid \/ DeadlinePasses \/ CallFails \/ FinalizeReverts
  <2>1. giveUp /\ pc # "wait" /\ faults' \in Nat /\ headAtStart' = headAtStart
    BY <1>0, <1>5 DEF NotValid, DeadlinePasses, CallFails, FinalizeReverts, limitVars, meet
  <2> QED
    BY <2>1, GiveUpStep DEF giveUp
<1>6. CASE RequestAttestation
  <2>1. /\ pc # "poll" /\ at <= head /\ pc # "wait"
        /\ sendTransaction([method |-> "requestAttestation", request |-> subject])
        /\ job' = [NoJob EXCEPT !.method = "requestAttestation"]
        /\ fees' = [fees EXCEPT ![subject] = @ + 1]
        /\ UNCHANGED <<chainVars, outside, minedAt, done, settledAtStart>>
    BY <1>0, <1>6 DEF RequestAttestation
  <2>2. fees' \in [RequestId -> Nat]
    BY <1>0, <2>1, InHand, SMTT(60)
  <2> QED
    BY <2>1, <2>2, SendStep
<1>7. CASE AttestationIncluded
  BY <1>7, IncludedStep
<1>8. CASE RoundFinal
  BY <1>0, <1>8, GotoStep DEF RoundFinal, limitVars
<1>9. CASE ProofFound
  BY <1>0, <1>9, GotoStep DEF ProofFound, limitVars
<1>10. CASE FinalizePayment
  <2>1. /\ pc # "poll" /\ at <= head /\ pc # "wait"
        /\ sendTransaction([method |-> "finalizePayment", request |-> subject])
        /\ job' = [job EXCEPT !.method = "finalizePayment"] /\ fees' = fees
        /\ UNCHANGED <<chainVars, outside, minedAt, done, settledAtStart>>
    BY <1>0, <1>10 DEF FinalizePayment, historyVars
  <2> QED
    BY <1>0, <2>1, SendStep
<1>11. CASE PaymentFinalized
  BY <1>11, FinalizedStep
<1> QED
  BY <1>1, <1>2, <1>3, <1>4, <1>5, <1>6, <1>7, <1>8, <1>9, <1>10, <1>11 DEF WorkerStep

LEMMA NextWorker == WorkerInv /\ [WorkerNext]_workerVars => WorkerInv'
<1> SUFFICES ASSUME WorkerInv, [WorkerNext]_workerVars PROVE WorkerInv'
    OBVIOUS
<1>0. ChainOK /\ available \subseteq attested
  BY DEF WorkerInv, JobOK
<1>1. CASE WorkerStep
  BY <1>1, WorkerStepKeeps
<1>2. CASE Mine
  BY <1>2, MineStep
<1>3. CASE Restart
  BY <1>3, RestartStep
<1>4. CASE FinaliseRound \/ PublishProof \/ Ledger \/ \E r \in RequestId : SubmitBlob(r)
  <2>1. /\ UNCHANGED <<chainVars, loopVars, job, minedAt, historyVars>>
        /\ available' \subseteq attested'
    BY <1>0, <1>4 DEF FinaliseRound, PublishProof, Ledger, SubmitBlob, fdcVars
  <2> QED
    BY <1>0, <2>1, ChainSame, ChainStep
<1>5. ASSUME NEW r \in RequestId, OtherSettles(r) PROVE WorkerInv'
  <2>1. Call(r) /\ UNCHANGED <<loopVars, job, minedAt, historyVars, attested, available>>
    BY <1>5 DEF OtherSettles, fdcVars
  <2> QED
    BY <1>0, <2>1, Finalized, ChainStep
<1>6. CASE Environment /\ UNCHANGED <<loopVars, outside, job, minedAt, historyVars>>
  <2>1. ChainMoves
    BY <1>0, <1>6, SignedOnChain, Reported, ClosedOrLate DEF Environment
  <2>2. available' \subseteq attested'
    BY <1>0, <1>6 DEF outside, fdcVars
  <2> QED
    BY <1>6, <2>1, <2>2, ChainStep
<1>7. CASE UNCHANGED workerVars
  <2>1. /\ UNCHANGED <<chainVars, loopVars, job, minedAt, historyVars>>
        /\ available' \subseteq attested'
    BY <1>0, <1>7 DEF workerVars, fdcVars
  <2> QED
    BY <1>0, <2>1, ChainSame, ChainStep
<1> QED
  BY <1>1, <1>2, <1>3, <1>4, <1>5, <1>6, <1>7 DEF WorkerNext

LEMMA WorkerInvariant == WorkerSpec => []WorkerInv
BY InitWorker, NextWorker, PTL DEF WorkerSpec

(***************************************************************************)
(* The variables of the worker have their type: the cursor of the loop     *)
(* stays in the log, and the voting round it waits for is a natural number *)
(* whatever the timestamp wraps to.                                        *)
(***************************************************************************)
THEOREM WorkerTypesHold == WorkerSpec => []WorkerTypeOK
<1>1. WorkerInv => WorkerTypeOK
  BY DEF WorkerInv, RangeOK, ReceiptOK, MemoryOK, JobOK, WorkerTypeOK, LoopTypeOK, BlockNumber
<1> QED
  BY <1>1, WorkerInvariant, PTL

(***************************************************************************)
(* settle marks a request done only if it is SETTLED, for any number of    *)
(* requests, failures and restarts, with other workers at the same work.   *)
(***************************************************************************)
THEOREM DoneRequestIsSettled == WorkerSpec => []DoneIsSettled
<1>1. WorkerInv => DoneIsSettled
  BY DEF WorkerInv, MemoryOK, Settled, DoneIsSettled
<1> QED
  BY <1>1, WorkerInvariant, PTL

(***************************************************************************)
(* A restarted worker pays no fee for a request that was SETTLED when it   *)
(* started, unless reading its state failed: alreadySettled is asked       *)
(* before every attestation, and a settled request stays settled.          *)
(***************************************************************************)
THEOREM NoFeeForFinishedWork == WorkerSpec => FinishedWorkNotPaidAgain
<1> DEFINE NotPaid == \A r \in RequestId :
                         fees'[r] > fees[r] => r \notin settledAtStart \/ faults > 0
<1>1. ASSUME WorkerInv, [WorkerNext]_workerVars PROVE [NotPaid]_workerVars
  <2>0. fees \in [RequestId -> Nat]
    BY <1>1 DEF WorkerInv, JobOK
  <2>1. CASE RequestAttestation
    <3>1. /\ pc = "attest" /\ fees' = [fees EXCEPT ![subject] = @ + 1]
      BY <2>1 DEF RequestAttestation
    <3>2. subject \notin settledAtStart \/ faults > 0
      BY <1>1, <3>1 DEF WorkerInv, MemoryOK
    <3> QED
      BY <2>0, <3>1, <3>2
  <2>2. CASE ~RequestAttestation
    <3>1. fees' = fees
      BY <1>1, <2>2 DEF WorkerNext, WorkerStep, Poll, AlreadySettled, Attempt, AttemptUnread, NotValid,
           AttestationIncluded, RoundFinal, ProofFound, DeadlinePasses, CallFails, FinalizeReverts,
           FinalizePayment, PaymentFinalized, EndOfRange, Restart, Mine, FinaliseRound, PublishProof,
           Ledger, SubmitBlob, OtherSettles, goto, giveUp, historyVars, workerVars
    <3> QED
      BY <2>0, <3>1
  <2> QED
    BY <2>1, <2>2
<1> QED
  BY <1>1, WorkerInvariant, PTL DEF WorkerSpec, FinishedWorkNotPaidAgain
=============================================================================
