---------------------------- MODULE Broadcaster ----------------------------
(***************************************************************************)
(* services/cmd/broadcaster: submits the blob of each PaymentSigned event  *)
(* to XRPL and reports the transaction id to the controller.               *)
(***************************************************************************)
EXTENDS SignedPayments

VARIABLE offered     \* history: blobs submitted, with the engine's answer or "lost"

broadcasterVars == <<chainVars, loopVars, xrplVars, offered>>

-----------------------------------------------------------------------------
(* The process; done holds request ids *)

BroadcasterInit ==
    /\ Deployed
    /\ AllAuthorized
    /\ LoopInit
    /\ XrplInit
    /\ offered = {}

Open == {b \in Blocks : events[b].event = "PaymentSigned" /\ events[b].id \notin done}

Poll == poll(Open) /\ UNCHANGED <<chainVars, xrplVars, offered>>

\* handle returns; the cursor will pass this log whatever happened to it.
return == nextLog(Open) /\ UNCHANGED <<chainVars, rangeVars, mempool, receipt>>

\* Submit's switch on engine_result.
accepted_SuccessOnly(code) == code \in {"tesSUCCESS", "terPRE_SEQ"}
accepted(code) == code \in {"tesSUCCESS", "terPRE_SEQ", "tefALREADY", "tefPAST_SEQ"}

\* The hash XRPL returns is the id the enclave predicted.
asPredicted_Unchecked(r) == TRUE
asPredicted(r) == txIdOf(blobOf(r)) = requests[r].expectedTxId

\* Submit, answered: go on to report, or leave this payment with an error.
SubmitBlob ==
    LET r == events[at].id IN
    /\ handling
    /\ \E code \in engineResults(blobOf(r)) :
          /\ receiveSubmission(blobOf(r), code)
          /\ offered' = offered \cup {[blob |-> blobOf(r), code |-> code]}
          /\ IF accepted(code) /\ asPredicted(r)
             THEN pc' = "report" /\ UNCHANGED <<chainVars, rangeVars, at, mempool, receipt>>
             ELSE return
    /\ UNCHANGED <<done, limitVars>>

\* Submit fails: the request is lost, or the answer to it is.
SubmitError ==
    LET r == events[at].id IN
    /\ handling
    /\ meet("xrpl")
    /\ \/ UNCHANGED <<offered, xrplVars>>
       \/ /\ offered' = offered \cup {[blob |-> blobOf(r), code |-> "lost"]}
          /\ \E code \in engineResults(blobOf(r)) : receiveSubmission(blobOf(r), code)
    /\ return
    /\ UNCHANGED done

reporting == pc = "report"
Call(b) == ReportBroadcast(events[b].id, requests[events[b].id].expectedTxId)
Acceptable(b) == ENABLED Call(b)

\* reportBroadcast would revert: taken for a report made before.
AlreadyReported ==
    /\ reporting
    /\ ~Acceptable(at)
    /\ done' = done \cup {events[at].id}
    /\ return
    /\ UNCHANGED <<limitVars, xrplVars, offered>>

SendReport ==
    /\ reporting
    /\ Acceptable(at)
    /\ sendTransaction(at)
    /\ UNCHANGED <<chainVars, done, xrplVars, offered>>

ReportError ==
    /\ reporting
    /\ meet("rpc")
    /\ return
    /\ UNCHANGED <<done, xrplVars, offered>>

\* EstimateGas fails for a reason of its own, and is taken for a report made before.
EstimateError ==
    /\ reporting
    /\ meet("estimate")
    /\ done' = done \cup {events[at].id}
    /\ return
    /\ UNCHANGED <<xrplVars, offered>>

Mine ==
    /\ mempool # <<>>
    /\ \/ Call(mempool[1]) /\ included("success")
       \/ ~Acceptable(mempool[1]) /\ included("reverted") /\ UNCHANGED chainVars
    /\ UNCHANGED <<xrplVars, offered>>

Receipt ==
    /\ awaitReceipt(events[at].id)
    /\ nextLog(Open)
    /\ UNCHANGED <<chainVars, rangeVars, mempool, limitVars, xrplVars, offered>>

EndOfRange == endOfRange(FALSE) /\ UNCHANGED <<chainVars, xrplVars, offered>>

Restart == restart /\ UNCHANGED <<xrplVars, offered>>

BroadcasterStep ==
    \/ Poll \/ SubmitBlob \/ SubmitError \/ AlreadyReported \/ SendReport \/ ReportError
    \/ EstimateError \/ Receipt \/ EndOfRange

Environment ==
    \/ \E r \in RequestId : SignedPayment(r)
    \/ \E s \in Account, r \in RequestId : Cancel(s, r)
    \/ \E r \in RequestId : Expire(r)
    \/ TimePasses

BroadcasterNext ==
    \/ BroadcasterStep
    \/ Mine
    \/ Restart
    \/ CloseLedger /\ UNCHANGED <<chainVars, loopVars, offered>>
    \/ Environment /\ UNCHANGED <<loopVars, xrplVars, offered>>

\* The process runs and blocks are made; XRPL owes nothing, nor does anyone else.
BroadcasterSpec ==
    /\ BroadcasterInit
    /\ [][BroadcasterNext]_broadcasterVars
    /\ WF_broadcasterVars(BroadcasterStep)
    /\ WF_broadcasterVars(Mine)

-----------------------------------------------------------------------------
(* Properties *)

(***************************************************************************)
(* The variables of the broadcaster and of the ledger have their type.     *)
(***************************************************************************)
BroadcasterTypeOK ==
    /\ LoopTypeOK
    /\ pc \in {"poll", "handle", "report", "wait"}
    /\ mempool \in Seq(Blocks)
    /\ done \subseteq RequestId
    /\ {o.blob : o \in offered} \subseteq Blob /\ candidates \subseteq Blob
    /\ ledger \in 0..MaxLedger /\ sequence \in 1..(MaxRequests + 1)

Offered(r) == \E o \in offered : Published(r) /\ o.blob = blobOf(r)

(***************************************************************************)
(* handle reports only what XRPL answered for: the id a BROADCAST request  *)
(* carries is the hash of its published blob, which was submitted, and the *)
(* enclave's prediction alone is not enough.  This is so after a restart   *)
(* between the submission and the report, too.                             *)
(***************************************************************************)
ReportedWasOffered ==
    \A r \in RequestId : requests[r].state = "BROADCAST" =>
       Offered(r) /\ requests[r].xrplTxId = txIdOf(blobOf(r))

\* This process may scan the block that published r.
Reachable(r) ==
    \E b \in Blocks : events[b].event = "PaymentSigned" /\ events[b].id = r /\ InReach(b)

(***************************************************************************)
(* A published payment is submitted to XRPL, although the process may die: *)
(* "a payment signed moments before startup is still picked up".  Two      *)
(* things may lose one: a failed call, past which the cursor moves, and a  *)
(* process that starts more than Lookback blocks after the publication.    *)
(***************************************************************************)
EveryBlobOffered == []<>(faults > 0 \/ \A r \in RequestId : Reachable(r) => Offered(r))

(***************************************************************************)
(* A payment that Submit was told is accepted, and that was paid, does not *)
(* stay SIGNED: after a restart between submission and report, within the  *)
(* look-back, it is submitted again, answered with a tef code, and         *)
(* reported.  This is not so of a payment that XRPL takes provisionally    *)
(* with a tec code: Submit counts that as a rejection, the cursor passes,  *)
(* and if it is paid later it is reported only after a restart.            *)
(***************************************************************************)
LandedUnreported(r) ==
    /\ requests[r].state = "SIGNED"
    /\ asPredicted(r)
    /\ Paid(blobOf(r))
    /\ Reachable(r)
    /\ \E o \in offered :
          o.blob = blobOf(r) /\ o.code \in {"tesSUCCESS", "terPRE_SEQ", "tefALREADY", "tefPAST_SEQ"}
LandedIsReported == []<>(faults > 0 \/ \A r \in RequestId : ~LandedUnreported(r))
=============================================================================
