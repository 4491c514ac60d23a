--------------------------- MODULE SignedPayments ---------------------------
(***************************************************************************)
(* The payments the enclave signs, on Flare and on XRPL.                   *)
(*                                                                         *)
(* A signed blob is its request, sequence and LastLedgerSequence; its hash *)
(* is the XRPL transaction id.  The enclave read the account's validated   *)
(* sequence some time before its result is on chain; Forged results name   *)
(* another transaction id, which the controller cannot tell.               *)
(***************************************************************************)
EXTENDS EventLoop, Xrpl

CONSTANTS
    LedgerWindow,    \* ledgers a signed payment may be given
    Forged           \* transaction ids a wrong prediction may name

\* Blob holds every blob the enclave may sign within the bounds of the model.
ASSUME PaymentsAssumption ==
    /\ MaxLedger \in Nat
    /\ LedgerWindow \subseteq Nat
    /\ \A r \in RequestId, s \in 1..(MaxRequests + 1), l \in 0..MaxLedger, w \in LedgerWindow :
          [request |-> r, sequence |-> s, lastLedger |-> l + w] \in Blob

txIdOf(blob) == Keccak(blob)

\* The blob of the PaymentSigned event of request r.
blobOf(r) == requests[r].signedBlobHash.keccak256

Published(r) == requests[r].signedBlobHash # NoHash

\* The enclave's signature on request r reaches the controller.
SignedPayment(r) ==
    \E s \in 1..sequence, w \in LedgerWindow :
       LET blob == [request |-> r, sequence |-> s, lastLedger |-> ledger + w] IN
       \E tx \in {txIdOf(blob)} \cup Forged :
          Deliver("submitSignedPayment",
                  [signer |-> teeAddress, status |-> 1,
                   data |-> [kind |-> "signed", deployment |-> ThisDeployment, requestId |-> r,
                             memoRef |-> requests[r].memoRef, expectedTxId |-> tx,
                             signedTxBlob |-> blob]])
=============================================================================
