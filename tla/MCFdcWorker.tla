---------------------------- MODULE MCFdcWorker ----------------------------
(***************************************************************************)
(* Constants for checking FdcWorker with TLC.                              *)
(***************************************************************************)
EXTENDS FdcWorker

AmplePolicy == {[maxPerPaymentDrops |-> 1, maxTotalDrops |-> 2, requestTtlSeconds |-> 1]}

Blobs ==
    [request : RequestId, sequence : 1..(MaxRequests + 1),
     lastLedger : {l + w : l \in 0..MaxLedger, w \in LedgerWindow}]
TxIds == {txIdOf(b) : b \in Blobs}
=============================================================================
