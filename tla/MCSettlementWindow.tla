------------------------- MODULE MCSettlementWindow -------------------------
(***************************************************************************)
(* Constants for checking SettlementWindow with TLC.                       *)
(***************************************************************************)
EXTENDS SettlementWindow

OnePolicy == {[maxPerPaymentDrops |-> 1, maxTotalDrops |-> 1, requestTtlSeconds |-> 6]}

\* The enclave's clock is right, or one unit off.
SkewOfOne == {-1, 0, 1}

Blobs == [request : RequestId, lastLedger : 1..(2 * MaxTime + 2)]
TxIds == {Keccak(b) : b \in Blobs}
=============================================================================
