--------------------------- MODULE MCResultRelay ---------------------------
(***************************************************************************)
(* Constants for checking ResultRelay with TLC.                            *)
(***************************************************************************)
EXTENDS ResultRelay

\* Room for one payment of 2.
Single == [maxPerPaymentDrops |-> 2, maxTotalDrops |-> 2, requestTtlSeconds |-> 1]
OnePolicy == {Single}
=============================================================================
