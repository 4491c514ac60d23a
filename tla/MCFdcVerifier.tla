--------------------------- MODULE MCFdcVerifier ---------------------------
(***************************************************************************)
(* Constants for checking BridgeSafeFdcVerifier with TLC.                  *)
(***************************************************************************)
EXTENDS BridgeSafeFdcVerifier

CONSTANTS
    treasuryAddr, payeeAddr,   \* XRPL addresses
    tx1, tx2,                  \* XRPL transactions
    testXRP, XRP               \* FDC sources

policy(perPayment, total, ttl) ==
    [maxPerPaymentDrops |-> perPayment, maxTotalDrops |-> total, requestTtlSeconds |-> ttl]

\* Room for two payments of 1, for payments of 2 and 1, and for two of 2.
TightPolicy == policy(1, 2, 1)
LoosePolicy == policy(2, 3, 1)
AmplePolicy == {policy(2, 4, 1)}
\* The third is refused: its cumulative cap is below its per-payment cap.
ThreePolicies == {TightPolicy, LoosePolicy, policy(3, 2, 1)}

Memos == {encodeMemo(m) : m \in MemoRef} \cup {Empty}

\* A successful payment of amount by the treasury, in transaction tx, for request r.
payment(tx, r, amount) ==
    [accepted |-> TRUE, attestationType |-> "XRPPayment", sourceId |-> testXRP,
     transactionId |-> tx, status |-> 0,
     sourceAddressHash |-> Keccak(treasuryAddr), receivingAddressHash |-> Keccak(payeeAddr),
     receivedAmount |-> amount, hasMemoData |-> TRUE,
     firstMemoData |-> encodeMemo(memoRef(1, r, r))]

\* Transaction 1 pays request 1, transaction 2 pays request 2, and near misses of them.
Proofs ==
    {payment(tx1, 1, 2), payment(tx2, 2, 2),
     [payment(tx1, 2, 2) EXCEPT !.accepted = FALSE],
     [payment(tx2, 1, 2) EXCEPT !.sourceId = XRP],
     [payment(tx2, 2, 2) EXCEPT !.status = 1],
     [payment(tx2, 2, 2) EXCEPT !.attestationType = "Payment"],
     [payment(tx2, 2, 2) EXCEPT !.receivingAddressHash = Keccak(treasuryAddr)],
     [payment(tx2, 2, 2) EXCEPT !.hasMemoData = FALSE],
     [payment(tx2, 2, 2) EXCEPT !.receivedAmount = -2]}
OneProof == {payment(tx1, 1, 2)}
=============================================================================
