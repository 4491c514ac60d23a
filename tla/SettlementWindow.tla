-------------------------- MODULE SettlementWindow --------------------------
(***************************************************************************)
(* Three clocks bound how long a signed payment may be included: the       *)
(* request's deadline on Flare, the enclave's, which turns what is left of *)
(* it into a LastLedgerSequence, and the pace of XRPL's ledgers.  This     *)
(* module runs the controller against the three and asks when the budget   *)
(* of a signed payment is released.                                        *)
(*                                                                         *)
(* The enclave answers a signing instruction whenever it comes to it:      *)
(* handleSignPayment does not look at the deadline or at the request.      *)
(***************************************************************************)
EXTENDS ServiceChain

CONSTANTS
    MinLedgerWindow, MaxLedgerWindow, LedgerSecondsPerLedger,
    CloseSeconds,      \* the longest a ledger takes to close
    Skew               \* how far the enclave's clock may be from Flare's

\* The pace at which the grace period is long enough.
ASSUME WindowAssumption ==
    /\ MinLedgerWindow \in Nat \ {0} /\ MaxLedgerWindow \in Nat
    /\ MinLedgerWindow <= MaxLedgerWindow
    /\ LedgerSecondsPerLedger \in Nat \ {0}
    /\ CloseSeconds \in Nat /\ CloseSeconds >= LedgerSecondsPerLedger
    /\ Skew \subseteq Int
    /\ \A s \in Skew :
          /\ MinLedgerWindow * CloseSeconds <= SETTLEMENT_GRACE
          /\ MaxLedgerWindow * (CloseSeconds - LedgerSecondsPerLedger) <= SETTLEMENT_GRACE + s

VARIABLES
    ledger,      \* index of the last validated ledger
    closedAt,    \* when it closed
    readLedger,  \* CurrentLedger's answer to the handler of each request, or 0
    blobs,       \* payments signed
    landed       \* payments included in a validated ledger

windowVars == <<chainVars, ledger, closedAt, readLedger, blobs, landed>>

WindowInit ==
    /\ Deployed
    /\ AllAuthorized
    /\ ledger = 1
    /\ closedAt = 0
    /\ readLedger = [r \in RequestId |-> 0]
    /\ blobs = {}
    /\ landed = {}

-----------------------------------------------------------------------------
(* The enclave *)

lastLedgerFor_Uncapped(currentLedger, expiresAt, clock) ==
    LET remaining == expiresAt - clock
        window == IF remaining > 0 THEN remaining \div LedgerSecondsPerLedger ELSE MinLedgerWindow
    IN  currentLedger + IF window < MinLedgerWindow THEN MinLedgerWindow ELSE window
lastLedgerFor_NoFloor(currentLedger, expiresAt, clock) ==
    LET remaining == expiresAt - clock
        window == IF remaining > 0 THEN remaining \div LedgerSecondsPerLedger ELSE 0
    IN  currentLedger + IF window > MaxLedgerWindow THEN MaxLedgerWindow ELSE window
lastLedgerFor(currentLedger, expiresAt, clock) ==
    LET remaining == expiresAt - clock
        window == IF remaining > 0 THEN remaining \div LedgerSecondsPerLedger ELSE MinLedgerWindow
    IN  currentLedger + CASE window < MinLedgerWindow -> MinLedgerWindow
                          [] window > MaxLedgerWindow -> MaxLedgerWindow
                          [] OTHER -> window

Signed(r) == \E b \in blobs : b.request = r

\* handleSignPayment reads the validated ledger index...
ReadLedger(r) ==
    /\ readLedger[r] = 0
    /\ readLedger' = [readLedger EXCEPT ![r] = ledger]
    /\ UNCHANGED <<chainVars, ledger, closedAt, blobs, landed>>

\* ... and then its own clock, and signs; the blob is on the proxy from here on.
Sign(r) ==
    /\ readLedger[r] # 0
    /\ ~Signed(r)
    /\ \E s \in Skew :
          blobs' = blobs \cup
             {[request |-> r,
               lastLedger |-> lastLedgerFor(readLedger[r], requests[r].expiresAt, now + s)]}
    /\ UNCHANGED <<chainVars, ledger, closedAt, readLedger, landed>>

-----------------------------------------------------------------------------
(* The controller *)

Publish(b) ==
    /\ Deliver("submitSignedPayment",
               [signer |-> teeAddress, status |-> 1,
                data |-> [kind |-> "signed", deployment |-> ThisDeployment,
                          requestId |-> b.request, memoRef |-> requests[b.request].memoRef,
                          expectedTxId |-> Keccak(b), signedTxBlob |-> b]])
    /\ UNCHANGED <<ledger, closedAt, readLedger, blobs, landed>>

\* A proof of a payment that landed reaches the verifier.
Settle(b) ==
    /\ b \in landed
    /\ markSettled(fdcVerifier, b.request, Keccak(b))
    /\ UNCHANGED <<events, ledger, closedAt, readLedger, blobs, landed>>

ControllerCalls ==
    /\ \/ \E r \in RequestId : Expire(r) \/ ReportBroadcast(r, requests[r].expectedTxId)
       \/ \E s \in Account, r \in RequestId : Cancel(s, r)
    /\ UNCHANGED <<ledger, closedAt, readLedger, blobs, landed>>

-----------------------------------------------------------------------------
(* XRPL and time *)

\* Anyone may submit a blob; a ledger includes it up to its LastLedgerSequence.
CloseLedger ==
    /\ now > closedAt
    /\ ledger' = ledger + 1
    /\ closedAt' = now
    /\ \E included \in SUBSET {b \in blobs : b.lastLedger >= ledger + 1} :
          landed' = landed \cup included
    /\ UNCHANGED <<chainVars, readLedger, blobs>>

\* The next ledger closes in time.
Wait ==
    /\ now < closedAt + CloseSeconds
    /\ TimePasses
    /\ UNCHANGED <<ledger, closedAt, readLedger, blobs, landed>>

WindowNext ==
    \/ \E r \in RequestId : ReadLedger(r) \/ Sign(r)
    \/ \E b \in blobs : Publish(b) \/ Settle(b)
    \/ ControllerCalls
    \/ CloseLedger
    \/ Wait

WindowSpec == WindowInit /\ [][WindowNext]_windowVars

-----------------------------------------------------------------------------
(* Properties *)

Released(r) == requests[r].state \in {"EXPIRED", "CANCELLED", "FAILED"}
Published(r) == requests[r].signedBlobHash # NoHash

\* No ledger that is still to close can include the payment.
Dead(b) == ledger >= b.lastLedger

(***************************************************************************)
(* The clocks do not run backwards, and a ledger is read before it is      *)
(* signed for.                                                             *)
(***************************************************************************)
WindowTypeOK ==
    /\ ledger \in 1..(MaxTime + 1) /\ closedAt \in 0..now
    /\ readLedger \in [RequestId -> 0..ledger]
    /\ landed \subseteq blobs
    /\ \A b \in blobs : b.request \in RequestId /\ b.lastLedger > readLedger[b.request]

(***************************************************************************)
(* MaxLedgerWindow "is what bounds the contract's SETTLEMENT_GRACE: past   *)
(* this window the signed blob is dead on XRPL": when expireRequest        *)
(* releases the budget of a published payment, no later ledger can include *)
(* it, however late and with however stale a ledger index it was signed.   *)
(***************************************************************************)
PublishedReleasedIsDead ==
    \A b \in blobs : Released(b.request) /\ Published(b.request) => Dead(b)

(***************************************************************************)
(* docs/threat-model.md, "Expire a request whose payment can still land":  *)
(* no request is closed while a signed payment of it is still valid.       *)
(***************************************************************************)
ReleasedIsDead == \A b \in blobs : Released(b.request) => Dead(b)
=============================================================================
