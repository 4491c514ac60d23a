\* Two requests share one cumulative cap through authorization, signature, cancellation,
\* refusal, expiry before and after the grace period, and settlement, while two policies and
\* an invalid one are published, acknowledged and superseded.
SPECIFICATION VerifierSpec
CHECK_DEADLOCK FALSE
CONSTANTS
    Account = {alice}
    Deployer = alice
    Enclave = {tee1}
    Verifier = {v1}
    NoAddress = NoAddress
    NoHash = NoHash
    Empty = Empty
    ThisDeployment = here
    Deployment = {here, elsewhere}
    Policy <- ThreePolicies
    Ciphertext = {cipher, Empty}
    treasuryAddr = treasuryAddr
    payeeAddr = treasuryAddr
    XrplAddress = {treasuryAddr}
    tx1 = tx1
    tx2 = tx2
    TxId = {tx1}
    Blob = {blob}
    Drops = {0, 1, 2, 3}
    PauseInput = {FALSE}
    SETTLEMENT_GRACE = 1
    MAX_REQUEST_TTL = 1
    MaxTreasuries = 1
    MaxRequests = 2
    MaxInstructions = 4
    MaxTime = 3
    MaxExtensions = 1
    testXRP = testXRP
    XRP = XRP
    SourceId = {testXRP, XRP}
    EXPECTED_SOURCE_ID = testXRP
    AttestationType = {"XRPPayment", "Payment"}
    ATTESTATION_TYPE_XRP_PAYMENT = "XRPPayment"
    Proof <- OneProof
    Memo <- Memos
INVARIANTS
    BudgetConservation
    PublishedStaysReserved
    NewestPolicyWins
    LivePolicyPublished
    AmountWithinPublishedCap
    ReservedWithinPublishedCap
PROPERTY ImplementsLifecycle
