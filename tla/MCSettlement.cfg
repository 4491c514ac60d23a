\* Two requests of two treasuries race through settlement while the owner may switch
\* verifiers; any enclave answers are accepted in any order.
SPECIFICATION VerifierSpec
CHECK_DEADLOCK FALSE
CONSTANTS
    Account = {alice}
    Deployer = alice
    Enclave = {tee1}
    Verifier = {v1, v2}
    NoAddress = NoAddress
    NoHash = NoHash
    Empty = Empty
    ThisDeployment = here
    Deployment = {here}
    Policy <- AmplePolicy
    Ciphertext = {cipher}
    treasuryAddr = treasuryAddr
    payeeAddr = payeeAddr
    XrplAddress = {treasuryAddr, payeeAddr}
    tx1 = tx1
    tx2 = tx2
    TxId = {tx1, tx2}
    Blob = {blob}
    Drops = {2}
    PauseInput = {FALSE}
    SETTLEMENT_GRACE = 1
    MAX_REQUEST_TTL = 1
    MaxTreasuries = 2
    MaxRequests = 2
    MaxInstructions = 4
    MaxTime = 1
    MaxExtensions = 1
    testXRP = testXRP
    XRP = XRP
    SourceId = {testXRP, XRP}
    EXPECTED_SOURCE_ID = testXRP
    AttestationType = {"XRPPayment", "Payment"}
    ATTESTATION_TYPE_XRP_PAYMENT = "XRPPayment"
    Proof <- Proofs
    Memo <- Memos
INVARIANTS
    VerifierTypeOK
    SettledIsProved
    OnePaymentOneRequest
    SettlementLedgerAgrees
    ProofNotSpentElsewhere
    IdsAndNonces
PROPERTY ImplementsLifecycle
