\* A payment signed at any time against clocks that disagree by one unit.
SPECIFICATION WindowSpec
\* The bound on time stops every run.
CHECK_DEADLOCK FALSE
CONSTANTS
    Account = {alice}
    Deployer = alice
    Enclave = {tee}
    Verifier = {v1}
    NoAddress = NoAddress
    NoHash = NoHash
    Empty = Empty
    ThisDeployment = here
    Deployment = {here}
    Policy <- OnePolicy
    Ciphertext = {cipher}
    XrplAddress = {address}
    TxId <- TxIds
    Blob <- Blobs
    Drops = {1}
    PauseInput = {}
    SETTLEMENT_GRACE = 4
    MAX_REQUEST_TTL = 6
    MaxTreasuries = 1
    MaxRequests = 1
    MaxInstructions = 3
    MaxTime = 16
    MaxExtensions = 1
    MinLedgerWindow = 2
    MaxLedgerWindow = 3
    LedgerSecondsPerLedger = 1
    CloseSeconds = 2
    Skew <- SkewOfOne
INVARIANTS
    WindowTypeOK
    PublishedReleasedIsDead
