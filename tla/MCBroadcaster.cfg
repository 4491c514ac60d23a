\* Two payments of one account, one of them or both with a wrong prediction; the process dies
\* or a call of it fails once; requests are cancelled or expire.
SPECIFICATION BroadcasterSpec
\* The system may rest when every event has been handled.
CHECK_DEADLOCK FALSE
CONSTANTS
    Account = {alice}
    Deployer = alice
    Enclave = {tee}
    Verifier = {v1}
    NoAddress = NoAddress
    NoHash = NoHash
    Empty = Empty
    ThisDeployment = here
    Deployment = {here}
    Policy <- AmplePolicy
    Ciphertext = {cipher}
    XrplAddress = {address}
    TxId <- TxIds
    Blob <- Blobs
    Drops = {1}
    PauseInput = {}
    \* The broadcaster does not depend on the grace period: expiry may come early.
    SETTLEMENT_GRACE = 0
    MAX_REQUEST_TTL = 1
    MaxTreasuries = 1
    MaxRequests = 2
    MaxInstructions = 5
    MaxTime = 2
    MaxExtensions = 1
    Lookback = 0
    MaxDowntime = 0
    Fault = {"xrpl", "rpc", "estimate"}
    MaxMishaps = 1
    MaxLedger = 2
    LedgerWindow = {1}
    Forged = {forged}
INVARIANTS
    BroadcasterTypeOK
    ReportedWasOffered
PROPERTIES
    EveryBlobOffered
    LandedIsReported
