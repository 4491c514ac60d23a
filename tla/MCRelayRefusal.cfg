\* The enclave refuses; the relay carries the refusal to submitFailure.
SPECIFICATION RelaySpec
\* The system may rest when every event has been handled.
CHECK_DEADLOCK FALSE
CONSTANTS
    Account = {alice}
    Deployer = alice
    Enclave = {tee}
    Verifier = {v1}
    NoAddress = NoAddress
    NoHash = NoHash
    Empty = Empty
    NoAnswer = NoAnswer
    ThisDeployment = here
    Deployment = {here}
    Policy <- OnePolicy
    Ciphertext = {cipher}
    XrplAddress = {address}
    TxId = {tx}
    Blob = {blob}
    Drops = {2}
    PauseInput = {}
    SETTLEMENT_GRACE = 1
    MAX_REQUEST_TTL = 1
    MaxTreasuries = 1
    MaxRequests = 1
    MaxInstructions = 2
    MaxTime = 0
    MaxExtensions = 1
    Lookback = 1
    MaxDowntime = 0
    Fault = {}
    MaxMishaps = 0
    FromTreasury = TRUE
INVARIANT RefusalRecorded
