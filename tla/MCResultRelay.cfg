\* One treasury and one request, from creation to signature; the relay dies once, any call of
\* it may fail once, and time passes.
SPECIFICATION RelaySpec
\* The system may rest when every event has been handled.
CHECK_DEADLOCK FALSE
CONSTANTS
    Account = {alice}
    Deployer = alice
    Enclave = {tee}
    Verifier = {v1}
    NoAddress = NoAddress
    NoHash = NoHash
    Empty = Empty
    NoAnswer = NoAnswer
    ThisDeployment = here
    Deployment = {here}
    Policy <- OnePolicy
    Ciphertext = {cipher}
    XrplAddress = {address}
    TxId = {tx}
    Blob = {blob}
    Drops = {2}
    PauseInput = {}
    SETTLEMENT_GRACE = 1
    MAX_REQUEST_TTL = 1
    MaxTreasuries = 1
    MaxRequests = 1
    MaxInstructions = 3
    MaxTime = 2
    MaxExtensions = 1
    Lookback = 0
    MaxDowntime = 0
    Fault = {"proxy", "rpc", "estimate"}
    MaxMishaps = 1
    FromTreasury = FALSE
INVARIANT RelayTypeOK
PROPERTIES
    CursorNeverPinned
    DoneWhenDelivered
    
