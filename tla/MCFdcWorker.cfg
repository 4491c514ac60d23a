\* One payment; deadlines pass or providers are prompt, calls fail or the process dies, twice in
\* all, and another worker may be first.
SPECIFICATION WorkerSpec
\* The system may rest when every event has been handled.
CHECK_DEADLOCK FALSE
CONSTANTS
    Account = {alice}
    Deployer = alice
    Enclave = {tee}
    Verifier = {v1}
    NoAddress = NoAddress
    NoHash = NoHash
    Empty = Empty
    ThisDeployment = here
    Deployment = {here}
    Policy <- AmplePolicy
    Ciphertext = {cipher}
    XrplAddress = {address}
    TxId <- TxIds
    Blob <- Blobs
    Drops = {1}
    PauseInput = {}
    \* The worker does not depend on the grace period: expiry may come early.
    SETTLEMENT_GRACE = 0
    MAX_REQUEST_TTL = 1
    MaxTreasuries = 1
    MaxRequests = 1
    MaxInstructions = 5
    MaxTime = 2
    MaxExtensions = 1
    Lookback = 0
    MaxDowntime = 1
    Fault = {"state", "call"}
    MaxMishaps = 2
    MaxLedger = 4
    LedgerWindow = {1}
    Forged = {}
    Confirmations = 3
    FirstVotingRoundStartTs = 0
    VotingEpochSeconds = 2
    Uint64 = 16
INVARIANTS
    WorkerTypeOK
    DoneIsSettled
PROPERTIES
    WorkerComesBack
    FinishedWorkNotPaidAgain
    SettledWhenReached
