\* Two signing instructions for one authorization run concurrently.
SPECIFICATION Spec
CHECK_DEADLOCK FALSE
SYMMETRY Symmetry
CONSTANTS
    g1 = g1
    g2 = g2
    Goroutine = {g1, g2}
    here = here
    elsewhere = elsewhere
    payee = payee
    key1 = key1
    key2 = key2
    sealed1 = sealed1
    sealed2 = sealed2
    NoHash = NoHash
    Garbage = Garbage
    Empty = Empty
    None = None
    Action <- SignActions
    Plaintext <- Instructions
    TreasuryId = {1}
    RequestId = {1, 2, 3}
    XrplAddress = {payee, key1, key2}
    KeyAddress = {key1, key2}
    MinLedgerWindow = 1
    MaxLedgerWindow = 2
    LedgerSecondsPerLedger = 1
    MaxUint64 = 2
    MaxDrops = 1
    MaxDeliveries <- SignOnce
    MaxRestarts = 0
    MaxSequence = 2
    MaxLedger = 1
    MaxClock = 0
INVARIANT OneSignaturePerAuthorization
