\* Against "Validate slippage for all users".
SPECIFICATION Spec
CONSTANTS
    T0 = T0
    T1 = T1
    Alice = Alice
    Bob = Bob
    Hook = Hook
    PoolManager = PoolManager
    NoIntent = NoIntent
    Pools = {P1}
    Tokens <- MCTokens
    Users <- MCUsers
    Currency0 <- MCCurrency0
    Currency1 <- MCCurrency1
    InitialBalance <- MCBalance
    Intents <- KeccakIntents
    Hashes <- KeccakHashes
    HashOf <- KeccakHashOf
    Provable = {}
    MIN_COMMITMENTS = 2
    BATCH_INTERVAL = 2
    StartTime = 2
    MaxTime = 4
    MaxCopies = 1
    MaxBatch = 3
\* The contract is passive: nobody has to call it.
CHECK_DEADLOCK FALSE
INVARIANTS
    AllUsersGetMinimum
