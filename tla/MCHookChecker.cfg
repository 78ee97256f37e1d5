\* Against "canExec Whether execution can proceed".
SPECIFICATION Spec
CONSTANTS
    T0 = T0
    T1 = T1
    Alice = Alice
    Bob = Bob
    Hook = Hook
    PoolManager = PoolManager
    NoIntent = NoIntent
    Pools = {P1}
    Tokens <- MCTokens
    Users <- MCUsers
    Currency0 <- MCCurrency0
    Currency1 <- MCCurrency1
    InitialBalance <- MCBalance
    Intents <- PairIntents
    Hashes <- PairHashes
    HashOf <- PairHashOf
    Provable = {}
    MIN_COMMITMENTS = 2
    BATCH_INTERVAL = 2
    StartTime = 2
    MaxTime = 4
    MaxCopies = 2
    MaxBatch = 2
\* The contract is passive: nobody has to call it.
CHECK_DEADLOCK FALSE
INVARIANTS
    CheckerMeansExecutable
