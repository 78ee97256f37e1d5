\* Two pools of one pair and both execution paths over the same nonces: hashes
\* and stored reveals shared between the pools, commitments duplicated in both.
\* Bound: both paths in one pool, or the keccak path in both pools.
SPECIFICATION Spec
CONSTANTS
    T0 = T0
    T1 = T1
    Alice = Alice
    Bob = Bob
    Hook = Hook
    PoolManager = PoolManager
    NoIntent = NoIntent
    Pools = {P1, P2}
    Tokens <- MCTokens
    Users <- MCUsers
    Currency0 <- MCCurrency0
    Currency1 <- MCCurrency1
    InitialBalance <- MCBalance
    Intents <- PairIntents
    Hashes <- MixedHashes
    HashOf <- PairHashOf
    Provable <- MixedProvable
    MIN_COMMITMENTS = 2
    BATCH_INTERVAL = 1
    StartTime = 2
    MaxTime = 4
    MaxCopies = 2
    MaxBatch = 2
\* The contract is passive: nobody has to call it.
CHECK_DEADLOCK FALSE
CONSTRAINT PathsOrPools
INVARIANTS
    TypeOK
    RevealedIffExecuted
    RevealsAreCommitted
PROPERTIES
    BatchOnlyWhenChecker
    ImplementsLifecycle
