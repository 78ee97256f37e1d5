\* Two health checks overlap at the limit of one restart.
\* The other components are as small as they can be.
SPECIFICATION SystemSpec
CONSTANTS
    PoolOrder <- MCPools
    Monitors = {m1}
    MaxNonce = 1
    MaxStarts = 1
    Checks = {c1}
    MonitorRuns = {r1}
    HealthRuns = {h1, h2}
    MaxRetries = 1
    MaxConsecutiveErrors = 1
    MaxTotalRestarts = 1
    BusAgents = {a1}
    Topics = {t1}
    BusPools = {}
    StateKeys = {k1}
    NoPool = NoPool
    MaxHistory = 1
    MaxMessages = 1
    MaxSubscriptions = 1
    MaxDepth = 1
    MonitorPools = {q1}
    MaxPollRetries = 1
    EnableEventListeners = TRUE
    MaxPolls = 1
    MinAmountIn = 10
    MaxAmountIn = 90
    SlippageBps = 50
    PriceScale = 1000
    K = 2
    D = 21
    Prices = {0}
    MinDataPoints = 2
    MaxDataPoints = 2
    Changes <- MCChanges
    Liquidities = {0}
    Volumes = {0}
    MarketPrices = {0}
    References <- MCReferences
    Holders = {h1}
    Wallets = {w1}
    MaxPayments = 1
    MaxRecords = 1
    FileLayers <- MCFileLayers
    EnvLayers <- MCEnvLayers
\* Everything can be stopped, and bounds end what goes on.
CHECK_DEADLOCK FALSE
INVARIANTS
    RestartsWithinLimit
