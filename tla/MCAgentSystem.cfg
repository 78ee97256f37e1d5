\* Every component: two overlapping polls of the agent and two overlapping batch
\* checks; one monitor loop, two overlapping health checks and one start from
\* outside; nested publishing; a callback that throws; three updates of the
\* averages; two payments; every mixture of sound and odd settings.
SPECIFICATION SystemSpec
CONSTANTS
    PoolOrder <- MCPools
    Monitors = {m1, m2}
    MaxNonce = 2
    MaxStarts = 1
    Checks = {c1, c2}
    MonitorRuns = {r1}
    HealthRuns = {h1, h2}
    MaxRetries = 1
    MaxConsecutiveErrors = 1
    MaxTotalRestarts = 1
    BusAgents = {a1, a2}
    Topics = {t1}
    BusPools = {}
    StateKeys = {k1}
    NoPool = NoPool
    MaxHistory = 2
    MaxMessages = 3
    MaxSubscriptions = 2
    MaxDepth = 2
    MonitorPools = {q1}
    MaxPollRetries = 1
    EnableEventListeners = TRUE
    MaxPolls = 3
    MinAmountIn = 10
    MaxAmountIn = 90
    SlippageBps = 50
    PriceScale = 1000
    K = 2
    D = 21
    Prices = {0, 1, 2}
    MinDataPoints = 2
    MaxDataPoints = 3
    Changes <- MCChanges
    Liquidities = {0, 1000, 200000}
    Volumes = {0, 30000}
    MarketPrices = {0, 1000}
    References <- MCReferences
    Holders = {h1}
    Wallets = {w1, w2}
    MaxPayments = 2
    MaxRecords = 2
    FileLayers <- MCFileLayers
    EnvLayers <- MCEnvLayers
\* Everything can be stopped, and bounds end what goes on.
CHECK_DEADLOCK FALSE
INVARIANTS
    AgentsTypeOK
    OneTimerIffRunning
    
    ExcessRestartsBounded
    PolledIffMonitored
    HeardOnceInOrder
    ZScoreBounded
    FetchedDataSignals
    LiveIsConfigured
PROPERTIES
    BusDelivers
    StoredIsCollected
    ComesBack
