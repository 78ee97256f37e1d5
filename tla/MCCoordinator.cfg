\* Three agents, a quorum of two: a countdown, an early batch and a
\* batch fired while another is awaited.
SPECIFICATION Spec
CONSTANTS
    Pools = {P1}
    Agents = {A1, A2, A3}
    NoPreference = NoPreference
    NoSignal = NoSignal
    NoBatch = NoBatch
    QUORUM = 2
    MIN_TOTAL = 2
    COUNTDOWN = 2
    STALE = 1
    Strategy = "median"
    DEFAULT_SLIPPAGE = 5
    Commitments = {0, 1}
    Slippages = {1, 4}
    MaxCallbacks = 2
    MaxFirings = 2
INVARIANTS
    TypeOK
    QuorumIsHandled
    MedianIsCentral
PROPERTIES
    EarlyBatchIsUnanimous
    QuorumLeadsToBatch
