\* Against "The batch only fires when enough agents are ready".
SPECIFICATION Spec
CONSTANTS
    Pools = {P1}
    Agents = {A1, A2, A3}
    NoPreference = NoPreference
    NoSignal = NoSignal
    NoBatch = NoBatch
    QUORUM = 2
    MIN_TOTAL = 2
    COUNTDOWN = 1
    STALE = 1
    Strategy = "median"
    DEFAULT_SLIPPAGE = 5
    Commitments = {1}
    Slippages = {1}
    MaxCallbacks = 1
    MaxFirings = 1
SYMMETRY AgentSymmetry
INVARIANTS
    BatchHasQuorum
