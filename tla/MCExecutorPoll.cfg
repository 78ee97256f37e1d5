\* Two polls and no direct call: two reveals are waiting and nothing fails.
SPECIFICATION Spec
CONSTANTS
    P1 = P1
    Pools = {P1}
    Hashes = {H1, H2}
    PoolOf <- MCPoolOf
    ZKVerified = {}
    Polls = {R1, R2}
    Calls = {}
    Expiring = {}
    MIN_COMMITMENTS = 2
    MaxRetries = 1
    MaxFaults = 0
PROPERTIES
    PollingExecutes
