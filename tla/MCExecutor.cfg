\* Two ZK reveals of one pool, a poll and a direct call that overlap, one
\* intent that may expire, one fault.
SPECIFICATION Spec
CONSTANTS
    P1 = P1
    Pools = {P1}
    Hashes = {H1, H2}
    PoolOf <- MCPoolOf
    ZKVerified = {H1, H2}
    Polls = {R1}
    Calls = {C1}
    Expiring = {H2}
    MIN_COMMITMENTS = 1
    MaxRetries = 1
    MaxFaults = 1
INVARIANTS
    SubmittedIsOnChain
PROPERTIES
    CleanUpOnlyExecuted
