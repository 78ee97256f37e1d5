\* Two keccak reveals that make one batch, a poll and a direct call that
\* overlap, one intent that may expire, two faults.
SPECIFICATION Spec
CONSTANTS
    P1 = P1
    Pools = {P1}
    Hashes = {H1, H2}
    PoolOf <- MCPoolOf
    ZKVerified = {}
    Polls = {R1}
    Calls = {C1}
    Expiring = {H2}
    MIN_COMMITMENTS = 2
    MaxRetries = 1
    MaxFaults = 2
INVARIANTS
    TypeOK
PROPERTIES
    EveryRunEnds
    SubmittedGetExecuted
