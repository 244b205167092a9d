SPECIFICATION Spec
CONSTANTS
    m1 = m1
    m2 = m2
    r1 = r1
    r2 = r2
    Messages = {m1, m2}
    Relays = {r1, r2}
    MaxAttempts <- MCUneven
    LeaseTicks = 2
    BatchSize = 2
    RetryInitial = 1
    RetryMax = 3
INVARIANTS
    DuplicatesBounded
    NeverStranded
    OneLeasePerAttempt
PROPERTIES
    EverySignalSettles
    KeepsPromise
