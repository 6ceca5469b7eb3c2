CONSTANTS
    ClockModulus = 64
    CountModulus = 4
    ConnectTimeoutMs = 2
    DiscoverTimeoutMs = 3
    StartMillis = 5
    LoopGap = 2
    MaxClock = 12
SPECIFICATION Spec
INVARIANTS
    TimingInv
    BoundedWait
PROPERTIES
    NoEarlyTimeout
    KeepsAttemptPromise
