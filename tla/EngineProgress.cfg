CONSTANTS
    Engines = {e1}
    Peers = {p1}
    Handles = {h1, h2}
    NoOne = NoOne
    NoHandle = NoHandle
    NoLink = NoLink
    NoDial = NoDial
    NoCall = NoCall
    QueueCapacity = 2
    MaxProcs = 1
    MaxEventsPerDrain = 2
    Allowed = {"overflow", "refuse", "setup", "cached", "reuse"}
SPECIFICATION FairSpec
INVARIANTS
    AttemptIsOpen
PROPERTIES
    ConnectAnswered
    DiscoveryEnds
