CONSTANTS
    Engines = {e1}
    Peers = {p1, p2}
    Handles = {h1, h2}
    NoOne = NoOne
    NoHandle = NoHandle
    NoLink = NoLink
    NoDial = NoDial
    NoCall = NoCall
    QueueCapacity = 2
    MaxProcs = 1
    MaxEventsPerDrain = 2
    Allowed = {"late"}
SPECIFICATION Spec
INVARIANTS
    NoOrphanLink
