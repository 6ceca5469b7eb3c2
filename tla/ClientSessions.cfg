CONSTANTS
    Engines = {e1, e2}
    Peers = {e1, e2}
    Handles = {h1, h2}
    NoOne = NoOne
    NoHandle = NoHandle
    NoLink = NoLink
    NoDial = NoDial
    NoCall = NoCall
    QueueCapacity = 2
    MaxProcs = 1
    MaxEventsPerDrain = 1
    Allowed = {"late", "refuse"}
    AutoConnect = {e1}
    Automations = {"anytime"}
SPECIFICATION ClientSpec
SYMMETRY Symmetry
INVARIANTS
    ClientTypeOK
    EstablishedHasSession
