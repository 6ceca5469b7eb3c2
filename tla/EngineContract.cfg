CONSTANTS
    Engines = {e1, e2}
    Peers = {p1, p2}
    Handles = {h1, h2}
    NoOne = NoOne
    NoHandle = NoHandle
    NoLink = NoLink
    NoDial = NoDial
    NoCall = NoCall
    QueueCapacity = 3
    MaxProcs = 2
    MaxEventsPerDrain = 2
    Allowed = {"refuse"}
SPECIFICATION Spec
SYMMETRY Symmetry
INVARIANTS
    TypeOK
    HandleIsMine
    NoOrphanLink
    AttemptHasDeadline
    UpIsForThePeer
PROPERTIES
    AnswersMatch
    OnlyDiscoveryTimesOut
    KeepsContract
