CONSTANTS
    Engines = {e1}
    Peers = {e1}
    Handles = {h1, h2}
    NoOne = NoOne
    NoHandle = NoHandle
    NoLink = NoLink
    NoDial = NoDial
    NoCall = NoCall
    QueueCapacity = 3
    MaxProcs = 2
    MaxEventsPerDrain = 2
    Allowed = {"refuse"}
    AutoConnect = {e1}
    Automations = {"connect", "disconnect"}
SPECIFICATION FairClientSpec
PROPERTIES
    AttemptSettles
    TeardownCompletes
