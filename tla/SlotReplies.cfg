SPECIFICATION FairSpec
CONSTANTS
    Slots = {s1}
    Peers = {p1}
    NoOne = NoOne
    Handles = {h1}
    ServiceCount = 2
    NoAck = NoAck
    NoOp = NoOp
    NoList = NoList
    NoHandle = NoHandle
    Requests = {"untyped", "with cache", "services", "operations"}
INVARIANTS StreamIsWhole OwedAnswerIsCurrent
PROPERTIES EndIsHeard LeftSlotIsFreed
