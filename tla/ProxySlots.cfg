SPECIFICATION Spec
CONSTANTS
    Slots = {s1, s2}
    Peers = {p1, p2, p3}
    NoOne = NoOne
    Handles = {}
    ServiceCount = 1
    NoAck = NoAck
    NoOp = NoOp
    NoList = NoList
    NoHandle = NoHandle
    Requests = {}
SYMMETRY Symmetry
INVARIANTS TypeOK OneSlotPerDevice SlotsAreCounted OldPictureIsOwed EndIsOwed SlotIsServed
