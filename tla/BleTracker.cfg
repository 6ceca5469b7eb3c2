CONSTANTS
    Devices = {d1, d2}
    NoDevice = NoDevice
    MaxAdverts = 3
    MaxPendingAdv = 1
    AdvQueueCapacity = 3
    MaxAgenda = 4
    Allowed = {}
SPECIFICATION FairSpec
INVARIANTS
    TypeOK
    MergedIsOwn
    ScannerStateIsTrue
PROPERTIES
    KeepsDelivery
    EachIsGiven
    ScanGoesOn
