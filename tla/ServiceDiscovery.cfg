SPECIFICATION Spec
CONSTANTS
    MaxHandle = 7
    QueueCapacity = 2
    Users = {"proxy", "client"}
    NoProc = NoProc
CHECK_DEADLOCK FALSE
INVARIANTS TableIsDatabase IndexesFit
