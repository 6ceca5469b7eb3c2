SPECIFICATION Spec
CONSTANTS
    Handles = {h1, h2}
    Characteristics = {c1}
    Descriptors = {}
    OnWrite = {c1}
    Values = {v1, v2}
    QueueCapacity = 2
    MaxClients = 2
    NoWrite = NoWrite
SYMMETRY Symmetry
INVARIANTS ServerIsCurrent ServerIsFound
