\* Every failure count the 8-bit shift can represent, and every random draw.
CONSTANTS
    ShiftModulus = 256
    MaxFailures = 256
SPECIFICATION BackoffSpec
INVARIANT DelayIsDocumented
