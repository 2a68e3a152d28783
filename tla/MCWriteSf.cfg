SPECIFICATION Spec
CONSTANTS
    Size = 2
    MaxTicks = 5
    MaxOpen = 2
    MaxOrders = 4
INVARIANTS
    TypeOK
    FileFaithful
PROPERTY
    StopFlushes
CHECK_DEADLOCK FALSE
