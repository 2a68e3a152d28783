SPECIFICATION Spec
CONSTANTS
    Size = 2
    MaxTicks = 3
    MaxOpen = 1
    MaxOrders = 2
PROPERTY
    StopWritesAll
CHECK_DEADLOCK FALSE
