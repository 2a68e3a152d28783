SPECIFICATION Spec
CONSTANTS
    Tick = 2
    Size = 4
    Lengths = {7, 8}
    Rest = 2
    MaxOpen = 2
    MaxCalm = 4
    MaxHasty = 1
INVARIANTS
    TypeOK
    PlaysInOrder
    EofIsReal
    OldFileIsGone
PROPERTY
    EofComes
CHECK_DEADLOCK FALSE
