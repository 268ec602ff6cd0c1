SPECIFICATION Spec
CONSTANTS
    Offset = 3
    Wishes <- TwoWishes
    MaxClock = 3
    MaxOpen = 2
INVARIANT TypeOK
 
