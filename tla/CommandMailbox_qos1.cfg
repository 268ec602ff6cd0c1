CONSTANTS
    s1 = s1
    s2 = s2
    l1 = l1
    l2 = l2
    Commands = {s1, l1}
    Long = {l1}
    NoCommand = NoCommand
SPECIFICATION NoResetSpec
PROPERTY AtLeastOnce
CHECK_DEADLOCK FALSE
