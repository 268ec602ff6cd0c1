CONSTANTS
    s1 = s1
    s2 = s2
    l1 = l1
    l2 = l2
    Commands = {s1, l1, l2}
    Long = {l1, l2}
    NoCommand = NoCommand
SPECIFICATION FairSpec
INVARIANTS TypeOK AtMostOnce TornOnlyIfDisturbed UndisturbedKept
PROPERTY UndisturbedRuns
