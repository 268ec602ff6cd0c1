CONSTANTS
    QueueLen = 3
    MaxLeaks = 1
SPECIFICATION FairSpec
INVARIANTS TypeOK SessionOwn BuffersOwned Discoverable KeepsTrying EventsTell
PROPERTIES BitSettles Recovers EventsAsAssumed
