SPECIFICATION FairSpec
INVARIANTS TypeOK SubscriptionKept
PROPERTIES StaysOnline LossNoticed LinkAsAssumed
