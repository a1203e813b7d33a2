CONSTANTS
    BeaconCount <- MCBeaconCount
    BeaconPeriod <- MCBeaconPeriod
    Lease <- MCLease
    OfflineDuration <- MCOfflineDuration
    Slack <- MCSlack
    PublisherPorts <- MCPublisherPorts
    SubscriberPorts <- MCSubscriberPorts
SPECIFICATION FairSpec
INVARIANTS
    PresenceInv
PROPERTY
    BothSucceed
\* Both processes exit: no step is left after that.
CHECK_DEADLOCK FALSE
