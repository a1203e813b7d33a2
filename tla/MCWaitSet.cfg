CONSTANTS
    SampleCount <- MCSampleCount
    Threshold <- MCThreshold
    PublisherPorts <- MCPublisherPorts
    SubscriberPorts <- MCSubscriberPorts
SPECIFICATION FairSpec
INVARIANTS
    WaitSetInv
    AllReceivedIfValidated
    DoneAfterDeparture
PROPERTIES
    BothExit
    BothSucceed
\* Both processes exit: no step is left after that.
CHECK_DEADLOCK FALSE
