CONSTANTS
    PublisherPorts <- MCPublisherPorts
    SubscriberPorts <- MCSubscriberPorts
SPECIFICATION FairSpec
INVARIANTS
    RegistryInv
    NoFalseAlarm
    CompletingCallOver
PROPERTIES
    KeepsPromise
    BothSucceed
\* Both processes exit: no step is left after that.
CHECK_DEADLOCK FALSE
