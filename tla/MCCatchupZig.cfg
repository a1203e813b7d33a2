CONSTANTS
    HistoricalCount <- MCHistoricalCount
    LiveCount <- MCLiveCount
    PublisherPorts <- MCPublisherPorts
    SubscriberPorts <- MCSubscriberPorts
SPECIFICATION Spec
INVARIANT
    CompletionSeen
\* Both processes exit: no step is left after that.
CHECK_DEADLOCK FALSE
