CONSTANTS
    HistoricalCount <- MCHistoricalCount
    LiveCount <- MCLiveCount
    PublisherPorts <- MCPublisherPorts
    SubscriberPorts <- MCSubscriberPorts
SPECIFICATION FairSpec
INVARIANTS
    CatchupInv
    ShortOnlyByLag
    CompletionSeenSeqCst
PROPERTIES
    KeepsPromise
    BothSucceed
\* Both processes exit: no step is left after that.
CHECK_DEADLOCK FALSE
