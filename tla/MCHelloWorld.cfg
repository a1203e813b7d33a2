CONSTANT SampleCount <- MCSampleCount
SPECIFICATION FairSpec
INVARIANTS
    TypeOK
    NoGap
    DoneAfterDeparture
    WindowClosed
    LookupFindsPeer
PROPERTIES
    KeepsPromise
    BothExit
    BothSucceed
\* Both processes exit: no step is left after that.
CHECK_DEADLOCK FALSE
