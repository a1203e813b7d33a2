CONSTANTS
    p1 = p1
    p2 = p2
    Publishers <- MCPublishers
    NumInstances = 1
    CoherentSamples = 1
    Options <- MCOptions
SPECIFICATION FairSpec
\* The processes end: no step is left after that.
CHECK_DEADLOCK FALSE
INVARIANTS
    ShapeInv
    SetsWhole
    FinalStateDelivered
PROPERTIES
    PublisherEnds
