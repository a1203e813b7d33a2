CONSTANTS
    p1 = p1
    p2 = p2
    Publishers <- MCPublishers
    NumInstances = 1
    CoherentSamples = 1
    Options <- CppOptions
SPECIFICATION Spec
\* The processes end: no step is left after that.
CHECK_DEADLOCK FALSE
INVARIANTS
    NoFailure
