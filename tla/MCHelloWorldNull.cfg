CONSTANT SampleCount <- MCSampleCount
SPECIFICATION Spec
INVARIANT
    ReaderAssignedBeforeTake
\* Both processes exit: no step is left after that.
CHECK_DEADLOCK FALSE
