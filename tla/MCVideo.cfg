CONSTANTS
    d1 = d1
    d2 = d2
    Displays <- MCDisplays
    Followed <- MCFollowed
    MaxFrames <- MCMaxFrames
SPECIFICATION FairSpec
\* The processes end: no step is left after that.
CHECK_DEADLOCK FALSE
INVARIANTS
    VideoInv
PROPERTIES
    StoredIsShown
    CaptureEnds
