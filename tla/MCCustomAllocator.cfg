CONSTANTS
    main = main
    t1 = t1
    t2 = t2
    NoThread = NoThread
    Main = main
    Threads <- MCThreads
    BlockCount <- MCBlockCount
    MaxPeers <- MCMaxPeers
    BootSize <- MCBootSize
    LibraryOps <- MCLibraryOps
SPECIFICATION ProcessSpec
SYMMETRY MCSymmetry
INVARIANTS
    ProcessInv
    NoDoubleHandout
    NothingLost
    ChainIntact
    NoWildCall
    NothingUnseen
    SettledRunsQuiet
PROPERTIES
    ActsAtomically
