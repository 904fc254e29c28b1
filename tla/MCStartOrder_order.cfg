SPECIFICATION Spec
CONSTANTS
    a = a
    b = b
    c = c
    NoContainer = NoContainer
    Containers <- MCContainers
    Words <- OwnWords
    Dependencies <- ChainFreeFiles
    StackFiles <- LinkFiles
SYMMETRY Symmetry
INVARIANTS TypeOK LaunchedOnce AllServed RequestedIsStacked
PROPERTY DependencyServedFirst
CHECK_DEADLOCK FALSE
