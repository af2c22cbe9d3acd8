SPECIFICATION Spec
CONSTANTS
    c1 = c1
    c2 = c2
    h1 = h1
    h2 = h2
    Clients <- MCClients
    Handles <- MCHandles
    Listener = Listener
    NULL = NULL
    Size <- MCSize
    Room = 2
    MaxFd = 3
    SetSize = 2
    OutMax = 5
    Worlds <- MCWorlds
    Chunks <- MCChunks
    InboxMax = 1
SYMMETRY MCSymmetry
INVARIANTS StaticInv AnswersAreWhole
PROPERTIES OnlyRequestsStopTimers OnlyCutsLeak
CHECK_DEADLOCK FALSE
