SPECIFICATION FairSpec
CONSTANTS
    c1 = c1
    c2 = c2
    Clients <- MCClients
    Listener = Listener
    NULL = NULL
    Size <- MCSize
    Page404 <- MCPage
    Room = 3
    BufMax = 2
    MaxFd = 3
    SetSize = 2
    Worlds <- MCWorlds
    Chunks <- MCChunks
    InboxMax = 1
INVARIANTS ServInv
PROPERTIES ClosedWhenWhole ReadersAreServed
CHECK_DEADLOCK FALSE
