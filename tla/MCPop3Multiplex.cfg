SPECIFICATION Spec
CONSTANTS
    MAXUSERS = 1
    MaxMessages = 1
    c1 = c1
    c2 = c2
    c3 = c3
    Clients <- MCClients2
    NoClient = NoClient
    Lines <- MCLines
    part = part
    Fragments <- MCFragments
    Listener = Listener
    Limits = {2}
    Manners = {TRUE, FALSE}
    BufMax = 1
    InboxMax = 1
SYMMETRY Symmetry2
INVARIANTS LoopInv NeverKilled
PROPERTIES ImplementsSessions
CHECK_DEADLOCK FALSE
