SPECIFICATION FairSpec
CONSTANTS
    MAXUSERS = 1
    MaxMessages = 0
    c1 = c1
    c2 = c2
    c3 = c3
    Clients <- MCClients3
    NoClient = NoClient
    Lines <- MCIdleLines
    part = part
    Fragments <- MCNoFragments
    Listener = Listener
    Limits = {1, 3}
    Manners = {FALSE}
    BufMax = 1
    InboxMax = 1
PROPERTIES NoStarvation NobodyWaits JamIsForever
CHECK_DEADLOCK FALSE
