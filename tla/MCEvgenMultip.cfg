SPECIFICATION FairSpec
CONSTANTS
    c1 = c1
    c2 = c2
    n1 = n1
    n2 = n2
    part = part
    Clients <- MCClients
    Users <- MCUsers
    Parts <- MCParts
    Listener = Listener
    None = None
    Limits = {1, 2}
    BufMax = 1
    EndsLine = EndsLine
    InboxMax = 1
    Nobody = Nobody
    Lost = Lost
INVARIANTS TypeOK
PROPERTIES ImplementsLocks EndsLeak NobodyWaits
CHECK_DEADLOCK FALSE
