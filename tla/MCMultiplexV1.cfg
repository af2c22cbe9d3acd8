SPECIFICATION Spec
CONSTANTS
    c1 = c1
    c2 = c2
    Clients <- MCClients
    Listener = Listener
    Limits = {1, 2}
    MAXUSERS = 2
    MaxMessages = 1
    MAXDATASIZE = 3
    MAXDATARECV = 2
    MaxErrors = 1
    EndsLine = EndsLine
    Sizes = {2}
    InboxMax = 1
    Nobody = Nobody
    Lost = Lost
SYMMETRY MCSymmetry
INVARIANTS V1Inv
PROPERTIES OnlyErrorsLeak NobodyIsSkipped ImplementsLocks
CHECK_DEADLOCK FALSE
