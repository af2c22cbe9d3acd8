SPECIFICATION Spec
CONSTANTS
    MAXUSERS = 2
    MaxMessages = 3
    c1 = c1
    c2 = c2
    Clients <- MCClients2
    NoClient = NoClient
    Lines <- MCLines
SYMMETRY Symmetry2
INVARIANTS TypeOK LockedIffHeld MarksNeedTransaction SummIsTotal
PROPERTIES OnlyCommitErases MarksAreKept ImplementsMaildrop
