SPECIFICATION Spec
CONSTANTS
    t1 = t1
    t2 = t2
    Threads <- MCThreads
    Nobody = Nobody
    MAXUSERS = 2
    MaxMessages = 2
    Worlds = {TRUE, FALSE}
SYMMETRY MCSymmetry
INVARIANTS ThreadedInv
PROPERTIES OrphanIsForever ImplementsMaildrop
CHECK_DEADLOCK FALSE
