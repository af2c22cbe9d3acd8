SPECIFICATION ThreadSpec
CONSTANTS
    t1 = t1
    t2 = t2
    n1 = n1
    n2 = n2
    Threads <- MCThreads
    Users <- MCUsers
    None = None
    Nothing = Nothing
    Lines <- MCLines
    MaxSock = 2
    Orders = {TRUE, FALSE}
    Nobody = Nobody
    Lost = Lost
SYMMETRY MCSymmetry
INVARIANTS ThreadInv OnlyWhatWasSaid
PROPERTIES ImplementsLocks
CHECK_DEADLOCK FALSE
