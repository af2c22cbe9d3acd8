SPECIFICATION ImgSpec
CONSTANTS
    c1 = c1
    c2 = c2
    c3 = c3
    a = a
    b = b
    Conns <- MCConns
    Images <- MCImages
    Dirs = {dir}
    Missing = missing
    NoName = noname
    Empty = empty
    Std = std
    Free = free
    LastFd = 4
SYMMETRY MCSymmetry
INVARIANTS ImgInv OwnReplies
CHECK_DEADLOCK FALSE
