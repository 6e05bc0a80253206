CONSTANTS
    a = a
    b = b
    c = c
    i1 = i1
    i2 = i2
    i3 = i3
    NoProc = NoProc
    NoInode = NoInode
    Proc <- MCProc
    Inode <- MCInode
    MaxCalls = 2
SPECIFICATION FairSpec
INVARIANTS TypeOK HeldIsLinked MutualExclusion
PROPERTIES Answered ImplementsNameLock
CHECK_DEADLOCK FALSE
