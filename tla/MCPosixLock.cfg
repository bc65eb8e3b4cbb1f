\* Two threads of one process against a thread of another, over three inodes.
\* No symmetry: a temporal property.
SPECIFICATION FairSpec
CONSTANTS
    t1 = t1
    t2 = t2
    t3 = t3
    p1 = p1
    p2 = p2
    Threads = {t1, t2, t3}
    ProcOf <- TwoProcs
    Inodes = {i1, i2, i3}
    NoInode = NoInode
    NoProc = NoProc
    NoThread = NoThread
    MaxNest = 1
INVARIANTS TypeOK MutualExclusion NameNamesTheHeld
PROPERTIES OnlyTombstonedUnlinked WaiterGetsTheLock
